------------------------- MODULE VectorSync_proofs --------------------------
(***************************************************************************)
(* Proofs about VectorSync, for any number of workers, chunks and events:  *)
(* the types, that the intent to erase a collection is never lost, and that *)
(* an acknowledged erasure is final; and, about the remote store, who      *)
(* acknowledges a journal row, that settled rows are final, that an        *)
(* acknowledged deletion and an acknowledged upload are in the store, and  *)
(* that the store implements VectorIndexContract.                          *)
(***************************************************************************)
EXTENDS VectorSync, FiniteSetTheorems, TLAPS

(* The bounds of the journal are numbers. *)
LEMMA Bounds ==
    /\ MaxEvents \in Nat /\ MaxAttempts \in Nat
    /\ 0 \in 0..MaxEvents /\ 0 \in 0..MaxAttempts
    /\ Ids \subseteq 0..MaxEvents
BY OutboxAssumption DEF Ids

(* What the journal's helpers return is an event of the same kind of intent. *)
LEMMA EventTypes ==
    ASSUME NEW e \in Event, NEW w \in Workers
    PROVE  /\ \A s \in States : Released(e, s) \in Event /\ Released(e, s).op = e.op
           /\ ~Exhausted(e) => Claimed(e, w) \in Event
           /\ Claimed(e, w).op = e.op
           /\ Completed(e) \in Event
           /\ \A b \in BOOLEAN : Failed(e, b) \in Event
           /\ Superseded(e) \in Event
           /\ Deferred(e) \in Event
           /\ Retried(e) \in Event
           /\ CasKey(e) \in Seen
<1>1. \A s \in States : Released(e, s) \in Event /\ Released(e, s).op = e.op
  BY DEF Event, Released
<1>2. {"pending", "processing", "delivered", "dead", "superseded"} \subseteq States
  BY DEF States
<1>a. MaxAttempts \in Nat /\ 0 \in 0..MaxAttempts
  BY Bounds
<1>b. ~Exhausted(e) => e.attempts + 1 \in 0..MaxAttempts
  BY <1>a DEF Event, Exhausted
<1>3. ~Exhausted(e) => Claimed(e, w) \in Event
  BY <1>2, <1>b DEF Event, Claimed
<1>4. Claimed(e, w).op = e.op
  BY DEF Event, Claimed
<1>5. Completed(e) \in Event /\ Superseded(e) \in Event
  BY <1>1, <1>2 DEF Completed, Superseded
<1>6. \A b \in BOOLEAN : Failed(e, b) \in Event
  BY <1>1, <1>2 DEF Failed
<1>7. Deferred(e) \in Event
  BY <1>1, <1>2 DEF Deferred, Event
<1>8. Retried(e) \in Event
  BY <1>2, <1>a DEF Retried, Event
<1>9. CasKey(e) \in Seen
  BY DEF CasKey, Seen, Event
<1> QED
  BY <1>1, <1>3, <1>4, <1>5, <1>6, <1>7, <1>8, <1>9

(* A row that the sequence has not reached names no intent and no claim. *)
LEMMA NoEventFields ==
    NoEvent.op = "upsert" /\ NoEvent.state = "none" /\ NoEvent.ready = "unset"
BY DEF NoEvent, NewEvent

(* Which of the fields that other rows' invariants depend on they change.   *)
LEMMA EventFields ==
    ASSUME NEW e \in Event, NEW w \in Workers
    PROVE  /\ \A s \in States : /\ Released(e, s).op = e.op
                               /\ Released(e, s).ready = e.ready
                               /\ Released(e, s).state = s
           /\ Claimed(e, w).op = e.op /\ Claimed(e, w).ready = e.ready
           /\ Claimed(e, w).state = "processing"
           /\ Completed(e).op = e.op /\ Completed(e).ready = e.ready
           /\ Completed(e).state = "delivered"
           /\ \A b \in BOOLEAN : /\ Failed(e, b).op = e.op
                                 /\ Failed(e, b).ready = e.ready
                                 /\ Failed(e, b).state \in {"dead", "pending"}
           /\ Superseded(e).op = e.op /\ Superseded(e).ready = e.ready
           /\ Superseded(e).state \in {e.state, "superseded"}
           /\ Deferred(e).op = e.op /\ Deferred(e).ready = "waiting"
           /\ Deferred(e).state = "pending"
           /\ Retried(e).op = e.op /\ Retried(e).ready = "unset"
           /\ Retried(e).state = "pending"
<1>1. \A s \in States : /\ Released(e, s).op = e.op
                        /\ Released(e, s).ready = e.ready
                        /\ Released(e, s).state = s
  BY DEF Event, Released
<1>2. {"pending", "delivered", "dead", "superseded"} \subseteq States
  BY DEF States
<1>3. Claimed(e, w).op = e.op /\ Claimed(e, w).ready = e.ready /\ Claimed(e, w).state = "processing"
  BY DEF Event, Claimed
<1>4. /\ Completed(e).op = e.op /\ Completed(e).ready = e.ready
      /\ Completed(e).state = "delivered"
      /\ \A b \in BOOLEAN : /\ Failed(e, b).op = e.op
                            /\ Failed(e, b).ready = e.ready
                            /\ Failed(e, b).state \in {"dead", "pending"}
  BY <1>1, <1>2 DEF Completed, Failed
<1>5. /\ Superseded(e).op = e.op /\ Superseded(e).ready = e.ready
      /\ Superseded(e).state \in {e.state, "superseded"}
  BY <1>1, <1>2 DEF Superseded
<1>6. Deferred(e).op = e.op /\ Deferred(e).ready = "waiting" /\ Deferred(e).state = "pending"
  <2>1. Released(e, "pending") \in Event /\ Released(e, "pending").op = e.op
        /\ Released(e, "pending").state = "pending"
    BY <1>1, <1>2, EventTypes
  <2> QED
    BY <2>1 DEF Deferred, Event
<1>7. Retried(e).op = e.op /\ Retried(e).ready = "unset" /\ Retried(e).state = "pending"
  BY DEF Event, Retried
<1> QED
  BY <1>1, <1>3, <1>4, <1>5, <1>6, <1>7

(* A new intent is an event of the kind it was made for. *)
LEMMA NewEventType ==
    ASSUME NEW op \in Ops, NEW c \in Chunks \cup {None}
    PROVE  NewEvent(op, c) \in Event /\ NewEvent(op, c).op = op
BY OutboxAssumption DEF NewEvent, Event, States

(* What the store holds after a request is well formed. *)
LEMMA ApplyType ==
    ASSUME TypeOK, NEW i \in Ids, Apply(i)
    PROVE  remote' \in [present : BOOLEAN, points : [Chunks -> Point]]
<1> DEFINE c == journal[i].chunk
<1>1. i \in 0..MaxEvents
  BY Bounds
<1>2. \A r \in 0..MaxEvents, d \in BOOLEAN : [revision |-> r, deleted |-> d] \in Point
  BY DEF Point
<1>3. remote \in [present : BOOLEAN, points : [Chunks -> Point]]
  BY DEF TypeOK
<1>4. \A d \in BOOLEAN :
        [remote.points EXCEPT ![c] = [revision |-> i, deleted |-> d]] \in [Chunks -> Point]
  BY <1>1, <1>2, <1>3
<1>5. Written(remote.points, i) \in [Chunks -> Point]
  BY <1>3, <1>4 DEF Written
<1>6. NoPoints \in [Chunks -> Point]
  BY Bounds, <1>2 DEF NoPoints, NoPoint
<1> QED
  BY <1>3, <1>5, <1>6 DEF Apply

(* A worker that is at work is at work on a row of the journal.             *)
Busy == \A w \in Workers : worker[w].phase # "idle" => worker[w].id \in Ids

(* The step lemmas for the parts of the state that a claim moves.           *)
LEMMA WorkerTypes ==
    ASSUME TypeOK, NEW w \in Workers
    PROVE  /\ GoIdle(w) => worker' \in [Workers -> Local] /\ (Busy => Busy')
           /\ \A ph \in Phases : Become(w, ph) /\ worker[w].phase # "idle"
                 => worker' \in [Workers -> Local] /\ (Busy => Busy')
<1>1. worker \in [Workers -> Local]
  BY DEF TypeOK
<1>2. Idle \in Local
  BY Bounds DEF Idle, Local, Phases, NothingSeen, Seen, States
<1>3. GoIdle(w) => worker' \in [Workers -> Local] /\ (Busy => Busy')
  BY <1>1, <1>2 DEF GoIdle, Busy, Idle
<1>4. ASSUME NEW ph \in Phases, Become(w, ph), worker[w].phase # "idle"
      PROVE  worker' \in [Workers -> Local] /\ (Busy => Busy')
  BY <1>1, <1>4 DEF Become, Busy, Local
<1> QED
  BY <1>3, <1>4

(* A step that rewrites one row, by an event, keeps the journal well typed.  *)
LEMMA RowUpdate ==
    ASSUME OutboxTypeOK, NEW i \in Ids, NEW e \in Event, UNCHANGED lastId,
           journal' = [journal EXCEPT ![i] = e]
    PROVE  OutboxTypeOK'
BY DEF OutboxTypeOK

(* Appending a row to the journal keeps it well typed. *)
LEMMA EnqueueType ==
    ASSUME OutboxTypeOK, NEW op \in Ops, NEW c \in Chunks \cup {None}, Enqueue(op, c)
    PROVE  OutboxTypeOK' /\ lastId + 1 \in Ids
<1>1. lastId + 1 \in Ids /\ lastId' \in 0..MaxEvents
  BY Bounds DEF Enqueue, OutboxTypeOK, Ids
<1> QED
  BY <1>1, NewEventType DEF Enqueue, OutboxTypeOK

(* The journal after the erasure of the account.                            *)
LEMMA EraseAccountType ==
    ASSUME TypeOK, EraseAccount
    PROVE  OutboxTypeOK'
<1> DEFINE left  == {c \in Chunks : HasRow(c)}
           first == IF txn.target = "bound" THEN lastId + 1 ELSE lastId
           last  == first + Cardinality(left)
<1>1. Cardinality(left) \in Nat
  BY SyncAssumption, FS_Subset, FS_CardinalityType
<1>2. lastId \in Nat /\ first \in Nat /\ last \in Nat /\ first <= last
  BY <1>1, Bounds DEF TypeOK, OutboxTypeOK
<1>3. lastId' = last /\ last <= MaxEvents
  BY DEF EraseAccount
<1>4. PICK order \in [(first + 1)..last -> left] :
         journal' = [i \in Ids |->
                     IF i <= lastId THEN Superseded(journal[i])
                     ELSE IF i <= first THEN NewEvent("delete_generation", None)
                     ELSE IF i <= last THEN NewEvent("delete_chunk", order[i])
                     ELSE journal[i]]
  BY DEF EraseAccount
<1>5. ASSUME NEW i \in Ids PROVE journal'[i] \in Event
  <2>1. Superseded(journal[i]) \in Event
    <3>1. journal[i] \in Event
      BY DEF TypeOK, OutboxTypeOK
    <3>2. Released(journal[i], "superseded") \in Event
      BY <3>1 DEF Released, Event, States
    <3> QED
      BY <3>1, <3>2 DEF Superseded
  <2>2. NewEvent("delete_generation", None) \in Event
    BY NewEventType DEF Ops
  <2>3. CASE i <= lastId
    BY <1>4, <2>1, <2>3
  <2>4. CASE ~(i <= lastId) /\ i <= first
    BY <1>4, <2>2, <2>4
  <2>5. CASE ~(i <= lastId) /\ ~(i <= first) /\ i <= last
    <3>1. i \in (first + 1)..last
      BY <1>2, <2>5, Bounds DEF Ids
    <3>2. order[i] \in Chunks
      BY <1>4, <3>1
    <3>3. NewEvent("delete_chunk", order[i]) \in Event
      BY <3>2, NewEventType DEF Ops, PointOps
    <3> QED
      BY <1>4, <2>5, <3>3
  <2>6. CASE ~(i <= lastId) /\ ~(i <= first) /\ ~(i <= last)
    BY <1>4, <2>6 DEF TypeOK, OutboxTypeOK
  <2> QED
    BY <2>3, <2>4, <2>5, <2>6
<1>6. journal' \in [Ids -> Event]
  BY <1>4, <1>5
<1> QED
  BY <1>2, <1>3, <1>6, Bounds DEF OutboxTypeOK

-----------------------------------------------------------------------------
(* Types.  Busy is needed because a worker's steps write to the row it works  *)
(* on.                                                                       *)
Typed == TypeOK /\ Busy

(* The types, in the initial state and under each group of steps. *)
LEMMA TypedInit == Init => Typed
<1> SUFFICES ASSUME Init PROVE Typed
  OBVIOUS
<1>1. OutboxTypeOK
  <2>1. NoEvent \in Event
    BY NewEventType DEF NoEvent, NewEvent, Event, Ops, PointOps, States
  <2> QED
    BY <2>1, Bounds DEF Init, OutboxInit, OutboxTypeOK
<1>2. rows \in [Chunks -> Row]
  BY Bounds DEF Init, Row, RowStates
<1>3. worker \in [Workers -> Local] /\ Busy
  BY Bounds DEF Init, Idle, Local, Phases, NothingSeen, Seen, States, Busy
<1>4. remote \in [present : BOOLEAN, points : [Chunks -> Point]]
  BY Bounds, SyncAssumption DEF Init, NoPoints, NoPoint, Point
<1>5. flags \subseteq Flags /\ creating \subseteq Preparers /\ late \subseteq Ids
  BY DEF Init
<1>6. owner \in Owners /\ generation \in Statuses /\ bound \in BOOLEAN /\ txn \in Txn
  BY SyncAssumption DEF Init, Owners, Statuses, Txn, NoTxn
<1> QED
  BY <1>1, <1>2, <1>3, <1>4, <1>5, <1>6 DEF Typed, TypeOK

(* Creation, binding, activation, retirement and failure of a generation
   keep the types. *)
LEMMA TypedLifecycle == Typed /\ Lifecycle => Typed'
<1>1. ASSUME Typed, Binding \/ Erasing PROVE Typed'
  <2>1. txn' \in Txn /\ bound' \in BOOLEAN
    BY <1>1 DEF Typed, TypeOK, Binding, BindLock, BindTarget, BindRollsBack, Erasing,
       EraseLock, EraseRead, EraseRollsBack, Txn
  <2>2. UNCHANGED <<outboxVars, owner, generation, rows, flags, worker, creating, late, remote>>
    BY <1>1 DEF Binding, BindLock, BindTarget, BindRollsBack, Erasing, EraseLock,
       EraseRead, EraseRollsBack
  <2> QED
    BY <1>1, <2>1, <2>2 DEF Typed, TypeOK, Busy, OutboxTypeOK, outboxVars
<1>2. ASSUME Typed, Create \/ FailBuilding \/ Activate \/ Retire PROVE Typed'
  BY <1>2 DEF Typed, TypeOK, Busy, OutboxTypeOK, Create, FailBuilding, Activate, Retire,
     outboxVars, Statuses
<1> QED
  BY <1>1, <1>2 DEF Lifecycle

(* So do the SQL mutations and the deletion of the account, *)
LEMMA TypedMutation == Typed /\ Mutation => Typed'
<1> SUFFICES ASSUME Typed, Mutation PROVE Typed'
  OBVIOUS
<1>1. OutboxTypeOK /\ lastId \in Nat
  BY Bounds DEF Typed, TypeOK, OutboxTypeOK
<1>2. ASSUME NEW c \in Chunks, PutChunk(c) PROVE Typed'
  <2>1. OutboxTypeOK' /\ lastId + 1 \in 0..MaxEvents
    BY <1>1, <1>2, EnqueueType, Bounds DEF PutChunk, Ops, PointOps
  <2>2. rows' \in [Chunks -> Row]
    BY <1>2, <2>1 DEF PutChunk, Typed, TypeOK, Row, RowStates
  <2> QED
    BY <1>2, <2>1, <2>2 DEF PutChunk, Typed, TypeOK, Busy
<1>3. ASSUME NEW c \in Chunks, DeleteChunk(c) PROVE Typed'
  <2>1. OutboxTypeOK'
    BY <1>1, <1>3, EnqueueType DEF DeleteChunk, Ops, PointOps
  <2>2. rows' \in [Chunks -> Row]
    BY <1>3 DEF DeleteChunk, Typed, TypeOK, Row, RowStates
  <2> QED
    BY <1>3, <2>1, <2>2 DEF DeleteChunk, Typed, TypeOK, Busy
<1>4. CASE BlockOwner
  BY <1>4 DEF BlockOwner, Typed, TypeOK, OutboxTypeOK, outboxVars, Busy, Owners
<1>5. CASE EraseAccount
  <2>1. OutboxTypeOK'
    BY <1>5, EraseAccountType DEF Typed
  <2>2. /\ generation' = "deleted"
        /\ rows' = [c \in Chunks |-> IF HasRow(c) THEN [rows[c] EXCEPT !.state = "gone"] ELSE rows[c]]
        /\ txn' \in Txn
        /\ UNCHANGED <<owner, bound, flags, worker, creating, late, remote>>
    BY <1>5 DEF EraseAccount, NoTxn, Txn
  <2>3. rows' \in [Chunks -> Row]
    BY <2>2 DEF Typed, TypeOK, Row, RowStates
  <2> QED
    BY <2>1, <2>2, <2>3 DEF Typed, TypeOK, Busy, Statuses
<1> QED
  BY <1>2, <1>3, <1>4, <1>5 DEF Mutation

(* the preparation of the remote collection, *)
LEMMA TypedPrepare == Typed /\ Prepare => Typed'
BY DEF Typed, TypeOK, Busy, OutboxTypeOK, Prepare, PrepareArm, PrepareLands,
   PrepareLost, outboxVars, sqlVars

(* every step of a worker, *)
LEMMA TypedWorkerStep ==
    ASSUME Typed, NEW w \in Workers, WorkerStep(w)
    PROVE  Typed'
<1> USE DEF Typed
<1>1. ASSUME worker[w].phase # "idle"
      PROVE  worker[w].id \in Ids /\ journal[worker[w].id] \in Event
  BY <1>1 DEF Busy, TypeOK, OutboxTypeOK
<1>2. ASSUME NEW i \in Ids, Select(w, i) PROVE Typed'
  <2>1. CasKey(journal[i]) \in Seen
    BY EventTypes DEF TypeOK, OutboxTypeOK
  <2>2. [phase |-> "selected", id |-> i, seen |-> CasKey(journal[i])] \in Local
    BY <2>1, Bounds DEF Local, Phases
  <2>3. worker' \in [Workers -> Local] /\ Busy'
    BY <1>2, <2>2 DEF Select, TypeOK, Busy
  <2> QED
    BY <1>2, <2>3 DEF Select, TypeOK, OutboxTypeOK, outboxVars, sqlVars
<1>3. CASE ClaimCas(w)
  <2> DEFINE i == worker[w].id
  <2>1. i \in Ids /\ journal[i] \in Event
    BY <1>1, <1>3 DEF ClaimCas
  <2>2. Released(journal[i], "dead") \in Event /\ (~Exhausted(journal[i]) => Claimed(journal[i], w) \in Event)
    BY <2>1, EventTypes DEF States
  <2>3. OutboxTypeOK'
    BY <1>3, <2>1, <2>2 DEF ClaimCas, TypeOK, OutboxTypeOK
  <2>4. [phase |-> "claimed", id |-> i, seen |-> NothingSeen] \in Local
    BY <2>1, Bounds DEF Local, Phases, NothingSeen, Seen, States
  <2>5. worker' \in [Workers -> Local] /\ Busy'
    BY <1>3, <2>1, <2>4, WorkerTypes DEF ClaimCas, TypeOK, Busy
  <2> QED
    BY <1>3, <2>3, <2>5 DEF ClaimCas, TypeOK, sqlVars
<1>4. CASE Reply(w)
  <2>1. worker[w].id \in Ids /\ worker' \in [Workers -> Local] /\ Busy'
    BY <1>1, <1>4, WorkerTypes DEF Reply, Phases
  <2>2. remote' \in [present : BOOLEAN, points : [Chunks -> Point]]
    BY <1>4, <2>1, ApplyType DEF Reply
  <2> QED
    BY <1>4, <2>1, <2>2 DEF Reply, TypeOK, OutboxTypeOK, outboxVars, sqlVars
<1>5. CASE PointArm(w) \/ PointStale(w) \/ EraseArm(w)
  <2>1. worker' \in [Workers -> Local] /\ Busy'
    BY <1>5, WorkerTypes DEF PointArm, PointStale, EraseArm, Phases
  <2> QED
    BY <1>5, <2>1 DEF PointArm, PointStale, EraseArm, TypeOK, OutboxTypeOK, outboxVars,
       sqlVars
<1>6. CASE PointSupersede(w)
  <2>1. worker[w].id \in Ids /\ Superseded(journal[worker[w].id]) \in Event
    BY <1>1, <1>6, EventTypes DEF PointSupersede
  <2>2. worker' \in [Workers -> Local] /\ Busy'
    BY <1>6, WorkerTypes DEF PointSupersede
  <2> QED
    BY <1>6, <2>1, <2>2, RowUpdate DEF PointSupersede, TypeOK, sqlVars
<1>7. CASE PointAck(w)
  <2>1. worker[w].id \in Ids /\ Completed(journal[worker[w].id]) \in Event
    BY <1>1, <1>7, EventTypes DEF PointAck
  <2>2. worker' \in [Workers -> Local] /\ Busy'
    BY <1>7, WorkerTypes DEF PointAck
  <2>3. OutboxTypeOK'
    BY <1>7, <2>1 DEF PointAck, TypeOK, OutboxTypeOK
  <2>4. rows' \in [Chunks -> Row]
    BY <1>7 DEF PointAck, TypeOK, Row, RowStates
  <2> QED
    BY <1>7, <2>2, <2>3, <2>4 DEF PointAck, TypeOK
<1>8. CASE EraseDefer(w)
  <2>1. worker[w].id \in Ids /\ Deferred(journal[worker[w].id]) \in Event
    BY <1>1, <1>8, EventTypes DEF EraseDefer
  <2>2. worker' \in [Workers -> Local] /\ Busy'
    BY <1>8, WorkerTypes DEF EraseDefer
  <2>3. OutboxTypeOK'
    BY <1>8, <2>1 DEF EraseDefer, TypeOK, OutboxTypeOK
  <2> QED
    BY <1>8, <2>2, <2>3 DEF EraseDefer, TypeOK, sqlVars
<1>9. CASE EraseAck(w)
  <2>1. worker[w].id \in Ids /\ Completed(journal[worker[w].id]) \in Event
    BY <1>1, <1>9, EventTypes DEF EraseAck
  <2>2. worker' \in [Workers -> Local] /\ Busy'
    BY <1>9, WorkerTypes DEF EraseAck
  <2>3. OutboxTypeOK'
    BY <1>9, <2>1 DEF EraseAck, TypeOK, OutboxTypeOK
  <2> QED
    BY <1>9, <2>2, <2>3 DEF EraseAck, TypeOK, sqlVars
<1> QED
  BY <1>2, <1>3, <1>4, <1>5, <1>6, <1>7, <1>8, <1>9 DEF WorkerStep, PointStep, EraseStep

(* and the steps nobody takes: expired leases, late requests,
   administration. *)
LEMMA TypedEnvironment == Typed /\ Environment => Typed'
<1> SUFFICES ASSUME Typed, Environment PROVE Typed'
  OBVIOUS
<1> USE DEF Typed
<1>1. ASSUME NEW w \in Workers, WorkerFails(w) \/ WorkerDies(w) PROVE Typed'
  <2>1. worker[w].id \in Ids /\ journal[worker[w].id] \in Event
    BY <1>1 DEF WorkerFails, WorkerDies, Busy, TypeOK, OutboxTypeOK
  <2>2. \A b \in BOOLEAN : Failed(journal[worker[w].id], b) \in Event
    BY <2>1, EventTypes
  <2>3. OutboxTypeOK'
    BY <1>1, <2>1, <2>2 DEF WorkerFails, WorkerDies, TypeOK, OutboxTypeOK, outboxVars
  <2>4. worker' \in [Workers -> Local] /\ Busy'
    BY <1>1, WorkerTypes DEF WorkerFails, WorkerDies
  <2>5. late' \subseteq Ids
    BY <1>1, <2>1 DEF WorkerFails, WorkerDies, MayBeLate, TypeOK
  <2> QED
    BY <1>1, <2>3, <2>4, <2>5 DEF WorkerFails, WorkerDies, TypeOK, sqlVars
<1>2. ASSUME NEW i \in Ids, LateApply(i) PROVE Typed'
  BY <1>2, ApplyType DEF LateApply, TypeOK, OutboxTypeOK, Busy, outboxVars, sqlVars
<1>3. ASSUME NEW i \in Ids, LateLost(i) PROVE Typed'
  BY <1>3 DEF LateLost, TypeOK, OutboxTypeOK, Busy, outboxVars, sqlVars
<1>4. ASSUME NEW i \in Ids, LeaseExpires(i) \/ RetryDead(i), UNCHANGED restVars PROVE Typed'
  <2>1. journal[i] \in Event
    BY DEF TypeOK, OutboxTypeOK
  <2>2. [journal[i] EXCEPT !.live = FALSE] \in Event /\ Retried(journal[i]) \in Event
    BY ZenonT(60), <2>1, EventTypes, Bounds DEF Event, Retried, States
  <2>3. OutboxTypeOK'
    BY <1>4, <2>2 DEF LeaseExpires, RetryDead, TypeOK, OutboxTypeOK
  <2> QED
    BY <1>4, <2>3 DEF TypeOK, restVars, Busy
<1>5. ASSUME NEW i \in Ids, GraceElapses(i) PROVE Typed'
  <2>1. [journal[i] EXCEPT !.ready = "passed"] \in Event
    BY DEF TypeOK, OutboxTypeOK, Event
  <2>2. OutboxTypeOK'
    BY <1>5, <2>1 DEF GraceElapses, TypeOK, OutboxTypeOK
  <2> QED
    BY <1>5, <2>2 DEF GraceElapses, TypeOK, sqlVars, Busy
<1>6. CASE SetFlags
  BY <1>6 DEF SetFlags, TypeOK, OutboxTypeOK, outboxVars, sqlVars, Busy
<1> QED
  BY <1>1, <1>2, <1>3, <1>4, <1>5, <1>6 DEF Environment

(* Every step keeps the types. *)
LEMMA TypedStep == Typed /\ [Next]_vars => Typed'
<1> SUFFICES ASSUME Typed, [Next]_vars PROVE Typed'
  OBVIOUS
<1>1. CASE UNCHANGED vars
  BY <1>1 DEF vars, Typed, TypeOK, OutboxTypeOK, Busy
<1> QED
  BY <1>1, TypedLifecycle, TypedMutation, TypedPrepare, TypedWorkerStep,
     TypedEnvironment DEF Next

(* Every variable keeps its type, for any instance.                         *)
THEOREM TypeCorrect == Spec => []TypeOK
<1>1. Spec => []Typed
  BY TypedInit, TypedStep, PTL DEF Spec
<1> QED
  BY <1>1, PTL DEF Typed

-----------------------------------------------------------------------------
(* What a step can do to the journal.                                        *)

(* Rows are allocated in order; an intent to erase exists only once the       *)
(* generation is deleted; a worker works on an intent of its own kind.       *)
Fresh         == \A i \in Ids : i > lastId => journal[i] = NoEvent
ErasureIsLast == \A i \in Ids : journal[i].op = "delete_generation" => generation = "deleted"
ClaimFits     == \A w \in Workers : worker[w].phase # "idle"
                    => worker[w].id <= lastId /\ journal[worker[w].id].op \in ClaimsOf(w)

Keys == Fresh /\ ErasureIsLast /\ ClaimFits

(* The ways a single row changes.                                            *)
RowMayBecome(i, e) ==
    /\ e.op = journal[i].op
    /\ e.state = "none" => journal[i].state = "none"
    /\ e.state = "superseded" => journal[i].state = "superseded" \/ journal[i].op \in PointOps
    /\ e.state = "delivered" => \/ journal[i].state = "delivered"
                                \/ journal[i].op \in PointOps
                                \/ \E w \in ErasureWorkers : worker[w].phase = "replied"
    /\ e.ready = "waiting" => journal[i].ready = "waiting" \/ journal[i].op = "delete_generation"
    /\ e.ready = "passed" => \/ journal[i].ready = "passed"
                             \/ creating = {} /\ journal[i].ready = "waiting"

RowStep ==
    \E i \in Ids, e \in Event :
        /\ i <= lastId
        /\ RowMayBecome(i, e)
        /\ journal' = [journal EXCEPT ![i] = e]
        /\ UNCHANGED <<lastId, generation, bound>>

EnqueueStep ==
    /\ \E op \in PointOps, c \in Chunks : Enqueue(op, c)
    /\ UNCHANGED <<generation, bound>>

JournalStep == UNCHANGED outboxVars \/ RowStep \/ EnqueueStep \/ EraseAccount

(* A step of a worker changes the journal in the row of its claim only. *)
LEMMA WorkerJournalStep ==
    ASSUME Typed, Keys, NEW w \in Workers, WorkerStep(w) \/ WorkerFails(w) \/ WorkerDies(w)
    PROVE  JournalStep
<1> DEFINE i == worker[w].id
<1>1. ASSUME worker[w].phase # "idle"
      PROVE  i \in Ids /\ i <= lastId /\ journal[i] \in Event /\ journal[i].op \in ClaimsOf(w)
  BY <1>1 DEF Typed, TypeOK, OutboxTypeOK, Busy, Keys, ClaimFits
<1>2. ASSUME NEW e \in Event, worker[w].phase # "idle", RowMayBecome(i, e),
             journal' = [journal EXCEPT ![i] = e], UNCHANGED <<lastId, generation, bound>>
      PROVE  RowStep
  BY <1>1, <1>2 DEF RowStep
<1>3. CASE (\E j \in Ids : Select(w, j)) \/ Reply(w) \/ PointArm(w) \/ PointStale(w) \/ EraseArm(w) \/ WorkerDies(w)
  BY <1>3 DEF Select, Reply, PointArm, PointStale, EraseArm, WorkerDies, JournalStep
<1>4. CASE ClaimCas(w)
  <2>1. worker[w].phase # "idle"
    BY <1>4 DEF ClaimCas
  <2>2. RowMayBecome(i, Released(journal[i], "dead")) /\ RowMayBecome(i, Claimed(journal[i], w))
    BY <1>1, <2>1, EventFields DEF RowMayBecome, States
  <2>3. Released(journal[i], "dead") \in Event /\ (~Exhausted(journal[i]) => Claimed(journal[i], w) \in Event)
    BY <1>1, <2>1, EventTypes DEF States
  <2> QED
    BY <1>2, <1>4, <2>1, <2>2, <2>3 DEF ClaimCas, JournalStep, outboxVars, sqlVars
<1>5. CASE PointSupersede(w)
  <2>1. worker[w].phase # "idle" /\ journal[i].op \in PointOps
    BY <1>1, <1>5 DEF PointSupersede, ClaimsOf
  <2>2. RowMayBecome(i, Superseded(journal[i]))
    BY <1>1, <2>1, EventFields DEF RowMayBecome, States
  <2> QED
    BY <1>1, <1>2, <1>5, <2>1, <2>2, EventTypes DEF PointSupersede, JournalStep, sqlVars
<1>6. CASE PointAck(w)
  <2>1. worker[w].phase # "idle" /\ journal[i].op \in PointOps
    BY <1>1, <1>6 DEF PointAck, ClaimsOf
  <2>2. RowMayBecome(i, Completed(journal[i]))
    BY <1>1, <2>1, EventFields DEF RowMayBecome, States
  <2> QED
    BY <1>1, <1>2, <1>6, <2>1, <2>2, EventTypes DEF PointAck, JournalStep, outboxVars
<1>7. CASE EraseDefer(w)
  <2>1. worker[w].phase # "idle" /\ journal[i].op = "delete_generation"
    BY <1>1, <1>7, OutboxAssumption DEF EraseDefer, ClaimsOf
  <2>2. RowMayBecome(i, Deferred(journal[i]))
    BY <1>1, <2>1, EventFields DEF RowMayBecome, States
  <2> QED
    BY <1>1, <1>2, <1>7, <2>1, <2>2, EventTypes DEF EraseDefer, JournalStep, outboxVars,
       sqlVars
<1>8. CASE EraseAck(w)
  <2>1. worker[w].phase # "idle"
    BY <1>8 DEF EraseAck
  <2>2. RowMayBecome(i, Completed(journal[i]))
    BY <1>1, <1>8, <2>1, EventFields DEF RowMayBecome, States, EraseAck
  <2> QED
    BY <1>1, <1>2, <1>8, <2>1, <2>2, EventTypes DEF EraseAck, JournalStep, outboxVars,
       sqlVars
<1>9. CASE WorkerFails(w)
  <2>1. worker[w].phase # "idle"
    BY <1>9 DEF WorkerFails
  <2>2. \A b \in BOOLEAN : RowMayBecome(i, Failed(journal[i], b))
    BY <1>1, <2>1, EventFields DEF RowMayBecome, States
  <2>3. \A b \in BOOLEAN : Failed(journal[i], b) \in Event
    BY <1>1, <2>1, EventTypes
  <2>4. (w \in ErasureWorkers /\ ~Retired) \in BOOLEAN
    OBVIOUS
  <2> QED
    BY <1>2, <1>9, <2>1, <2>2, <2>3, <2>4 DEF WorkerFails, JournalStep, outboxVars, sqlVars
<1> QED
  BY <1>3, <1>4, <1>5, <1>6, <1>7, <1>8, <1>9 DEF WorkerStep, PointStep, EraseStep

(* What one step does to the journal, whoever takes it; the generation and    *)
(* its binding change in no other step that touches the journal.             *)
LEMMA StepsOfJournal == Typed /\ Keys /\ [Next]_vars => JournalStep
<1> SUFFICES ASSUME Typed, Keys, [Next]_vars PROVE JournalStep
  OBVIOUS
<1>1. CASE Lifecycle \/ Prepare \/ SetFlags \/ UNCHANGED vars
  BY <1>1 DEF Lifecycle, Create, Binding, BindLock, BindTarget, BindRollsBack,
     Erasing, EraseLock, EraseRead, EraseRollsBack, FailBuilding, Activate,
     Retire, Prepare, PrepareArm, PrepareLands, PrepareLost, SetFlags, vars,
     outboxVars, JournalStep
<1>2. CASE Mutation
  BY <1>2 DEF Mutation, PutChunk, DeleteChunk, BlockOwner, JournalStep, EnqueueStep,
     PointOps
<1>3. ASSUME NEW w \in Workers, WorkerStep(w) \/ WorkerFails(w) \/ WorkerDies(w) PROVE JournalStep
  BY <1>3, WorkerJournalStep
<1>4. ASSUME NEW i \in Ids, LateApply(i) \/ LateLost(i) PROVE JournalStep
  BY <1>4 DEF LateApply, LateLost, JournalStep
<1>5. ASSUME NEW i \in Ids
      PROVE  /\ journal[i] \in Event
             /\ journal[i].state # "none" \/ journal[i].ready # "unset" => i <= lastId
  BY Bounds, NoEventFields DEF Typed, TypeOK, OutboxTypeOK, Keys, Fresh, Ids
<1>6. ASSUME NEW i \in Ids, LeaseExpires(i), UNCHANGED restVars PROVE JournalStep
  <2> DEFINE e == [journal[i] EXCEPT !.live = FALSE]
  <2>a. e \in Event
    BY <1>5 DEF Event
  <2>b. e.op = journal[i].op /\ e.state = journal[i].state /\ e.ready = journal[i].ready
    BY <1>5 DEF Event
  <2>c. RowMayBecome(i, e)
    BY <2>b DEF RowMayBecome
  <2>1. e \in Event /\ RowMayBecome(i, e)
    BY <2>a, <2>c
  <2> QED
    BY <1>5, <1>6, <2>1 DEF LeaseExpires, restVars, JournalStep, RowStep
<1>7. ASSUME NEW i \in Ids, RetryDead(i), UNCHANGED restVars PROVE JournalStep
  <2>1. Retried(journal[i]) \in Event
    BY <1>5, Bounds DEF Retried, Event, States
  <2>2. RowMayBecome(i, Retried(journal[i]))
    <3>1. /\ Retried(journal[i]).op = journal[i].op
          /\ Retried(journal[i]).state = "pending" /\ Retried(journal[i]).ready = "unset"
      BY <1>5 DEF Event, Retried
    <3> QED
      BY <3>1 DEF RowMayBecome
  <2> QED
    BY <1>5, <1>7, <2>1, <2>2 DEF RetryDead, restVars, JournalStep, RowStep
<1>8. ASSUME NEW i \in Ids, GraceElapses(i) PROVE JournalStep
  <2> DEFINE e == [journal[i] EXCEPT !.ready = "passed"]
  <2>a. e \in Event
    BY <1>5 DEF Event
  <2>b. e.op = journal[i].op /\ e.state = journal[i].state /\ e.ready = "passed"
    BY <1>5 DEF Event
  <2>1. e \in Event /\ RowMayBecome(i, e)
    BY <1>8, <2>a, <2>b DEF GraceElapses, RowMayBecome
  <2>2. i <= lastId
    BY <1>5, <1>8 DEF GraceElapses
  <2> QED
    BY <1>8, <2>1, <2>2 DEF GraceElapses, JournalStep, RowStep, sqlVars
<1> QED
  BY <1>1, <1>2, <1>3, <1>4, <1>6, <1>7, <1>8 DEF Next, Environment


(* How a worker comes to its row.                                            *)
LEMMA StepsOfWorkers ==
    ASSUME Typed, [Next]_vars, NEW w \in Workers, worker'[w].phase # "idle"
    PROVE  \/ worker[w].phase # "idle" /\ worker'[w].id = worker[w].id
           \/ \E i \in Ids : Select(w, i) /\ worker'[w].id = i
<1>1. worker \in [Workers -> Local] /\ Idle.phase = "idle"
  BY DEF Typed, TypeOK, Idle
<1>2. CASE Lifecycle \/ Mutation \/ Prepare \/ SetFlags \/ UNCHANGED vars
  BY <1>2 DEF Lifecycle, Create, Binding, BindLock, BindTarget, BindRollsBack,
     Erasing, EraseLock, EraseRead, EraseRollsBack, FailBuilding, Activate,
     Retire, Prepare, PrepareArm, PrepareLands, PrepareLost, SetFlags, vars,
     Mutation, PutChunk, DeleteChunk, BlockOwner, EraseAccount
<1>3. ASSUME NEW i \in Ids, \/ LateApply(i) \/ LateLost(i) \/ GraceElapses(i)
                            \/ UNCHANGED restVars
      PROVE  worker' = worker
  BY <1>3 DEF LateApply, LateLost, GraceElapses, restVars
<1>4. ASSUME NEW v \in Workers, WorkerStep(v) \/ WorkerFails(v) \/ WorkerDies(v)
      PROVE  \/ worker[w].phase # "idle" /\ worker'[w].id = worker[w].id
             \/ \E i \in Ids : Select(w, i) /\ worker'[w].id = i
  <2>1. CASE v # w
    <3>1. worker'[w] = worker[w]
      BY <1>1, <1>4, <2>1 DEF WorkerStep, WorkerFails, WorkerDies, Select, ClaimCas,
         Reply, PointStep, PointArm, PointSupersede, PointStale, PointAck, EraseStep,
         EraseDefer, EraseArm, EraseAck, Become, GoIdle
    <3> QED
      BY <3>1
  <2>2. CASE v = w
    <3>1. CASE \E i \in Ids : Select(v, i)
      <4>1. PICK i \in Ids : Select(w, i)
        BY <2>2, <3>1
      <4>2. worker'[w].id = i
        BY <1>1, <4>1 DEF Select
      <4> QED
        BY <4>1, <4>2
    <3>2. GoIdle(w) => worker'[w].phase = "idle"
      BY <1>1 DEF GoIdle
    <3>3. \A ph \in Phases : Become(w, ph) => worker'[w].id = worker[w].id
      BY <1>1 DEF Become, Local
    <3>4. CASE ClaimCas(v)
      BY <1>1, <2>2, <3>2, <3>4 DEF ClaimCas
    <3>5. CASE Reply(v) \/ PointArm(v) \/ EraseArm(v)
      BY <2>2, <3>3, <3>5 DEF Reply, PointArm, EraseArm, Phases
    <3>6. CASE \/ PointSupersede(v) \/ PointStale(v) \/ PointAck(v) \/ EraseDefer(v) \/ EraseAck(v)
               \/ WorkerFails(v) \/ WorkerDies(v)
      BY <2>2, <3>2, <3>6 DEF PointSupersede, PointStale, PointAck, EraseDefer,
         EraseAck, WorkerFails, WorkerDies
    <3> QED
      BY <1>4, <3>1, <3>4, <3>5, <3>6 DEF WorkerStep, PointStep, EraseStep
  <2> QED
    BY <2>1, <2>2
<1> QED
  BY <1>2, <1>3, <1>4 DEF Next, Environment

(* A deleted generation stays deleted and bound as it was, no new creation    *)
(* of its collection starts, and once none is under way an erased collection  *)
(* stays erased.                                                             *)
LEMMA DeletedIsQuiet ==
    ASSUME Typed, [Next]_vars, generation = "deleted"
    PROVE  /\ generation' = "deleted" /\ bound' = bound
           /\ creating' \subseteq creating
           /\ creating = {} /\ ~remote.present => ~remote'.present
<1>1. remote \in [present : BOOLEAN, points : [Chunks -> Point]]
  BY DEF Typed, TypeOK
<1>2. ASSUME NEW i, Apply(i), ~remote.present PROVE ~remote'.present
  BY <1>1, <1>2 DEF Apply
<1>3. CASE Lifecycle \/ Mutation \/ SetFlags \/ UNCHANGED vars
  BY <1>3 DEF Lifecycle, Create, Binding, BindLock, BindTarget, BindRollsBack,
     Erasing, EraseLock, EraseRead, EraseRollsBack, FailBuilding, Activate,
     Retire, SetFlags, vars, sqlVars, Mutation, PutChunk, DeleteChunk,
     BlockOwner, EraseAccount
<1>4. CASE Prepare
  BY <1>4 DEF Prepare, PrepareArm, PrepareLands, PrepareLost, sqlVars
<1>5. ASSUME NEW i \in Ids, \/ LateApply(i) \/ LateLost(i) \/ GraceElapses(i)
                            \/ UNCHANGED restVars
      PROVE  /\ UNCHANGED <<generation, bound, creating>>
             /\ ~remote.present => ~remote'.present
  BY <1>2, <1>5 DEF LateApply, LateLost, GraceElapses, restVars, sqlVars
<1>6. ASSUME NEW w \in Workers, WorkerStep(w) \/ WorkerFails(w) \/ WorkerDies(w)
      PROVE  /\ UNCHANGED <<generation, bound, creating>>
             /\ ~remote.present => ~remote'.present
  <2>1. CASE Reply(w)
    BY <1>2, <2>1 DEF Reply, sqlVars
  <2> QED
    BY <1>6, <2>1 DEF WorkerStep, WorkerFails, WorkerDies, Select, ClaimCas, PointStep,
       PointArm, PointSupersede, PointStale, PointAck, EraseStep, EraseDefer, EraseArm,
       EraseAck, sqlVars
<1> QED
  BY <1>3, <1>4, <1>5, <1>6 DEF Next, Environment


(* The keys of the journal hold before anything is written. *)
LEMMA KeysInit == Init => Keys
BY NoEventFields, Bounds DEF Init, OutboxInit, Keys, Fresh, ErasureIsLast, ClaimFits, Idle

(* Keys under the four kinds of steps of the journal.                        *)
LEMMA FreshStep == Typed /\ Keys /\ JournalStep => Fresh' /\ lastId <= lastId'
<1> SUFFICES ASSUME Typed, Keys, JournalStep PROVE Fresh' /\ lastId <= lastId'
  OBVIOUS
<1>1. lastId \in Nat /\ journal \in [Ids -> Event] /\ Ids \subseteq Nat
  BY Bounds DEF Typed, TypeOK, OutboxTypeOK, Ids
<1>2. CASE UNCHANGED outboxVars
  BY <1>1, <1>2 DEF outboxVars, Keys, Fresh
<1>3. CASE RowStep
  BY <1>1, <1>3 DEF RowStep, Keys, Fresh
<1>4. CASE EnqueueStep
  BY <1>1, <1>4 DEF EnqueueStep, Enqueue, Keys, Fresh
<1>5. CASE EraseAccount
  <2> DEFINE left  == {c \in Chunks : HasRow(c)}
             first == IF txn.target = "bound" THEN lastId + 1 ELSE lastId
             last  == first + Cardinality(left)
  <2>1. Cardinality(left) \in Nat
    BY SyncAssumption, FS_Subset, FS_CardinalityType
  <2>2. first \in Nat /\ last \in Nat /\ lastId <= first /\ first <= last /\ lastId' = last
    BY <1>1, <1>5, <2>1 DEF EraseAccount
  <2>3. ASSUME NEW i \in Ids, i > last PROVE journal'[i] = journal[i]
    BY <1>1, <1>5, <2>2, <2>3 DEF EraseAccount
  <2> HIDE DEF last, first, left
  <2> QED
    BY <1>1, <2>2, <2>3 DEF Keys, Fresh
<1> QED
  BY <1>2, <1>3, <1>4, <1>5 DEF JournalStep

(* The kind of an intent never changes.                                      *)
LEMMA OpsKept ==
    ASSUME Typed, Keys, JournalStep, NEW i \in Ids, i <= lastId
    PROVE  journal'[i].op = journal[i].op
<1>1. lastId \in Nat /\ journal \in [Ids -> Event] /\ Ids \subseteq Nat
  BY Bounds DEF Typed, TypeOK, OutboxTypeOK, Ids
<1>2. CASE UNCHANGED outboxVars
  BY <1>2 DEF outboxVars
<1>3. CASE RowStep
  BY <1>1, <1>3 DEF RowStep, RowMayBecome
<1>4. CASE EnqueueStep
  BY <1>1, <1>4 DEF EnqueueStep, Enqueue
<1>5. CASE EraseAccount
  <2>1. journal'[i] = Superseded(journal[i])
    BY <1>5 DEF EraseAccount
  <2>2. Superseded(journal[i]).op = journal[i].op
    BY <1>1 DEF Superseded, Released, Event
  <2> QED
    BY <2>1, <2>2
<1> QED
  BY <1>2, <1>3, <1>4, <1>5 DEF JournalStep

(* Every step keeps rows, generations and claims matched. *)
LEMMA KeysStep == Typed /\ Keys /\ [Next]_vars => Keys'
<1> SUFFICES ASSUME Typed, Keys, [Next]_vars PROVE Keys'
  OBVIOUS
<1>1. JournalStep
  BY StepsOfJournal
<1>2. lastId \in Nat /\ lastId' \in Nat /\ journal \in [Ids -> Event] /\ Ids \subseteq Nat
  BY TypedStep, Bounds DEF Typed, TypeOK, OutboxTypeOK, Ids
<1>3. Fresh' /\ lastId <= lastId'
  BY <1>1, FreshStep
<1>4. ErasureIsLast'
  <2> SUFFICES ASSUME NEW i \in Ids, journal'[i].op = "delete_generation"
               PROVE  generation' = "deleted"
    BY DEF ErasureIsLast
  <2>1. CASE journal[i].op = "delete_generation"
    BY <2>1, DeletedIsQuiet DEF Keys, ErasureIsLast
  <2>2. CASE journal[i].op # "delete_generation"
    <3>1. ~UNCHANGED outboxVars
      BY <2>2 DEF outboxVars
    <3>2. ~RowStep
      BY <1>2, <2>2 DEF RowStep, RowMayBecome
    <3>3. ASSUME EnqueueStep PROVE FALSE
      <4>1. PICK op \in PointOps, c \in Chunks : Enqueue(op, c)
        BY <3>3 DEF EnqueueStep
      <4>2. NewEvent(op, c).op = op /\ op # "delete_generation"
        BY DEF NewEvent, PointOps
      <4> QED
        BY <1>2, <2>2, <4>1, <4>2 DEF Enqueue
    <3>4. CASE EraseAccount
      BY <3>4 DEF EraseAccount
    <3> QED
      BY <1>1, <3>1, <3>2, <3>3, <3>4 DEF JournalStep
  <2> QED
    BY <2>1, <2>2
<1>5. ClaimFits'
  <2> SUFFICES ASSUME NEW w \in Workers, worker'[w].phase # "idle"
               PROVE  worker'[w].id <= lastId' /\ journal'[worker'[w].id].op \in ClaimsOf(w)
    BY DEF ClaimFits, ClaimsOf
  <2>1. PICK i \in Ids : worker'[w].id = i /\ i <= lastId /\ journal[i].op \in ClaimsOf(w)
    <3>1. CASE worker[w].phase # "idle" /\ worker'[w].id = worker[w].id
      BY <3>1 DEF Typed, Busy, Keys, ClaimFits
    <3>2. ASSUME NEW i \in Ids, Select(w, i), worker'[w].id = i
          PROVE  i <= lastId /\ journal[i].op \in ClaimsOf(w)
      <4>1. journal[i] # NoEvent
        BY <3>2, NoEventFields DEF Select, Claimable
      <4> QED
        BY <1>2, <3>2, <4>1 DEF Select, Keys, Fresh
    <3> QED
      BY <3>1, <3>2, StepsOfWorkers
  <2>2. journal'[i].op = journal[i].op
    BY <1>1, <2>1, OpsKept
  <2> QED
    BY <1>2, <1>3, <2>1, <2>2
<1> QED
  BY <1>3, <1>4, <1>5 DEF Keys

-----------------------------------------------------------------------------
(* The intent to erase survives.                                             *)

(* What the erasure has read of the generation's target is still so: until it *)
(* ends, it holds the row, and no binding can write it.                      *)
TargetIsRead == txn.target # "unread" => txn.locked /\ (txn.target = "bound" <=> bound)

(* Nothing is read at first. *)
LEMMA ReadInit == Init => TargetIsRead
BY DEF Init, NoTxn, TargetIsRead

(* Neither a binding under way nor any other step changes what was read. *)
LEMMA ReadStep == Typed /\ TargetIsRead /\ [Next]_vars => TargetIsRead'
<1> SUFFICES ASSUME Typed, TargetIsRead, [Next]_vars PROVE TargetIsRead'
  OBVIOUS
<1>1. txn \in Txn
  BY DEF Typed, TypeOK
<1>2. CASE UNCHANGED <<txn, bound>>
  BY <1>2 DEF TargetIsRead
<1>3. CASE Binding
  BY <1>1, <1>3 DEF Binding, BindLock, BindTarget, BindRollsBack, TargetIsRead, Txn
<1>4. CASE Erasing
  <2>1. CASE EraseLock
    BY <1>1, <2>1 DEF EraseLock, TargetIsRead, Txn
  <2>2. CASE EraseRead
    <3>1. /\ txn'.locked /\ bound' = bound
          /\ bound => txn'.target = "bound"
          /\ ~bound => txn'.target = "none"
      BY <1>1, <2>2 DEF EraseRead, Txn
    <3> QED
      BY <3>1 DEF TargetIsRead
  <2>3. CASE EraseRollsBack
    BY <1>1, <2>3 DEF EraseRollsBack, TargetIsRead, Txn
  <2> QED
    BY <1>4, <2>1, <2>2, <2>3 DEF Erasing
<1>5. CASE EraseAccount
  BY <1>5 DEF EraseAccount, NoTxn, TargetIsRead
<1>6. CASE Create \/ FailBuilding \/ Activate \/ Retire
  BY <1>2, <1>6 DEF Create, FailBuilding, Activate, Retire
<1>7. CASE (\E c \in Chunks : PutChunk(c) \/ DeleteChunk(c)) \/ BlockOwner \/ Prepare \/ UNCHANGED vars
  BY <1>2, <1>7 DEF PutChunk, DeleteChunk, BlockOwner, Prepare, PrepareArm, PrepareLands,
     PrepareLost, sqlVars, vars
<1>8. CASE \E w \in Workers : WorkerStep(w)
  BY <1>2, <1>8 DEF WorkerStep, Select, ClaimCas, Reply, PointStep, PointArm,
     PointSupersede, PointStale, PointAck, EraseStep, EraseDefer, EraseArm, EraseAck,
     sqlVars
<1>9. CASE Environment
  BY <1>2, <1>9 DEF Environment, WorkerFails, WorkerDies, LateApply, LateLost,
     GraceElapses, restVars, SetFlags, sqlVars
<1> QED
  BY <1>3, <1>4, <1>5, <1>6, <1>7, <1>8, <1>9 DEF Next, Lifecycle, Mutation

(* No generation is deleted at first. *)
LEMMA IntentInit == Init => ErasureIntentKept
BY SyncAssumption DEF Init, ErasureIntentKept

(* No step deletes a bound generation, or drops its erasure row, without
   the other. *)
LEMMA IntentStep == Typed /\ Keys /\ TargetIsRead /\ ErasureIntentKept /\ [Next]_vars => ErasureIntentKept'
<1> SUFFICES ASSUME Typed, Keys, TargetIsRead, ErasureIntentKept, [Next]_vars,
                    generation' = "deleted", bound'
             PROVE  HasGenerationErasure'
  BY DEF ErasureIntentKept
<1>1. JournalStep
  BY StepsOfJournal
<1>2. lastId \in Nat /\ journal \in [Ids -> Event] /\ Ids \subseteq Nat /\ PointOps = {"upsert", "delete_chunk"}
  BY Bounds DEF Typed, TypeOK, OutboxTypeOK, Ids, PointOps
<1>3. CASE generation = "deleted"
  <2>1. bound
    BY <1>3, DeletedIsQuiet
  <2>2. PICK i \in Ids : /\ journal[i].op = "delete_generation"
                         /\ journal[i].state \in {"pending", "processing", "dead", "delivered"}
    BY <1>3, <2>1 DEF ErasureIntentKept, HasGenerationErasure
  <2>3. i <= lastId
    BY <1>2, <2>2, NoEventFields DEF Keys, Fresh
  <2>4. journal'[i].op = "delete_generation"
    BY <1>1, <2>2, <2>3, OpsKept
  <2>5. journal'[i].state \in {"pending", "processing", "dead", "delivered"}
    <3>1. CASE UNCHANGED outboxVars
      BY <2>2, <3>1 DEF outboxVars
    <3>2. CASE RowStep
      <4>1. PICK j \in Ids, e \in Event : RowMayBecome(j, e) /\ journal' = [journal EXCEPT ![j] = e]
        BY <3>2 DEF RowStep
      <4>2. CASE i # j
        BY <1>2, <2>2, <4>1, <4>2
      <4>3. CASE i = j
        <5>1. journal'[i] = e /\ e.state \in States
          BY <1>2, <4>1, <4>3 DEF Event
        <5>2. e.state # "none" /\ e.state # "superseded"
          BY <1>2, <2>2, <4>1, <4>3 DEF RowMayBecome
        <5> QED
          BY <5>1, <5>2 DEF States
      <4> QED
        BY <4>2, <4>3
    <3>3. CASE EnqueueStep
      BY <1>2, <2>2, <2>3, <3>3 DEF EnqueueStep, Enqueue
    <3>4. ~EraseAccount
      BY <1>3 DEF EraseAccount
    <3> QED
      BY <1>1, <3>1, <3>2, <3>3, <3>4 DEF JournalStep
  <2> QED
    BY <2>4, <2>5 DEF HasGenerationErasure
<1>4. CASE generation # "deleted"
  <2>1. EraseAccount
    BY <1>4 DEF Next, vars, Lifecycle, Create, Binding, BindLock, BindTarget,
       BindRollsBack, Erasing, EraseLock, EraseRead, EraseRollsBack,
       FailBuilding, Activate, Retire, Mutation, PutChunk, DeleteChunk,
       BlockOwner, Prepare, PrepareArm, PrepareLands, PrepareLost, sqlVars,
       Environment, WorkerStep, WorkerFails, WorkerDies, Select, ClaimCas,
       Reply, PointStep, PointArm, PointSupersede, PointStale, PointAck,
       EraseStep, EraseDefer, EraseArm, EraseAck, LateApply, LateLost,
       GraceElapses, restVars, SetFlags
  <2>2. txn.target = "bound"
    BY <2>1 DEF EraseAccount, TargetIsRead
  <2> DEFINE left == {c \in Chunks : HasRow(c)}
             last == lastId + 1 + Cardinality(left)
  <2>3. Cardinality(left) \in Nat
    BY SyncAssumption, FS_Subset, FS_CardinalityType
  <2>4. last <= MaxEvents
    BY <2>1, <2>2 DEF EraseAccount
  <2>5. lastId + 1 \in Ids
    BY <1>2, <2>3, <2>4, Bounds DEF Ids
  <2>6. journal'[lastId + 1] = NewEvent("delete_generation", None)
    BY <1>2, <2>1, <2>2, <2>5 DEF EraseAccount
  <2> QED
    BY <2>5, <2>6 DEF HasGenerationErasure, NewEvent
<1> QED
  BY <1>3, <1>4

(* However the account's erasure, the workers and their failures interleave,  *)
(* a deleted generation that was bound keeps a row that asks for its erasure. *)
THEOREM ErasureIntentIsKept == Spec => []ErasureIntentKept
BY TypedInit, TypedStep, KeysInit, KeysStep, ReadInit, ReadStep, IntentInit, IntentStep,
   PTL DEF Spec

-----------------------------------------------------------------------------
(* An acknowledged erasure is final.                                         *)

(* The grace period has passed only while no preparation is under way, and no *)
(* erasure is sent before it has; a worker that was answered has seen the     *)
(* collection gone.                                                          *)
GraceIsQuiet ==
    \A i \in Ids : /\ journal[i].ready # "unset" => journal[i].op = "delete_generation"
                   /\ journal[i].ready = "passed" => creating = {}
ErasersAreQuiet ==
    \A w \in ErasureWorkers :
        /\ worker[w].phase \in {"armed", "replied"} => creating = {}
        /\ worker[w].phase = "replied" => ~remote.present

Final == GraceIsQuiet /\ ErasersAreQuiet /\ ErasureIsFinal

(* Nothing is erased at first. *)
LEMMA FinalInit == Init => Final
BY NoEventFields DEF Init, OutboxInit, Final, GraceIsQuiet, ErasersAreQuiet,
   ErasureIsFinal, Idle, Workers

(* An eraser is at work only on the erasure of a deleted generation.         *)
LEMMA ErasersFollowDeletion ==
    ASSUME Typed, Keys, NEW w \in ErasureWorkers, worker[w].phase # "idle"
    PROVE  generation = "deleted"
<1>1. worker[w].id \in Ids /\ journal[worker[w].id].op \in ClaimsOf(w)
  BY DEF Typed, Busy, Keys, ClaimFits, Workers
<1>2. ClaimsOf(w) = {"delete_generation"}
  BY OutboxAssumption DEF ClaimsOf
<1> QED
  BY <1>1, <1>2 DEF Keys, ErasureIsLast

(* A grace that has passed stays quiet: no preparer is left to write
   after it. *)
LEMMA GraceStep ==
    ASSUME Typed, Keys, GraceIsQuiet, [Next]_vars
    PROVE  GraceIsQuiet'
<1> SUFFICES ASSUME NEW i \in Ids, journal'[i].ready # "unset"
             PROVE  /\ journal'[i].op = "delete_generation"
                    /\ journal'[i].ready = "passed" => creating' = {}
  BY DEF GraceIsQuiet
<1>1. JournalStep
  BY StepsOfJournal
<1>2. lastId \in Nat /\ journal \in [Ids -> Event] /\ Ids \subseteq Nat
  BY Bounds DEF Typed, TypeOK, OutboxTypeOK, Ids
<1>3. /\ journal[i].op = "delete_generation"
      /\ i <= lastId
      /\ journal'[i].ready = "passed" => creating = {}
  <2>1. journal[i].ready # "unset" => i <= lastId
    BY <1>2, NoEventFields DEF Keys, Fresh
  <2>2. CASE UNCHANGED outboxVars
    BY <2>1, <2>2 DEF outboxVars, GraceIsQuiet
  <2>3. CASE RowStep
    <3>1. PICK j \in Ids, e \in Event : /\ j <= lastId
                                        /\ RowMayBecome(j, e)
                                        /\ journal' = [journal EXCEPT ![j] = e]
      BY <2>3 DEF RowStep
    <3>2. CASE i # j
      BY <1>2, <2>1, <3>1, <3>2 DEF GraceIsQuiet
    <3>3. CASE i = j
      <4>1. journal'[i] = e /\ e.ready \in {"waiting", "passed"}
        BY <1>2, <3>1, <3>3 DEF Event
      <4> QED
        BY <3>1, <3>3, <4>1 DEF RowMayBecome, GraceIsQuiet
    <3> QED
      BY <3>2, <3>3
  <2>4. CASE EnqueueStep
    <3>1. PICK op \in PointOps, c \in Chunks : Enqueue(op, c)
      BY <2>4 DEF EnqueueStep
    <3>2. NewEvent(op, c).ready = "unset"
      BY DEF NewEvent
    <3> QED
      BY <1>2, <2>1, <3>1, <3>2 DEF Enqueue, GraceIsQuiet
  <2>5. CASE EraseAccount
    <3>1. \A op, c : NewEvent(op, c).ready = "unset"
      BY DEF NewEvent
    <3>2. \A e \in Event : Superseded(e).ready = e.ready
      BY DEF Superseded, Released, Event
    <3>3. journal[i].ready # "unset"
      BY <1>2, <2>5, <3>1, <3>2 DEF EraseAccount
    <3>4. generation = "deleted"
      BY <3>3 DEF GraceIsQuiet, Keys, ErasureIsLast
    <3> QED
      BY <2>5, <3>4 DEF EraseAccount
  <2> QED
    BY <1>1, <2>2, <2>3, <2>4, <2>5 DEF JournalStep
<1>4. generation = "deleted"
  BY <1>3 DEF Keys, ErasureIsLast
<1>5. creating' \subseteq creating
  BY <1>4, DeletedIsQuiet
<1> QED
  BY <1>1, <1>3, <1>5, OpsKept

(* A worker that is about to erase keeps finding no preparer in its way. *)
LEMMA EraserStep ==
    ASSUME Typed, Keys, Final, [Next]_vars
    PROVE  ErasersAreQuiet'
<1> SUFFICES ASSUME NEW w \in ErasureWorkers, worker'[w].phase \in {"armed", "replied"}
             PROVE  /\ creating' = {}
                    /\ worker'[w].phase = "replied" => ~remote'.present
  BY DEF ErasersAreQuiet
<1>1. w \in Workers /\ w \notin PointWorkers /\ worker \in [Workers -> Local]
  BY OutboxAssumption DEF Workers, Typed, TypeOK
<1>2. CASE worker'[w] = worker[w]
  <2>1. creating = {} /\ (worker[w].phase = "replied" => ~remote.present)
    BY <1>2 DEF Final, ErasersAreQuiet
  <2>2. generation = "deleted"
    BY <1>2, ErasersFollowDeletion
  <2> QED
    BY <1>2, <2>1, <2>2, DeletedIsQuiet
<1>3. CASE EraseArm(w)
  <2>1. generation = "deleted" /\ worker[w].id \in Ids
    BY <1>3, <1>1, ErasersFollowDeletion DEF EraseArm, Typed, Busy
  <2>2. creating = {}
    BY <1>3, <2>1 DEF EraseArm, Final, GraceIsQuiet
  <2>3. worker'[w].phase = "armed"
    BY <1>1, <1>3 DEF EraseArm, Become, Local
  <2> QED
    BY <2>1, <2>2, <2>3, DeletedIsQuiet
<1>4. CASE Reply(w)
  <2>1. generation = "deleted" /\ worker[w].id \in Ids /\ journal[worker[w].id].op \in ClaimsOf(w)
    BY <1>1, <1>4, ErasersFollowDeletion DEF Reply, Typed, Busy, Keys, ClaimFits
  <2>2. journal[worker[w].id].op = "delete_generation"
    BY <1>1, <2>1 DEF ClaimsOf
  <2>3. ~remote'.present
    BY <1>4, <2>2 DEF Reply, Apply
  <2>4. creating = {}
    BY <1>4 DEF Reply, Final, ErasersAreQuiet
  <2> QED
    BY <2>1, <2>3, <2>4, DeletedIsQuiet
<1>5. ASSUME worker'[w] # worker[w], ~EraseArm(w), ~Reply(w)
      PROVE  FALSE
  <2>1. PICK v \in Workers : WorkerStep(v) \/ WorkerFails(v) \/ WorkerDies(v)
    BY <1>5 DEF Next, vars, Lifecycle, Create, Binding, BindLock, BindTarget,
       BindRollsBack, Erasing, EraseLock, EraseRead, EraseRollsBack,
       FailBuilding, Activate, Retire, Mutation, PutChunk, DeleteChunk,
       BlockOwner, EraseAccount, Prepare, PrepareArm, PrepareLands, PrepareLost,
       Environment, LateApply, LateLost, GraceElapses, restVars, SetFlags
  <2>2. v = w
    BY <1>1, <1>5, <2>1 DEF WorkerStep, WorkerFails, WorkerDies, Select, ClaimCas,
       Reply, PointStep, PointArm, PointSupersede, PointStale, PointAck, EraseStep,
       EraseDefer, EraseArm, EraseAck, Become, GoIdle
  <2>3. GoIdle(w) => worker'[w].phase = "idle"
    BY <1>1 DEF GoIdle, Idle
  <2>4. CASE \E i \in Ids : Select(w, i)
    <3>1. PICK i \in Ids : Select(w, i)
      BY <2>4
    <3>2. worker'[w].phase = "selected"
      BY <1>1, <3>1 DEF Select
    <3> QED
      BY <3>2
  <2>5. CASE ClaimCas(w)
    <3>1. GoIdle(w) \/ worker'[w].phase = "claimed"
      BY <1>1, <2>5 DEF ClaimCas
    <3> QED
      BY <2>3, <3>1
  <2> QED
    BY <1>1, <1>5, <2>1, <2>2, <2>3, <2>4, <2>5 DEF WorkerStep, WorkerFails, WorkerDies,
       PointStep, PointArm, PointSupersede, PointStale, PointAck, EraseStep, EraseDefer,
       EraseAck
<1> QED
  BY <1>2, <1>3, <1>4, <1>5

(* Every step keeps an erased target erased. *)
LEMMA FinalStep ==
    ASSUME Typed, Keys, Final, [Next]_vars
    PROVE  ErasureIsFinal'
<1> SUFFICES ASSUME NEW i \in Ids,
                    journal'[i].op = "delete_generation", journal'[i].state = "delivered"
             PROVE  ~remote'.present /\ creating' = {}
  BY DEF ErasureIsFinal
<1>1. JournalStep
  BY StepsOfJournal
<1>2. lastId \in Nat /\ journal \in [Ids -> Event] /\ Ids \subseteq Nat
  BY Bounds DEF Typed, TypeOK, OutboxTypeOK, Ids
<1>3. generation = "deleted" /\ ~remote.present /\ creating = {}
  <2>1. CASE UNCHANGED outboxVars
    BY <2>1 DEF outboxVars, Final, ErasureIsFinal, Keys, ErasureIsLast
  <2>2. CASE RowStep
    <3>1. PICK j \in Ids, e \in Event : RowMayBecome(j, e) /\ journal' = [journal EXCEPT ![j] = e]
      BY <2>2 DEF RowStep
    <3>2. CASE i # j
      BY <1>2, <3>1, <3>2 DEF Final, ErasureIsFinal, Keys, ErasureIsLast
    <3>3. CASE i = j
      <4>1. journal[i].op = "delete_generation" /\ e.state = "delivered"
        BY <1>2, <3>1, <3>3 DEF RowMayBecome
      <4>2. \/ journal[i].state = "delivered"
            \/ \E w \in ErasureWorkers : worker[w].phase = "replied"
        BY <3>1, <3>3, <4>1 DEF RowMayBecome, PointOps
      <4> QED
        BY <4>1, <4>2 DEF Final, ErasureIsFinal, ErasersAreQuiet, Keys, ErasureIsLast
    <3> QED
      BY <3>2, <3>3
  <2>3. CASE EnqueueStep
    <3>1. PICK op \in PointOps, c \in Chunks : Enqueue(op, c)
      BY <2>3 DEF EnqueueStep
    <3>2. NewEvent(op, c).state = "pending"
      BY DEF NewEvent
    <3> QED
      BY <1>2, <3>1, <3>2 DEF Enqueue, Final, ErasureIsFinal, Keys, ErasureIsLast
  <2>4. CASE EraseAccount
    <3>1. \A op, c : NewEvent(op, c).state = "pending"
      BY DEF NewEvent
    <3>2. \A e \in Event : /\ Superseded(e).state \in {e.state, "superseded"}
                           /\ Superseded(e).op = e.op
      BY DEF Superseded, Released, Event
    <3>3. journal[i].state = "delivered" /\ journal[i].op = "delete_generation"
      BY <1>2, <2>4, <3>1, <3>2 DEF EraseAccount
    <3> QED
      BY <3>3 DEF Final, ErasureIsFinal, Keys, ErasureIsLast
  <2> QED
    BY <1>1, <2>1, <2>2, <2>3, <2>4 DEF JournalStep
<1> QED
  BY <1>3, DeletedIsQuiet

(* Once the store's deletion of the collection has been acknowledged, the     *)
(* collection is gone and no preparation can bring it back: for any number of *)
(* workers and preparers, late requests, expired leases and crashes.         *)
THEOREM ErasureStaysFinal == Spec => []ErasureIsFinal
<1>1. Typed /\ Keys /\ Final /\ [Next]_vars => Final'
  BY GraceStep, EraserStep, FinalStep DEF Final
<1>2. Spec => []Final
  BY <1>1, TypedInit, TypedStep, KeysInit, KeysStep, FinalInit, PTL DEF Spec
<1> QED
  BY <1>2, PTL DEF Final

-----------------------------------------------------------------------------
(* The points in the store. *)

(* What a worker that is past its SELECT remembers, and what waits.          *)
ClaimsRemember == \A w \in Workers :
    /\ worker[w].phase = "selected" => worker[w].seen.state \in {"pending", "processing"}
    /\ worker[w].phase \in {"claimed", "armed", "replied"} => worker[w].seen = NothingSeen
WaitingIsPending == \A i \in Ids : journal[i].ready = "waiting" => journal[i].state = "pending"

(* A row starts to wait as a pending one.                                    *)
WaitsPending(i) ==
    journal'[i].ready = "waiting" => journal[i].ready = "waiting" \/ journal'[i].state = "pending"

(* A worker writes the row it holds, or claims the row it selected.          *)
HolderWrites(i) ==
    \E w \in Workers : /\ worker[w].id = i
                       /\ worker[w].phase \in {"claimed", "armed", "replied"}
                       /\ HoldsToken(journal[i], w)
                       /\ journal'[i].state = "delivered" => worker[w].phase = "replied"
                       /\ WaitsPending(i)

ClaimWrites(i) ==
    \E w \in Workers : /\ worker[w].id = i
                       /\ worker[w].phase = "selected"
                       /\ CasHolds(journal[i], worker[w].seen)
                       /\ journal'[i].state # "delivered"
                       /\ WaitsPending(i)

(* Who changes a row that the sequence has reached, and from which states.   *)
RowWritten(i) ==
    \/ HolderWrites(i)
    \/ ClaimWrites(i)
    \/ EraseAccount
    \/ /\ journal[i].state \in {"processing", "dead"}
       /\ journal'[i].state # "delivered"
       /\ WaitsPending(i)
    \/ GraceElapses(i)

(* A worker writes its own row only, and with its token or its claim.        *)
LEMMA WorkerWrites ==
    ASSUME Typed, Keys, NEW w \in Workers, WorkerStep(w) \/ WorkerFails(w) \/ WorkerDies(w),
           NEW i \in Ids, journal'[i] # journal[i]
    PROVE  HolderWrites(i) \/ ClaimWrites(i)
<1> DEFINE k == worker[w].id
<1>1. journal \in [Ids -> Event]
  BY DEF Typed, TypeOK, OutboxTypeOK
<1>2. ASSUME NEW e, journal' = [journal EXCEPT ![k] = e]
      PROVE  i = k /\ journal'[i] = e
  BY <1>1, <1>2
<1>3. CASE (\E j \in Ids : Select(w, j)) \/ Reply(w) \/ PointArm(w) \/ PointStale(w) \/ EraseArm(w) \/ WorkerDies(w)
  BY <1>3 DEF Select, Reply, PointArm, PointStale, EraseArm, WorkerDies, outboxVars
<1>4. CASE ClaimCas(w)
  <2>1. CasHolds(journal[k], worker[w].seen)
    BY <1>4 DEF ClaimCas
  <2>2. i = k /\ journal'[i] \in {Claimed(journal[k], w), Released(journal[k], "dead")}
    BY <1>2, <1>4 DEF ClaimCas
  <2>3. journal'[i].state # "delivered" /\ WaitsPending(i)
    BY <1>1, <2>2, EventFields DEF States, WaitsPending
  <2> QED
    BY <1>4, <2>1, <2>2, <2>3 DEF ClaimCas, ClaimWrites
<1>5. CASE PointSupersede(w)
  <2>1. i = k /\ journal'[i] = Superseded(journal[i])
    BY <1>2, <1>5 DEF PointSupersede
  <2>2. HoldsToken(journal[i], w) /\ worker[w].phase = "claimed"
    BY <1>5, <2>1 DEF PointSupersede, Stale, OwnsLease
  <2>3. journal'[i].state # "delivered" /\ WaitsPending(i)
    BY <1>1, <2>1, <2>2, EventFields DEF HoldsToken, WaitsPending
  <2> QED
    BY <2>1, <2>2, <2>3 DEF HolderWrites
<1>6. CASE PointAck(w)
  <2>1. ~Stale(w)
    BY <1>6 DEF PointAck
  <2>2. i = k /\ journal'[i] = Completed(journal[i])
    BY <1>2, <1>6, <2>1 DEF PointAck
  <2>3. WaitsPending(i)
    BY <1>1, <2>2, EventFields DEF WaitsPending
  <2> QED
    BY <1>6, <2>1, <2>2, <2>3 DEF PointAck, Stale, OwnsLease, HolderWrites
<1>7. CASE EraseDefer(w)
  <2>1. ~Stale(w)
    BY <1>7 DEF EraseDefer
  <2>2. i = k /\ journal'[i] = Deferred(journal[i])
    BY <1>2, <1>7, <2>1 DEF EraseDefer
  <2>3. journal'[i].state # "delivered" /\ WaitsPending(i)
    BY <1>1, <2>2, EventFields DEF WaitsPending
  <2> QED
    BY <1>7, <2>1, <2>2, <2>3 DEF EraseDefer, Stale, OwnsLease, HolderWrites
<1>8. CASE EraseAck(w)
  <2>1. HoldsToken(journal[k], w)
    BY <1>8 DEF EraseAck
  <2>2. i = k /\ journal'[i] = Completed(journal[i])
    BY <1>2, <1>8, <2>1 DEF EraseAck
  <2>3. WaitsPending(i)
    BY <1>1, <2>2, EventFields DEF WaitsPending
  <2> QED
    BY <1>8, <2>1, <2>2, <2>3 DEF EraseAck, HolderWrites
<1>9. CASE WorkerFails(w)
  <2>1. HoldsToken(journal[k], w)
    BY <1>9 DEF WorkerFails
  <2>2. i = k /\ journal'[i] = Failed(journal[k], w \in ErasureWorkers /\ ~Retired)
    BY <1>2, <1>9, <2>1 DEF WorkerFails
  <2>a. (w \in ErasureWorkers /\ ~Retired) \in BOOLEAN
    OBVIOUS
  <2>b. journal'[i].state \in {"dead", "pending"} /\ journal'[i].ready = journal[i].ready
    <3>1. \A b \in BOOLEAN : /\ Failed(journal[i], b).ready = journal[i].ready
                            /\ Failed(journal[i], b).state \in {"dead", "pending"}
      BY <1>1, EventFields
    <3> QED
      BY <2>2, <2>a, <3>1
  <2>3. journal'[i].state # "delivered" /\ WaitsPending(i)
    BY <2>b DEF WaitsPending
  <2> QED
    BY <1>9, <2>1, <2>2, <2>3 DEF WorkerFails, HolderWrites
<1> QED
  BY <1>3, <1>4, <1>5, <1>6, <1>7, <1>8, <1>9 DEF WorkerStep, PointStep, EraseStep

(* The same for every step.                                                  *)
LEMMA RowsAreWritten ==
    ASSUME Typed, Keys, [Next]_vars, NEW i \in Ids, i <= lastId, journal'[i] # journal[i]
    PROVE  RowWritten(i)
<1>1. lastId \in Nat /\ journal \in [Ids -> Event] /\ Ids \subseteq Nat
  BY Bounds DEF Typed, TypeOK, OutboxTypeOK, Ids
<1>2. ~(Lifecycle \/ Prepare \/ SetFlags \/ BlockOwner \/ UNCHANGED vars)
  BY DEF Lifecycle, Create, Binding, BindLock, BindTarget, BindRollsBack,
     Erasing, EraseLock, EraseRead, EraseRollsBack, FailBuilding, Activate,
     Retire, Prepare, PrepareArm, PrepareLands, PrepareLost, SetFlags,
     BlockOwner, vars, outboxVars
<1>3. ASSUME NEW c \in Chunks, PutChunk(c) \/ DeleteChunk(c) PROVE FALSE
  BY <1>1, <1>3 DEF PutChunk, DeleteChunk, Enqueue
<1>4. ASSUME NEW w \in Workers, WorkerStep(w) \/ WorkerFails(w) \/ WorkerDies(w) PROVE RowWritten(i)
  BY <1>4, WorkerWrites DEF RowWritten
<1>5. ASSUME NEW j \in Ids, LateApply(j) \/ LateLost(j) PROVE FALSE
  BY <1>5 DEF LateApply, LateLost, outboxVars
<1>6. ASSUME NEW j \in Ids, LeaseExpires(j) PROVE RowWritten(i)
  <2>1. i = j /\ journal'[i].state = journal[i].state /\ journal'[i].ready = journal[i].ready
    BY <1>1, <1>6 DEF LeaseExpires, Event
  <2> QED
    BY <1>6, <2>1 DEF LeaseExpires, RowWritten, WaitsPending
<1>7. ASSUME NEW j \in Ids, RetryDead(j) PROVE RowWritten(i)
  <2>1. i = j /\ journal'[i] = Retried(journal[i])
    BY <1>1, <1>7 DEF RetryDead
  <2>2. Retried(journal[i]).state = "pending"
    BY <1>1 DEF Retried, Event
  <2> QED
    BY <1>7, <2>1, <2>2 DEF RetryDead, RowWritten, WaitsPending
<1>8. ASSUME NEW j \in Ids, GraceElapses(j) PROVE RowWritten(i)
  <2>1. i = j
    BY <1>1, <1>8 DEF GraceElapses
  <2> QED
    BY <1>8, <2>1 DEF RowWritten
<1>9. CASE EraseAccount
  BY <1>9 DEF RowWritten
<1> QED
  BY <1>2, <1>3, <1>4, <1>5, <1>6, <1>7, <1>8, <1>9 DEF Next, Mutation, Environment

-----------------------------------------------------------------------------
(* Who acknowledges, and what is settled.                                    *)

Held == ClaimsRemember /\ WaitingIsPending

(* Nobody has claimed anything at first. *)
LEMMA HeldInit == Init => Held
BY NoEventFields DEF Init, OutboxInit, Held, ClaimsRemember, WaitingIsPending, Idle

(* A worker remembers its SELECT until the claim, and nothing after it.      *)
LEMMA RememberStep ==
    ASSUME Typed, Keys, ClaimsRemember, [Next]_vars
    PROVE  ClaimsRemember'
<1> SUFFICES ASSUME NEW w \in Workers
             PROVE  /\ worker'[w].phase = "selected" => worker'[w].seen.state \in {"pending", "processing"}
                    /\ worker'[w].phase \in {"claimed", "armed", "replied"} => worker'[w].seen = NothingSeen
  BY DEF ClaimsRemember
<1>1. worker \in [Workers -> Local]
  BY DEF Typed, TypeOK
<1>2. CASE worker'[w] = worker[w]
  BY <1>2 DEF ClaimsRemember
<1>3. CASE worker'[w] # worker[w]
  <2>1. PICK v \in Workers : WorkerStep(v) \/ WorkerFails(v) \/ WorkerDies(v)
    BY <1>3 DEF Next, vars, Lifecycle, Create, Binding, BindLock, BindTarget,
       BindRollsBack, Erasing, EraseLock, EraseRead, EraseRollsBack,
       FailBuilding, Activate, Retire, Mutation, PutChunk, DeleteChunk,
       BlockOwner, EraseAccount, Prepare, PrepareArm, PrepareLands, PrepareLost,
       Environment, LateApply, LateLost, GraceElapses, restVars, SetFlags
  <2>2. v = w
    BY <1>1, <1>3, <2>1 DEF WorkerStep, WorkerFails, WorkerDies, Select, ClaimCas,
       Reply, PointStep, PointArm, PointSupersede, PointStale, PointAck, EraseStep,
       EraseDefer, EraseArm, EraseAck, Become, GoIdle
  <2>3. GoIdle(w) => worker'[w].phase = "idle"
    BY <1>1 DEF GoIdle, Idle
  <2>4. CASE \E i \in Ids : Select(w, i)
    <3>1. PICK i \in Ids : Select(w, i)
      BY <2>4
    <3>2. worker'[w] = [phase |-> "selected", id |-> i, seen |-> CasKey(journal[i])]
      BY <1>1, <3>1 DEF Select
    <3>3. journal[i].state \in {"pending", "processing"}
      BY <3>1 DEF Select, Claimable
    <3> QED
      BY <3>2, <3>3 DEF CasKey
  <2>5. CASE ClaimCas(w)
    <3>1. GoIdle(w) \/ worker'[w] = [phase |-> "claimed", id |-> worker[w].id, seen |-> NothingSeen]
      BY <1>1, <2>5 DEF ClaimCas
    <3> QED
      BY <2>3, <3>1
  <2>6. CASE Reply(w) \/ PointArm(w) \/ EraseArm(w)
    <3>1. worker'[w].seen = worker[w].seen /\ worker'[w].phase \in {"armed", "replied"}
      BY <1>1, <2>6 DEF Reply, PointArm, EraseArm, Become, Local
    <3>2. worker[w].phase \in {"claimed", "armed"}
      BY <2>6 DEF Reply, PointArm, EraseArm
    <3> QED
      BY <3>1, <3>2 DEF ClaimsRemember
  <2> QED
    BY <2>1, <2>2, <2>3, <2>4, <2>5, <2>6 DEF WorkerStep, WorkerFails, WorkerDies,
       PointStep, PointSupersede, PointStale, PointAck, EraseStep, EraseDefer, EraseAck
<1> QED
  BY <1>2, <1>3

(* A row beyond the sequence is written by nobody but the mutations, as a    *)
(* pending one.                                                              *)
LEMMA NewRows ==
    ASSUME Typed, Keys, [Next]_vars, NEW i \in Ids, i > lastId
    PROVE  /\ journal[i] = NoEvent
           /\ journal'[i].ready = "unset"
           /\ journal'[i].state \in {"none", "pending"}
<1>1. lastId \in Nat /\ journal \in [Ids -> Event] /\ Ids \subseteq Nat
  BY Bounds DEF Typed, TypeOK, OutboxTypeOK, Ids
<1>2. journal[i] = NoEvent
  BY DEF Keys, Fresh
<1>3. \A op, c : NewEvent(op, c).ready = "unset" /\ NewEvent(op, c).state = "pending"
  BY DEF NewEvent
<1>4. JournalStep
  BY StepsOfJournal
<1>5. CASE UNCHANGED outboxVars \/ RowStep
  <2>1. journal'[i] = journal[i]
    BY <1>1, <1>5 DEF outboxVars, RowStep
  <2> QED
    BY <1>2, <2>1, NoEventFields
<1>6. CASE EnqueueStep
  <2>1. journal'[i] = journal[i] \/ \E op, c : journal'[i] = NewEvent(op, c)
    BY <1>1, <1>6 DEF EnqueueStep, Enqueue
  <2> QED
    BY <1>2, <1>3, <2>1, NoEventFields
<1>7. CASE EraseAccount
  <2>1. journal'[i] = journal[i] \/ \E op, c : journal'[i] = NewEvent(op, c)
    <3> DEFINE left  == {c \in Chunks : HasRow(c)}
               first == IF txn.target = "bound" THEN lastId + 1 ELSE lastId
               last  == first + Cardinality(left)
    <3>1. PICK order \in [(first + 1)..last -> left] :
              journal' = [k \in Ids |->
                     IF k <= lastId THEN Superseded(journal[k])
                     ELSE IF k <= first THEN NewEvent("delete_generation", None)
                     ELSE IF k <= last THEN NewEvent("delete_chunk", order[k])
                     ELSE journal[k]]
      BY <1>7 DEF EraseAccount
    <3> HIDE DEF left, first, last
    <3> QED
      BY <1>1, <3>1
  <2> QED
    BY <1>2, <1>3, <2>1, NoEventFields
<1> QED
  BY <1>2, <1>4, <1>5, <1>6, <1>7 DEF JournalStep

(* A row that waits for its grace period keeps waiting until it elapses.     *)
LEMMA WaitStep ==
    ASSUME Typed, Keys, Final, Held, [Next]_vars
    PROVE  WaitingIsPending'
<1> SUFFICES ASSUME NEW i \in Ids, journal'[i].ready = "waiting"
             PROVE  journal'[i].state = "pending"
  BY DEF WaitingIsPending
<1>1. lastId \in Nat /\ journal \in [Ids -> Event] /\ Ids \subseteq Nat
  BY Bounds DEF Typed, TypeOK, OutboxTypeOK, Ids
<1>2. i <= lastId
  BY <1>1, NewRows
<1>3. CASE journal'[i] = journal[i]
  BY <1>3 DEF Held, WaitingIsPending
<1>4. CASE journal'[i] # journal[i]
  <2>1. RowWritten(i)
    BY <1>2, <1>4, RowsAreWritten
  <2>2. ~GraceElapses(i)
    BY <1>1 DEF GraceElapses, Event
  <2>3. ~EraseAccount
    <3>1. ASSUME EraseAccount PROVE journal'[i] = Superseded(journal[i])
      BY <1>2, <3>1 DEF EraseAccount
    <3>2. ASSUME EraseAccount PROVE journal[i].ready = "waiting"
      <4>1. Superseded(journal[i]).ready = journal[i].ready
        BY <1>1 DEF Superseded, Released, Event
      <4> QED
        BY <3>1, <3>2, <4>1
    <3>3. ASSUME EraseAccount PROVE generation = "deleted"
      BY <3>2, <3>3 DEF Final, GraceIsQuiet, Keys, ErasureIsLast
    <3> QED
      BY <3>3 DEF EraseAccount
  <2>4. CASE journal[i].ready = "waiting"
    <3>1. journal[i].state = "pending"
      BY <2>4 DEF Held, WaitingIsPending
    <3> QED
      BY <2>1, <2>2, <2>3, <2>4, <3>1
         DEF RowWritten, HolderWrites, ClaimWrites, HoldsToken, CasHolds, Claimable
  <2>5. CASE journal[i].ready # "waiting"
    BY <2>1, <2>2, <2>3, <2>5 DEF RowWritten, HolderWrites, ClaimWrites, WaitsPending
  <2> QED
    BY <2>4, <2>5
<1> QED
  BY <1>3, <1>4

(* What workers hold stays held. *)
LEMMA HeldStep == Typed /\ Keys /\ Final /\ Held /\ [Next]_vars => Held'
BY RememberStep, WaitStep DEF Held

(* The erasure's invariant again, as a step of its own. *)
LEMMA FinalKept == Typed /\ Keys /\ Final /\ [Next]_vars => Final'
BY GraceStep, EraserStep, FinalStep DEF Final

(* A settled row is written by nobody. *)
LEMMA SettledStep ==
    ASSUME Typed, Keys, Held, [Next]_vars, NEW i \in Ids,
           journal[i].state \in {"delivered", "superseded"}
    PROVE  journal'[i] = journal[i]
<1> SUFFICES ASSUME journal'[i] # journal[i]
             PROVE  FALSE
  OBVIOUS
<1>1. lastId \in Nat /\ journal \in [Ids -> Event] /\ Ids \subseteq Nat
  BY Bounds DEF Typed, TypeOK, OutboxTypeOK, Ids
<1>2. i <= lastId
  BY <1>1, NoEventFields DEF Keys, Fresh
<1>3. RowWritten(i)
  BY <1>2, RowsAreWritten
<1>4. ~EraseAccount
  <2>1. ASSUME EraseAccount PROVE journal'[i] = Superseded(journal[i])
    BY <1>2, <2>1 DEF EraseAccount
  <2> QED
    BY <2>1 DEF Superseded
<1>5. ~GraceElapses(i)
  BY DEF GraceElapses, Held, WaitingIsPending
<1> QED
  BY <1>3, <1>4, <1>5 DEF RowWritten, HolderWrites, ClaimWrites, HoldsToken, CasHolds,
     Claimable

(* However late a worker wakes up, and whatever an administrator requeues, a  *)
(* row that was acknowledged or superseded is never written again.           *)
THEOREM SettledStaysFinal == Spec => SettledIsFinal
<1>1. Typed /\ Keys /\ Held /\ [Next]_vars
          => [\A i \in Ids : journal[i].state \in {"delivered", "superseded"}
                  => journal'[i] = journal[i]]_vars
  BY SettledStep
<1> QED
  BY <1>1, TypedInit, TypedStep, KeysInit, KeysStep, FinalInit, FinalKept, HeldInit,
     HeldStep, PTL DEF Spec, SettledIsFinal

(* Who acknowledges a row.                                                   *)
LEMMA AckStep ==
    ASSUME Typed, Keys, Held, [Next]_vars, NEW i \in Ids,
           journal[i].state # "delivered", journal'[i].state = "delivered"
    PROVE  \E w \in Workers : /\ journal[i].token = w
                              /\ worker[w] = [phase |-> "replied", id |-> i, seen |-> NothingSeen]
<1>1. lastId \in Nat /\ journal \in [Ids -> Event] /\ Ids \subseteq Nat /\ worker \in [Workers -> Local]
  BY Bounds DEF Typed, TypeOK, OutboxTypeOK, Ids
<1>2. i <= lastId
  BY <1>1, NewRows
<1>3. RowWritten(i)
  BY <1>2, RowsAreWritten
<1>4. ~EraseAccount
  <2>1. ASSUME EraseAccount PROVE journal'[i] = Superseded(journal[i])
    BY <1>2, <2>1 DEF EraseAccount
  <2>2. Superseded(journal[i]).state \in {journal[i].state, "superseded"}
    BY <1>1 DEF Superseded, Released, Event
  <2> QED
    BY <2>1, <2>2
<1>5. ~GraceElapses(i)
  BY <1>1 DEF GraceElapses, Event
<1>6. HolderWrites(i)
  BY <1>3, <1>4, <1>5 DEF RowWritten, ClaimWrites
<1>7. PICK w \in Workers : worker[w].id = i /\ worker[w].phase = "replied" /\ HoldsToken(journal[i], w)
  BY <1>6 DEF HolderWrites
<1>8. worker[w] = [phase |-> "replied", id |-> i, seen |-> NothingSeen]
  BY <1>1, <1>7 DEF Held, ClaimsRemember, Local
<1> QED
  BY <1>7, <1>8 DEF HoldsToken

(* A row is acknowledged by the worker whose token it carries, after the     *)
(* store has answered that worker: never by one whose claim was taken over.  *)
THEOREM OnlyHolderAcks == Spec => OnlyAnsweredHolderAcks
<1>1. Typed /\ Keys /\ Held /\ [Next]_vars
          => [\A i \in Ids : journal[i].state # "delivered" /\ journal'[i].state = "delivered"
                  => \E w \in Workers :
                        /\ journal[i].token = w
                        /\ worker[w] = [phase |-> "replied", id |-> i, seen |-> NothingSeen]]_vars
  BY AckStep
<1> QED
  BY <1>1, TypedInit, TypedStep, KeysInit, KeysStep, FinalInit, FinalKept, HeldInit,
     HeldStep, PTL DEF Spec, OnlyAnsweredHolderAcks

-----------------------------------------------------------------------------
(* What the journal says of the chunks.                                      *)

(* A point intent names a chunk.  A chunk with a withdrawal in the journal is *)
(* gone, so no upload comes after the withdrawal, and a chunk's row carries   *)
(* the number of its last upload.                                            *)
ChunksFit == \A i \in Ids : i <= lastId /\ journal[i].op \in PointOps => journal[i].chunk \in Chunks
WithdrawnIsGone ==
    \A i \in Ids : i <= lastId /\ journal[i].op = "delete_chunk" => rows[journal[i].chunk].state = "gone"
UploadsFollow ==
    \A i \in Ids : i <= lastId /\ journal[i].op = "upsert" => i <= rows[journal[i].chunk].revision
WithdrawalsFollow ==
    \A i, j \in Ids : /\ i <= lastId /\ j <= lastId
                      /\ journal[i].op = "upsert" /\ journal[j].op = "delete_chunk"
                      /\ journal[i].chunk = journal[j].chunk
                      => i < j
RowsDie == generation = "deleted" => \A c \in Chunks : ~HasRow(c)

History == ChunksFit /\ WithdrawnIsGone /\ UploadsFollow /\ WithdrawalsFollow /\ RowsDie

(* Nothing has happened at first. *)
LEMMA HistoryInit == Init => History
<1> SUFFICES ASSUME Init PROVE History
  OBVIOUS
<1>1. lastId = 0 /\ \A i \in Ids : ~(i <= lastId)
  BY DEF Init, OutboxInit, Ids
<1>2. generation # "deleted"
  BY DEF Init
<1> QED
  BY <1>1, <1>2 DEF History, ChunksFit, WithdrawnIsGone, UploadsFollow,
     WithdrawalsFollow, RowsDie

(* The chunk of an intent stays what it was.                                 *)
LEMMA ChunkFields ==
    ASSUME NEW e \in Event, NEW w \in Workers
    PROVE  /\ \A s : Released(e, s).chunk = e.chunk
           /\ Claimed(e, w).chunk = e.chunk
           /\ Completed(e).chunk = e.chunk
           /\ \A b : Failed(e, b).chunk = e.chunk
           /\ Superseded(e).chunk = e.chunk
           /\ Deferred(e).chunk = e.chunk
           /\ Retried(e).chunk = e.chunk
<1>1. \A s : Released(e, s).chunk = e.chunk
  BY DEF Event, Released
<1>2. Claimed(e, w).chunk = e.chunk /\ Retried(e).chunk = e.chunk
  BY DEF Event, Claimed, Retried
<1>3. Completed(e).chunk = e.chunk /\ Superseded(e).chunk = e.chunk
  BY <1>1 DEF Completed, Superseded
<1>a. ASSUME NEW b PROVE Failed(e, b).chunk = e.chunk
  BY <1>1 DEF Failed
<1>4. Deferred(e).chunk = e.chunk
  BY DEF Deferred, Released, Event
<1> QED
  BY <1>1, <1>2, <1>3, <1>4, <1>a

(* No step changes what an intent is about.                                  *)
LEMMA AboutKept ==
    ASSUME Typed, Keys, [Next]_vars, NEW i \in Ids, i <= lastId
    PROVE  journal'[i].op = journal[i].op /\ journal'[i].chunk = journal[i].chunk
<1>1. lastId \in Nat /\ journal \in [Ids -> Event] /\ Ids \subseteq Nat
  BY Bounds DEF Typed, TypeOK, OutboxTypeOK, Ids
<1>2. journal'[i].op = journal[i].op
  BY StepsOfJournal, OpsKept
<1>3. CASE journal'[i] = journal[i]
  BY <1>3
<1>4. CASE Lifecycle \/ Prepare \/ SetFlags \/ BlockOwner \/ UNCHANGED vars
  BY <1>4 DEF Lifecycle, Create, Binding, BindLock, BindTarget, BindRollsBack,
     Erasing, EraseLock, EraseRead, EraseRollsBack, FailBuilding, Activate,
     Retire, Prepare, PrepareArm, PrepareLands, PrepareLost, SetFlags,
     BlockOwner, vars, outboxVars
<1>5. ASSUME NEW c \in Chunks, PutChunk(c) \/ DeleteChunk(c) PROVE journal'[i] = journal[i]
  BY <1>1, <1>5 DEF PutChunk, DeleteChunk, Enqueue
<1>6. CASE EraseAccount
  <2>1. journal'[i] = Superseded(journal[i])
    BY <1>6 DEF EraseAccount
  <2>2. Superseded(journal[i]).chunk = journal[i].chunk
    BY <1>1 DEF Superseded, Released, Event
  <2> QED
    BY <1>2, <2>1, <2>2
<1>7. ASSUME NEW w \in Workers, WorkerStep(w) \/ WorkerFails(w) \/ WorkerDies(w)
      PROVE  journal'[i].chunk = journal[i].chunk
  <2> DEFINE k == worker[w].id
  <2>1. SUFFICES ASSUME journal'[i] # journal[i]
                 PROVE  journal'[i].chunk = journal[i].chunk
    OBVIOUS
  <2>2. ASSUME NEW e, journal' = [journal EXCEPT ![k] = e]
        PROVE  i = k /\ journal'[i] = e
    BY <1>1, <2>1, <2>2
  <2>3. ~((\E j \in Ids : Select(w, j)) \/ Reply(w) \/ PointArm(w) \/ PointStale(w) \/ EraseArm(w) \/ WorkerDies(w))
    BY <2>1 DEF Select, Reply, PointArm, PointStale, EraseArm, WorkerDies, outboxVars
  <2>4. \/ journal'[i] \in {Claimed(journal[i], w), Released(journal[i], "dead"), Superseded(journal[i]),
                            Completed(journal[i]), Deferred(journal[i])}
        \/ \E b : journal'[i] = Failed(journal[i], b)
    <3>1. CASE ClaimCas(w)
      BY <2>1, <2>2, <3>1 DEF ClaimCas
    <3>2. CASE PointSupersede(w)
      BY <2>2, <3>2 DEF PointSupersede
    <3>3. CASE PointAck(w)
      BY <2>1, <2>2, <3>3 DEF PointAck
    <3>4. CASE EraseDefer(w)
      BY <2>1, <2>2, <3>4 DEF EraseDefer
    <3>5. CASE EraseAck(w)
      BY <2>1, <2>2, <3>5 DEF EraseAck
    <3>6. CASE WorkerFails(w)
      BY <2>1, <2>2, <3>6 DEF WorkerFails
    <3> QED
      BY <1>7, <2>3, <3>1, <3>2, <3>3, <3>4, <3>5, <3>6 DEF WorkerStep, PointStep, EraseStep
  <2> QED
    BY <1>1, <2>4, ChunkFields
<1>8. ASSUME NEW j \in Ids, \/ LateApply(j) \/ LateLost(j) \/ GraceElapses(j)
                            \/ LeaseExpires(j) \/ RetryDead(j)
      PROVE  journal'[i].chunk = journal[i].chunk
  <2>1. CASE LateApply(j) \/ LateLost(j)
    BY <2>1 DEF LateApply, LateLost, outboxVars
  <2>2. CASE GraceElapses(j) \/ LeaseExpires(j)
    BY <1>1, <2>2 DEF GraceElapses, LeaseExpires, Event
  <2>3. CASE RetryDead(j)
    <3>1. journal'[i] = journal[i] \/ journal'[i] = Retried(journal[i])
      BY <1>1, <2>3 DEF RetryDead
    <3>2. Retried(journal[i]).chunk = journal[i].chunk
      BY <1>1 DEF Retried, Event
    <3> QED
      BY <3>1, <3>2
  <2> QED
    BY <1>8, <2>1, <2>2, <2>3
<1> QED
  BY <1>2, <1>4, <1>5, <1>6, <1>7, <1>8 DEF Next, Mutation, Environment

(* A step is a mutation, an acknowledgement, or leaves the rows alone.       *)
LEMMA StepsOfRows ==
    ASSUME Typed, Keys, [Next]_vars
    PROVE  \/ \E c \in Chunks : PutChunk(c) \/ DeleteChunk(c)
           \/ EraseAccount
           \/ /\ lastId' = lastId
              /\ rows' = rows \/ \E w \in PointWorkers : PointAck(w)
              /\ generation' = "deleted" <=> generation = "deleted"
<1>1. CASE Lifecycle \/ Prepare \/ SetFlags \/ BlockOwner \/ UNCHANGED vars
  BY <1>1 DEF Lifecycle, Create, Binding, BindLock, BindTarget, BindRollsBack,
     Erasing, EraseLock, EraseRead, EraseRollsBack, FailBuilding, Activate,
     Retire, Prepare, PrepareArm, PrepareLands, PrepareLost, SetFlags,
     BlockOwner, vars, outboxVars, sqlVars
<1>2. ASSUME NEW w \in Workers, WorkerStep(w) \/ WorkerFails(w) \/ WorkerDies(w)
      PROVE  /\ lastId' = lastId
             /\ rows' = rows \/ \E v \in PointWorkers : PointAck(v)
             /\ generation' = generation
  <2>1. CASE PointAck(w)
    BY <2>1 DEF PointAck
  <2> QED
    BY <1>2, <2>1 DEF WorkerStep, WorkerFails, WorkerDies, Select, ClaimCas, Reply,
       PointStep, PointArm, PointSupersede, PointStale, EraseStep, EraseDefer, EraseArm,
       EraseAck, outboxVars, sqlVars
<1>3. ASSUME NEW i \in Ids, \/ LateApply(i) \/ LateLost(i) \/ GraceElapses(i)
                            \/ (LeaseExpires(i) \/ RetryDead(i)) /\ UNCHANGED restVars
      PROVE  lastId' = lastId /\ rows' = rows /\ generation' = generation
  BY <1>3 DEF LateApply, LateLost, GraceElapses, LeaseExpires, RetryDead, restVars,
     outboxVars, sqlVars
<1> QED
  BY <1>1, <1>2, <1>3 DEF Next, Mutation, Environment

(* What the erasure of an account writes beyond the sequence, and to the rows. *)
LEMMA ErasureWrites ==
    ASSUME Typed, EraseAccount
    PROVE  /\ lastId' \in Nat /\ lastId <= lastId'
           /\ \A i \in Ids : i > lastId /\ i <= lastId' =>
                 \/ journal'[i] = NewEvent("delete_generation", None)
                 \/ \E c \in Chunks : journal'[i] = NewEvent("delete_chunk", c)
           /\ \A c \in Chunks : ~(rows'[c].state \in {"pending", "delivered"})
           /\ \A c \in Chunks : /\ rows'[c].revision = rows[c].revision
                                /\ HasRow(c) \/ rows[c].state = "gone" => rows'[c].state = "gone"
           /\ \A i \in Ids : i > lastId /\ i <= lastId' /\ journal'[i].op = "delete_chunk"
                 => HasRow(journal'[i].chunk)
<1> DEFINE left  == {c \in Chunks : HasRow(c)}
           first == IF txn.target = "bound" THEN lastId + 1 ELSE lastId
           last  == first + Cardinality(left)
<1>1. lastId \in Nat /\ journal \in [Ids -> Event] /\ Ids \subseteq Nat /\ rows \in [Chunks -> Row]
  BY Bounds DEF Typed, TypeOK, OutboxTypeOK, Ids
<1>2. Cardinality(left) \in Nat
  BY SyncAssumption, FS_Subset, FS_CardinalityType
<1>3. first \in Nat /\ last \in Nat /\ lastId <= first /\ first <= last /\ lastId' = last
  BY <1>1, <1>2 DEF EraseAccount
<1>4. PICK order \in [(first + 1)..last -> left] :
          journal' = [k \in Ids |->
                 IF k <= lastId THEN Superseded(journal[k])
                 ELSE IF k <= first THEN NewEvent("delete_generation", None)
                 ELSE IF k <= last THEN NewEvent("delete_chunk", order[k])
                 ELSE journal[k]]
  BY DEF EraseAccount
<1>5. ASSUME NEW i \in Ids, i > lastId, i <= lastId'
      PROVE  \/ journal'[i] = NewEvent("delete_generation", None)
             \/ \E c \in left : journal'[i] = NewEvent("delete_chunk", c)
  <2> HIDE DEF left, first, last
  <2>1. CASE i <= first
    BY <1>1, <1>4, <1>5, <2>1
  <2>2. CASE ~(i <= first)
    <3>1. i \in (first + 1)..last
      BY <1>1, <1>3, <1>5, <2>2
    <3> QED
      BY <1>1, <1>3, <1>4, <1>5, <2>2, <3>1
  <2> QED
    BY <2>1, <2>2
<1>6. rows' = [c \in Chunks |-> IF HasRow(c) THEN [rows[c] EXCEPT !.state = "gone"] ELSE rows[c]]
  BY DEF EraseAccount
<1>7. \A c \in Chunks : /\ ~(rows'[c].state \in {"pending", "delivered"})
                        /\ rows'[c].revision = rows[c].revision
                        /\ HasRow(c) \/ rows[c].state = "gone" => rows'[c].state = "gone"
  BY <1>1, <1>6 DEF HasRow, Row
<1>8. \A c : /\ NewEvent("delete_chunk", c).op = "delete_chunk" /\ NewEvent("delete_chunk", c).chunk = c
             /\ NewEvent("delete_generation", c).op = "delete_generation"
  BY DEF NewEvent
<1>9. \A i \in Ids : i > lastId /\ i <= lastId' /\ journal'[i].op = "delete_chunk"
                 => HasRow(journal'[i].chunk)
  BY <1>5, <1>8
<1>10. lastId' \in Nat /\ lastId <= lastId'
  <2> HIDE DEF left, first, last
  <2>1. first \in Nat /\ last \in Nat
    BY <1>3
  <2> QED
    BY <1>1, <1>3, <2>1
<1>11. \A c \in left : c \in Chunks
  OBVIOUS
<1> HIDE DEF left, first, last
<1> QED
  BY <1>5, <1>7, <1>9, <1>10, <1>11

(* An acknowledgement changes nothing of a row but "pending" to "delivered". *)
LEMMA AckRows ==
    ASSUME Typed, NEW w \in PointWorkers, PointAck(w), NEW c \in Chunks
    PROVE  /\ rows'[c].revision = rows[c].revision
           /\ rows'[c].state \in {rows[c].state, "delivered"}
           /\ rows'[c] # rows[c] =>
                 /\ journal[worker[w].id].op = "upsert" /\ journal[worker[w].id].chunk = c
                 /\ HasRow(c) /\ rows[c].revision = worker[w].id
                 /\ worker[w].phase = "replied"
<1>1. rows \in [Chunks -> Row]
  BY DEF Typed, TypeOK
<1>2. CASE rows' = rows
  BY <1>2
<1>3. CASE rows' # rows
  <2> DEFINE i == worker[w].id
  <2>1. /\ journal[i].op = "upsert" /\ HasRow(journal[i].chunk) /\ rows[journal[i].chunk].revision = i
        /\ rows' = [rows EXCEPT ![journal[i].chunk].state = "delivered"]
        /\ worker[w].phase = "replied"
    BY <1>3 DEF PointAck
  <2> QED
    BY <1>1, <2>1 DEF Row
<1> QED
  BY <1>2, <1>3

(* Every step keeps the journal and the rows matched.                        *)
LEMMA HistoryStep == Typed /\ Keys /\ History /\ [Next]_vars => History'
<1> SUFFICES ASSUME Typed, Keys, History, [Next]_vars PROVE History'
  OBVIOUS
<1>1. /\ lastId \in Nat /\ journal \in [Ids -> Event] /\ Ids \subseteq Nat
      /\ rows \in [Chunks -> Row] /\ \A c \in Chunks : rows[c].revision \in Nat
  <2>1. \A c \in Chunks : rows[c].revision \in 0..MaxEvents
    BY DEF Typed, TypeOK, Row
  <2> QED
    BY <2>1, Bounds DEF Typed, TypeOK, OutboxTypeOK, Ids
<1>2. \A i \in Ids : i <= lastId => journal'[i].op = journal[i].op /\ journal'[i].chunk = journal[i].chunk
  BY AboutKept
<1>3. CASE /\ lastId' = lastId
           /\ rows' = rows \/ \E w \in PointWorkers : PointAck(w)
           /\ generation' = "deleted" <=> generation = "deleted"
  <2>1. \A c \in Chunks : /\ rows'[c].revision = rows[c].revision
                          /\ rows[c].state = "gone" => rows'[c].state = "gone"
                          /\ ~HasRow(c) => rows'[c] = rows[c]
    BY <1>3, AckRows DEF HasRow
  <2>2. ChunksFit' /\ WithdrawnIsGone' /\ UploadsFollow' /\ WithdrawalsFollow'
    BY <1>1, <1>2, <1>3, <2>1 DEF History, ChunksFit, WithdrawnIsGone, UploadsFollow,
       WithdrawalsFollow, PointOps
  <2>3. RowsDie'
    BY <1>3, <2>1 DEF History, RowsDie, HasRow
  <2> QED
    BY <2>2, <2>3 DEF History
<1>4. ASSUME NEW c \in Chunks, NEW op \in PointOps, Enqueue(op, c), UNCHANGED generation,
             generation # "deleted",
             rows[c].state # "gone", 
             op = "upsert" => rows' = [rows EXCEPT ![c] = [state |-> "pending", revision |-> lastId + 1]],
             op = "delete_chunk" => rows' = [rows EXCEPT ![c].state = "gone"]
      PROVE  History'
  <2> DEFINE n == lastId + 1
  <2>1. n \in Ids /\ lastId' = n /\ journal'[n] = NewEvent(op, c) /\ NewEvent(op, c).op = op /\ NewEvent(op, c).chunk = c
    BY <1>1, <1>4, Bounds DEF Enqueue, NewEvent, Ids
  <2>2. \A i \in Ids : i <= lastId' => i <= lastId \/ i = n
    BY <1>1, <2>1
  <2>3. op = "upsert" \/ op = "delete_chunk"
    BY DEF PointOps
  <2>4. \A d \in Chunks : d # c => rows'[d] = rows[d]
    BY <1>1, <1>4, <2>3
  <2>5. ChunksFit'
    BY <1>2, <2>1, <2>2 DEF History, ChunksFit
  <2>6. /\ op = "upsert" => rows'[c].revision = n /\ rows'[c].state = "pending"
        /\ op = "delete_chunk" => rows'[c].state = "gone" /\ rows'[c].revision = rows[c].revision
    BY <1>1, <1>4 DEF Row
  <2>7. WithdrawnIsGone'
    BY <1>1, <1>2, <1>4, <2>1, <2>2, <2>3, <2>4, <2>5, <2>6 DEF History,
       WithdrawnIsGone, ChunksFit, PointOps
  <2>8. UploadsFollow'
    <3> SUFFICES ASSUME NEW i \in Ids, i <= lastId', journal'[i].op = "upsert"
                 PROVE  i <= rows'[journal'[i].chunk].revision
      BY DEF UploadsFollow
    <3>1. CASE i = n
      BY <1>1, <2>1, <2>6, <3>1
    <3>2. CASE i <= lastId
      <4>1. journal'[i].chunk = journal[i].chunk /\ i <= rows[journal[i].chunk].revision
        BY <1>2, <3>2 DEF History, UploadsFollow
      <4>2. journal[i].chunk \in Chunks
        BY <1>2, <3>2 DEF History, ChunksFit, PointOps
      <4>3. CASE journal[i].chunk = c
        BY <1>1, <2>3, <2>6, <3>2, <4>1, <4>3
      <4> QED
        BY <2>4, <4>1, <4>2, <4>3
    <3> QED
      BY <2>2, <3>1, <3>2
  <2>9. WithdrawalsFollow'
    <3> SUFFICES ASSUME NEW i \in Ids, NEW j \in Ids, i <= lastId', j <= lastId',
                        journal'[i].op = "upsert", journal'[j].op = "delete_chunk",
                        journal'[i].chunk = journal'[j].chunk
                 PROVE  i < j
      BY DEF WithdrawalsFollow
    <3>1. CASE i <= lastId /\ j <= lastId
      BY <1>2, <3>1 DEF History, WithdrawalsFollow
    <3>2. CASE i <= lastId /\ j = n
      BY <1>1, <3>2
    <3>3. CASE i = n /\ j <= lastId
      BY <1>2, <1>4, <2>1, <3>3 DEF History, WithdrawnIsGone
    <3> QED
      BY <2>1, <2>2, <3>1, <3>2, <3>3
  <2> QED
    BY <1>4, <2>5, <2>7, <2>8, <2>9 DEF History, RowsDie
<1>5. ASSUME NEW c \in Chunks, PutChunk(c) PROVE History'
  <2>1. /\ Enqueue("upsert", c) /\ UNCHANGED generation /\ generation # "deleted" /\ rows[c].state # "gone"
        /\ rows' = [rows EXCEPT ![c] = [state |-> "pending", revision |-> lastId + 1]]
    BY <1>5 DEF PutChunk
  <2> QED
    BY <1>4, <2>1 DEF PointOps
<1>6. ASSUME NEW c \in Chunks, DeleteChunk(c) PROVE History'
  <2>1. /\ Enqueue("delete_chunk", c) /\ UNCHANGED generation /\ HasRow(c)
        /\ rows' = [rows EXCEPT ![c].state = "gone"]
    BY <1>6 DEF DeleteChunk
  <2>2. generation # "deleted" /\ rows[c].state # "gone"
    BY <2>1 DEF History, RowsDie, HasRow
  <2> QED
    BY <1>4, <2>1, <2>2 DEF PointOps
<1>7. CASE EraseAccount
  <2>1. /\ lastId' \in Nat /\ lastId <= lastId'
        /\ \A i \in Ids : i > lastId /\ i <= lastId' =>
              \/ journal'[i] = NewEvent("delete_generation", None)
              \/ \E c \in Chunks : journal'[i] = NewEvent("delete_chunk", c)
        /\ \A i \in Ids : i > lastId /\ i <= lastId' /\ journal'[i].op = "delete_chunk"
              => HasRow(journal'[i].chunk)
    BY <1>7, ErasureWrites
  <2>2. /\ \A c \in Chunks : ~(rows'[c].state \in {"pending", "delivered"})
        /\ \A c \in Chunks : /\ rows'[c].revision = rows[c].revision
                             /\ HasRow(c) \/ rows[c].state = "gone" => rows'[c].state = "gone"
    BY <1>7, ErasureWrites
  <2>3. \A i \in Ids : i > lastId /\ i <= lastId' =>
           /\ journal'[i].op # "upsert"
           /\ journal'[i].op = "delete_chunk" => journal'[i].chunk \in Chunks
    <3>1. /\ NewEvent("delete_generation", None).op = "delete_generation"
          /\ \A c : NewEvent("delete_chunk", c).op = "delete_chunk" /\ NewEvent("delete_chunk", c).chunk = c
      BY DEF NewEvent
    <3> QED
      BY <2>1, <3>1
  <2>4. \A i \in Ids : i <= lastId' => i <= lastId \/ i > lastId
    BY <1>1
  <2>5. ChunksFit'
    BY <1>2, <2>3, <2>4 DEF History, ChunksFit, PointOps
  <2>6. WithdrawnIsGone'
    BY <1>2, <2>1, <2>2, <2>3, <2>4 DEF History, WithdrawnIsGone, ChunksFit, PointOps
  <2>7. UploadsFollow'
    BY <1>2, <2>2, <2>3, <2>4 DEF History, UploadsFollow, ChunksFit, PointOps
  <2>8. WithdrawalsFollow'
    <3> SUFFICES ASSUME NEW i \in Ids, NEW j \in Ids, i <= lastId', j <= lastId',
                        journal'[i].op = "upsert", journal'[j].op = "delete_chunk",
                        journal'[i].chunk = journal'[j].chunk
                 PROVE  i < j
      BY DEF WithdrawalsFollow
    <3>1. i <= lastId
      BY <2>3, <2>4
    <3>2. CASE j <= lastId
      BY <1>2, <3>1, <3>2 DEF History, WithdrawalsFollow
    <3> QED
      BY <1>1, <2>4, <3>1, <3>2
  <2>9. RowsDie'
    BY <2>2 DEF RowsDie, HasRow
  <2> QED
    BY <2>5, <2>6, <2>7, <2>8, <2>9 DEF History
<1> QED
  BY <1>3, <1>5, <1>6, <1>7, StepsOfRows

-----------------------------------------------------------------------------
(* What the store holds.                                                     *)

(* Erased for good: no request and no preparation can fill the index again.  *)
Gone == generation = "deleted" /\ creating = {} /\ ~remote.present

(* A point was written by the intent whose number it carries.                *)
PointsKnown ==
    \A c \in Chunks : remote.points[c] # NoPoint =>
        LET r == remote.points[c].revision
        IN  /\ r \in Ids /\ r <= lastId
            /\ journal[r].chunk = c
            /\ journal[r].op \in PointOps
            /\ remote.points[c].deleted <=> journal[r].op = "delete_chunk"
EmptyWhenGone == ~remote.present => remote.points = NoPoints
LateFits == \A i \in late : i <= lastId /\ (journal[i].op = "delete_generation" => creating = {})

Store == PointsKnown /\ EmptyWhenGone /\ LateFits

(* The store is empty at first. *)
LEMMA StoreInit == Init => Store
<1> SUFFICES ASSUME Init PROVE Store
  OBVIOUS
<1>1. remote.points = NoPoints /\ late = {}
  BY DEF Init
<1> QED
  BY <1>1 DEF Store, PointsKnown, EmptyWhenGone, LateFits, NoPoints

(* The types a point write meets. *)
LEMMA StoreTypes ==
    ASSUME Typed
    PROVE  /\ lastId \in Nat /\ journal \in [Ids -> Event] /\ Ids \subseteq Nat /\ 0 \notin Ids
           /\ remote \in [present : BOOLEAN, points : [Chunks -> Point]]
           /\ \A c \in Chunks : /\ remote.points[c].revision \in Nat
                                /\ remote.points[c].deleted \in BOOLEAN
                                /\ remote.points[c] = [revision |-> remote.points[c].revision,
                                                       deleted |-> remote.points[c].deleted]
           /\ NoPoints \in [Chunks -> Point]
           /\ NoPoint.revision = 0 /\ NoPoint.deleted = FALSE
<1>1. lastId \in Nat /\ journal \in [Ids -> Event] /\ Ids \subseteq Nat /\ 0 \notin Ids
  BY Bounds DEF Typed, TypeOK, OutboxTypeOK, Ids
<1>2. remote \in [present : BOOLEAN, points : [Chunks -> Point]]
  BY DEF Typed, TypeOK
<1>3. \A c \in Chunks : /\ remote.points[c].revision \in 0..MaxEvents
                        /\ remote.points[c].deleted \in BOOLEAN
                        /\ remote.points[c] = [revision |-> remote.points[c].revision,
                                               deleted |-> remote.points[c].deleted]
  BY <1>2 DEF Point
<1>4. NoPoints \in [Chunks -> Point] /\ NoPoint.revision = 0 /\ NoPoint.deleted = FALSE
  BY Bounds DEF NoPoints, NoPoint, Point
<1> QED
  BY <1>1, <1>2, <1>3, <1>4, Bounds

(* Who changes the store.                                                    *)
LEMMA StepsOfStore ==
    ASSUME Typed, Keys, Final, Store, [Next]_vars
    PROVE  \/ UNCHANGED remote
           \/ \E p \in Preparers : PrepareLands(p)
           \/ \E i \in Ids : /\ Apply(i)
                             /\ i <= lastId
                             /\ journal[i].op = "delete_generation" => creating = {}
                             /\ UNCHANGED <<journal, lastId, generation, creating, rows>>
<1>1. CASE Lifecycle \/ Mutation \/ SetFlags \/ UNCHANGED vars
  BY <1>1 DEF Lifecycle, Create, Binding, BindLock, BindTarget, BindRollsBack,
     Erasing, EraseLock, EraseRead, EraseRollsBack, FailBuilding, Activate,
     Retire, SetFlags, vars, Mutation, PutChunk, DeleteChunk, BlockOwner,
     EraseAccount
<1>2. CASE Prepare
  BY <1>2 DEF Prepare, PrepareArm, PrepareLost
<1>3. ASSUME NEW w \in Workers, WorkerStep(w) \/ WorkerFails(w) \/ WorkerDies(w), ~UNCHANGED remote
      PROVE  \E i \in Ids : /\ Apply(i)
                            /\ i <= lastId
                            /\ journal[i].op = "delete_generation" => creating = {}
                            /\ UNCHANGED <<journal, lastId, generation, creating, rows>>
  <2> DEFINE i == worker[w].id
  <2>1. Reply(w)
    BY <1>3 DEF WorkerStep, WorkerFails, WorkerDies, Select, ClaimCas, PointStep, PointArm,
         PointSupersede, PointStale, PointAck, EraseStep, EraseDefer, EraseArm, EraseAck
  <2>2. i \in Ids /\ i <= lastId /\ journal[i].op \in ClaimsOf(w)
    BY <2>1 DEF Reply, Typed, Busy, Keys, ClaimFits
  <2>3. journal[i].op = "delete_generation" => creating = {}
    BY <2>1, <2>2 DEF Reply, Workers, ClaimsOf, PointOps, Final, ErasersAreQuiet
  <2> QED
    BY <2>1, <2>2, <2>3 DEF Reply, outboxVars, sqlVars
<1>4. ASSUME NEW i \in Ids, LateApply(i)
      PROVE  /\ Apply(i)
             /\ i <= lastId
             /\ journal[i].op = "delete_generation" => creating = {}
             /\ UNCHANGED <<journal, lastId, generation, creating, rows>>
  BY <1>4 DEF LateApply, outboxVars, sqlVars, Store, LateFits
<1>5. ASSUME NEW i \in Ids, LateLost(i) \/ GraceElapses(i) \/ UNCHANGED restVars PROVE UNCHANGED remote
  BY <1>5 DEF LateLost, GraceElapses, restVars
<1> QED
  BY <1>1, <1>2, <1>3, <1>4, <1>5 DEF Next, Environment

(* What the request for an intent on a chunk leaves in a store that is there. *)
LEMMA WriteEffect ==
    ASSUME Typed, History, Store, NEW j \in Ids, j <= lastId, journal[j].op \in PointOps,
           remote.present, Apply(j)
    PROVE  LET c   == journal[j].chunk
               old == remote.points[c]
               new == [revision |-> j, deleted |-> journal[j].op = "delete_chunk"]
           IN  /\ c \in Chunks
               /\ remote'.present
               /\ remote'.points \in [Chunks -> Point]
               /\ \A d \in Chunks \ {c} : remote'.points[d] = remote.points[d]
               /\ \/ /\ remote'.points = [remote.points EXCEPT ![c] = new]
                     /\ remote'.points[c] = new
                     /\ old.revision <= j
                     /\ old.deleted => new.deleted
                     /\ old.revision = j => old = new
                  \/ /\ remote'.points = remote.points
                     /\ old.revision > j
                     /\ journal[j].op = "delete_chunk" => old.deleted
<1> DEFINE c   == journal[j].chunk
           old == remote.points[c]
           tombstone == journal[j].op = "delete_chunk"
           new == [revision |-> j, deleted |-> tombstone]
           matches == old.revision <= j /\ (tombstone \/ ~old.deleted)
<1>1. c \in Chunks
  BY DEF History, ChunksFit
<1>2. journal[j].op # "delete_generation"
  BY DEF PointOps
<1>3. remote' = [remote EXCEPT !.points = Written(remote.points, j)]
  BY <1>2 DEF Apply
<1>4. remote'.present /\ remote'.points = Written(remote.points, j)
  BY <1>3, StoreTypes
<1>5. Written(remote.points, j) = IF old = NoPoint \/ matches
                                   THEN [remote.points EXCEPT ![c] = new] ELSE remote.points
  BY DEF Written
<1>6. remote'.points \in [Chunks -> Point]
  <2>1. new \in Point
    BY Bounds DEF Point
  <2>2. remote.points \in [Chunks -> Point]
    BY StoreTypes
  <2>3. [remote.points EXCEPT ![c] = new] \in [Chunks -> Point]
    <3> HIDE DEF new, c
    <3> QED
      BY <2>1, <2>2
  <2> QED
    BY <1>4, <1>5, <2>2, <2>3
<1>7. \A d \in Chunks \ {c} : remote'.points[d] = remote.points[d]
  BY <1>1, <1>4, <1>5, StoreTypes
<1>8. old # NoPoint => /\ old.revision \in Ids /\ old.revision <= lastId
                       /\ journal[old.revision].chunk = c
                       /\ journal[old.revision].op \in PointOps
                       /\ old.deleted <=> journal[old.revision].op = "delete_chunk"
  BY <1>1 DEF Store, PointsKnown
<1>9. CASE old = NoPoint \/ matches
  <2>1. remote'.points = [remote.points EXCEPT ![c] = new] /\ remote'.points[c] = new
    BY <1>1, <1>4, <1>5, <1>9, StoreTypes
  <2>2. old.revision <= j /\ (old.deleted => new.deleted)
    <3>1. j \in Nat /\ NoPoint.revision = 0 /\ ~NoPoint.deleted
      BY StoreTypes
    <3>2. CASE old = NoPoint
      <4> HIDE DEF old
      <4> QED
        BY <3>1, <3>2
    <3> QED
      BY <1>9, <3>2
  <2>3. old.revision = j => old = new
    <3>1. ASSUME old.revision = j PROVE old.deleted = tombstone
      <4>1. old # NoPoint
        BY <3>1, StoreTypes
      <4> QED
        BY <1>1, <1>8, <3>1, <4>1, StoreTypes
    <3> QED
      BY <1>1, <3>1, StoreTypes
  <2> QED
    BY <1>1, <1>4, <1>6, <1>7, <2>1, <2>2, <2>3
<1>10. CASE ~(old = NoPoint \/ matches)
  <2>1. remote'.points = remote.points
    BY <1>4, <1>5, <1>10
  <2>2. journal[old.revision].op = "upsert" /\ tombstone => old.revision < j
    BY <1>8, <1>10 DEF History, WithdrawalsFollow
  <2>3. journal[old.revision].op = "delete_chunk" /\ journal[j].op = "upsert" => j < old.revision
    BY <1>8, <1>10 DEF History, WithdrawalsFollow
  <2>4. old.revision > j
    BY <1>1, <1>8, <1>10, <2>3, StoreTypes DEF PointOps
  <2>5. tombstone => old.deleted
    BY <1>1, <1>8, <1>10, <2>2, <2>4, StoreTypes DEF PointOps
  <2> QED
    BY <1>1, <1>4, <1>6, <1>7, <2>1, <2>4, <2>5
<1> QED
  BY <1>9, <1>10

(* The request to erase empties the store, one for a point of a store that is *)
(* not there changes nothing.                                                *)
LEMMA OtherEffects ==
    ASSUME Typed, NEW j \in Ids, Apply(j)
    PROVE  /\ journal[j].op = "delete_generation" => ~remote'.present /\ remote'.points = NoPoints
           /\ journal[j].op \in PointOps /\ ~remote.present => remote' = remote
           /\ journal[j].op = "delete_generation" \/ journal[j].op \in PointOps
<1>1. journal[j].op \in Ops
  BY DEF Typed, TypeOK, OutboxTypeOK, Event
<1> QED
  BY <1>1 DEF Apply, Ops, PointOps

(* No step numbers a point that the journal does not know.                   *)
LEMMA PointsStep == Typed /\ Keys /\ Final /\ History /\ Store /\ [Next]_vars => PointsKnown'
<1> SUFFICES ASSUME Typed, Keys, Final, History, Store, [Next]_vars,
                    NEW c \in Chunks, remote'.points[c] # NoPoint
             PROVE  LET r == remote'.points[c].revision
                    IN  /\ r \in Ids /\ r <= lastId'
                        /\ journal'[r].chunk = c
                        /\ journal'[r].op \in PointOps
                        /\ remote'.points[c].deleted <=> journal'[r].op = "delete_chunk"
  BY DEF PointsKnown
<1>1. lastId <= lastId'
  BY FreshStep, StepsOfJournal
<1>2. lastId \in Nat /\ lastId' \in Nat /\ Ids \subseteq Nat
  BY StoreTypes, TypedStep, Bounds DEF Typed, TypeOK, OutboxTypeOK
<1>3. ASSUME NEW r \in Ids, r <= lastId
      PROVE  r <= lastId' /\ journal'[r].chunk = journal[r].chunk /\ journal'[r].op = journal[r].op
  BY <1>1, <1>2, <1>3, AboutKept
<1>4. CASE remote'.points[c] = remote.points[c]
  BY <1>3, <1>4 DEF Store, PointsKnown
<1>5. ASSUME NEW p \in Preparers, PrepareLands(p) PROVE remote'.points[c] = remote.points[c]
  BY <1>5, StoreTypes DEF PrepareLands
<1>6. ASSUME NEW i \in Ids, Apply(i), i <= lastId, remote'.points[c] # remote.points[c]
      PROVE  /\ remote'.points[c].revision = i
             /\ journal[i].chunk = c
             /\ journal[i].op \in PointOps
             /\ remote'.points[c].deleted <=> journal[i].op = "delete_chunk"
  <2>1. journal[i].op \in PointOps
    BY <1>6, OtherEffects DEF NoPoints
  <2>2. remote.present
    BY <1>6, <2>1, OtherEffects
  <2>a. \A d \in Chunks \ {journal[i].chunk} : remote'.points[d] = remote.points[d]
    BY <1>6, <2>1, <2>2, WriteEffect
  <2>3. journal[i].chunk = c
    BY <1>6, <2>a
  <2>4. remote'.points[c] = [revision |-> i, deleted |-> journal[i].op = "delete_chunk"]
    BY <1>6, <2>1, <2>2, <2>3, WriteEffect
  <2>5. remote'.points[c].revision = i /\ remote'.points[c].deleted = (journal[i].op = "delete_chunk")
    BY <2>4
  <2> QED
    BY <2>1, <2>3, <2>5
<1> QED
  BY <1>3, <1>4, <1>5, <1>6, StepsOfStore

(* A store that is not there is empty.                                       *)
LEMMA EmptyStep == Typed /\ Keys /\ Final /\ History /\ Store /\ [Next]_vars => EmptyWhenGone'
<1> SUFFICES ASSUME Typed, Keys, Final, History, Store, [Next]_vars, ~remote'.present
             PROVE  remote'.points = NoPoints
  BY DEF EmptyWhenGone, NoPoints
<1>1. CASE UNCHANGED remote
  BY <1>1 DEF Store, EmptyWhenGone
<1>2. ASSUME NEW p \in Preparers, PrepareLands(p) PROVE FALSE
  BY <1>2, StoreTypes DEF PrepareLands
<1>3. ASSUME NEW i \in Ids, Apply(i), i <= lastId PROVE remote'.points = NoPoints
  <2>1. CASE journal[i].op = "delete_generation"
    BY <1>3, <2>1, OtherEffects
  <2>2. CASE journal[i].op \in PointOps
    <3>1. ~remote.present
      BY <1>3, <2>2, WriteEffect
    <3> QED
      BY <1>3, <2>2, <3>1, OtherEffects DEF Store, EmptyWhenGone
  <2> QED
    BY <1>3, <2>1, <2>2, OtherEffects
<1> QED
  BY <1>1, <1>2, <1>3, StepsOfStore

(* A request that is given up on is one for a known intent, and a late        *)
(* erasure meets no preparation.                                             *)
LEMMA LateStep == Typed /\ Keys /\ Final /\ Store /\ [Next]_vars => LateFits'
<1> SUFFICES ASSUME Typed, Keys, Final, Store, [Next]_vars, NEW i \in late'
             PROVE  i <= lastId' /\ (journal'[i].op = "delete_generation" => creating' = {})
  BY DEF LateFits
<1>1. lastId <= lastId'
  BY FreshStep, StepsOfJournal
<1>2. lastId \in Nat /\ lastId' \in Nat /\ Ids \subseteq Nat
  BY StoreTypes, TypedStep, Bounds DEF Typed, TypeOK, OutboxTypeOK
<1>3. i \in Ids /\ i <= lastId /\ (journal[i].op = "delete_generation" => creating = {})
  <2>1. CASE i \in late
    BY <2>1 DEF Store, LateFits, Typed, TypeOK
  <2>2. CASE i \notin late
    <3>1. PICK w \in Workers : worker[w].phase = "armed" /\ i = worker[w].id
      <4>1. PICK w \in Workers : WorkerFails(w) \/ WorkerDies(w)
        BY <2>2 DEF Next, vars, Lifecycle, Create, Binding, BindLock,
           BindTarget, BindRollsBack, Erasing, EraseLock, EraseRead,
           EraseRollsBack, FailBuilding, Activate, Retire, Mutation, PutChunk,
           DeleteChunk, BlockOwner, EraseAccount, Prepare, PrepareArm,
           PrepareLands, PrepareLost, Environment, LateApply, LateLost,
           GraceElapses, restVars, SetFlags, WorkerStep, Select, ClaimCas,
           Reply, PointStep, PointArm, PointSupersede, PointStale, PointAck,
           EraseStep, EraseDefer, EraseArm, EraseAck
      <4> QED
        BY <2>2, <4>1 DEF WorkerFails, WorkerDies, MayBeLate
    <3>2. i \in Ids /\ i <= lastId /\ journal[i].op \in ClaimsOf(w)
      BY <3>1 DEF Typed, Busy, Keys, ClaimFits
    <3>3. journal[i].op = "delete_generation" => w \in ErasureWorkers
      BY <3>2 DEF ClaimsOf, PointOps, Workers
    <3> QED
      BY <3>1, <3>2, <3>3 DEF Final, ErasersAreQuiet
  <2> QED
    BY <2>1, <2>2
<1>4. journal'[i].op = journal[i].op
  BY <1>3, AboutKept
<1>5. journal[i].op = "delete_generation" => creating' \subseteq creating
  BY <1>3, DeletedIsQuiet DEF Keys, ErasureIsLast
<1> QED
  BY <1>1, <1>2, <1>3, <1>4, <1>5

(* Every step keeps the store matched to the journal.                        *)
LEMMA StoreStep == Typed /\ Keys /\ Final /\ History /\ Store /\ [Next]_vars => Store'
BY PointsStep, EmptyStep, LateStep DEF Store

-----------------------------------------------------------------------------
(* The store implements its contract.                                        *)

(* An erasure is final, or has just emptied the index. *)
LEMMA GoneSteps ==
    ASSUME Typed, Keys, Store, [Next]_vars, UNCHANGED remote
    PROVE  \/ Gone /\ Gone'
           \/ ~Gone /\ ~Gone'
           \/ ~Gone /\ Gone' /\ remote'.points = NoPoints
<1>1. Gone => Gone'
  BY DeletedIsQuiet DEF Gone
<1>2. Gone' => remote'.points = NoPoints
  BY DEF Gone, Store, EmptyWhenGone
<1> QED
  BY <1>1, <1>2

(* The empty index is the contract's. *)
LEMMA EmptyIndex == NoPoints = Contract!Empty
BY DEF NoPoints, NoPoint, Contract!Empty

(* Each step of the system is a step of the contract or changes nothing of    *)
(* what it speaks of.                                                        *)
LEMMA ContractStep ==
    ASSUME Typed, Keys, Final, History, Store, [Next]_vars
    PROVE  [Contract!Next]_(Contract!vars)
<1>1. CASE UNCHANGED remote
  <2>1. CASE (Gone /\ Gone') \/ (~Gone /\ ~Gone')
    BY <1>1, <2>1 DEF Gone, Contract!vars
  <2>2. CASE ~Gone /\ Gone' /\ remote'.points = NoPoints
    BY <2>2, EmptyIndex DEF Gone, Contract!Next, Contract!Erase
  <2>3. \/ Gone /\ Gone'
        \/ ~Gone /\ ~Gone'
        \/ ~Gone /\ Gone' /\ remote'.points = NoPoints
    BY <1>1, GoneSteps
  <2> QED
    BY <2>1, <2>2, <2>3
<1>2. ASSUME NEW p \in Preparers, PrepareLands(p)
      PROVE  UNCHANGED Contract!vars
  <2>1. creating # {} /\ remote'.present /\ remote'.points = remote.points
    BY <1>2, StoreTypes DEF PrepareLands
  <2> QED
    BY <2>1 DEF Contract!vars
<1>3. ASSUME NEW i \in Ids, Apply(i), i <= lastId, journal[i].op = "delete_generation" => creating = {},
             UNCHANGED <<journal, lastId, generation, creating, rows>>
      PROVE  [Contract!Next]_(Contract!vars)
  <2>1. CASE journal[i].op = "delete_generation"
    <3>1. ~remote'.present /\ remote'.points = NoPoints
      BY <1>3, <2>1, OtherEffects
    <3>2. generation' = "deleted" /\ creating' = {}
      BY <1>3, <2>1 DEF Keys, ErasureIsLast
    <3> QED
      BY <3>1, <3>2, EmptyIndex DEF Contract!Next, Contract!Erase
  <2>2. CASE journal[i].op \in PointOps /\ ~remote.present
    <3>1. remote' = remote
      BY <1>3, <2>2, OtherEffects
    <3> QED
      BY <1>3, <3>1 DEF Contract!vars
  <2>3. CASE journal[i].op \in PointOps /\ remote.present
    <3> DEFINE c   == journal[i].chunk
               old == remote.points[c]
               new == [revision |-> i, deleted |-> journal[i].op = "delete_chunk"]
    <3>1. c \in Chunks /\ remote'.present /\ remote'.points \in [Chunks -> Point]
      BY <1>3, <2>3, WriteEffect
    <3>2. CASE remote'.points = remote.points
      BY <2>3, <3>1, <3>2 DEF Contract!vars
    <3>3. CASE /\ remote'.points = [remote.points EXCEPT ![c] = new]
               /\ old.revision <= i
               /\ old.deleted => new.deleted
               /\ old.revision = i => old = new
      <4>1. old.revision \in Nat /\ i \in Nat
        BY <3>1, StoreTypes
      <4>2. CASE old.revision = i
        <5>1. remote'.points = remote.points
          BY <3>1, <3>3, <4>2, StoreTypes
        <5> QED
          BY <2>3, <3>1, <5>1 DEF Contract!vars
      <4>3. CASE old.revision # i /\ journal[i].op = "delete_chunk"
        <5>1. i > old.revision
          BY <3>3, <4>1, <4>3
        <5>2. Contract!Withdraw(c, i)
          BY <2>3, <3>1, <3>3, <4>3, <5>1 DEF Contract!Withdraw
        <5> QED
          BY <3>1, <5>2 DEF Contract!Next
      <4>4. CASE old.revision # i /\ journal[i].op # "delete_chunk"
        <5>1. i > old.revision
          BY <3>3, <4>1, <4>4
        <5>2. Contract!Serve(c, i)
          BY <2>3, <3>1, <3>3, <4>4, <5>1 DEF Contract!Serve
        <5> QED
          BY <3>1, <5>2 DEF Contract!Next
      <4> QED
        BY <4>2, <4>3, <4>4
    <3> QED
      BY <1>3, <2>3, <3>2, <3>3, WriteEffect
  <2> QED
    BY <1>3, <2>1, <2>2, <2>3, OtherEffects
<1> QED
  BY <1>1, <1>2, <1>3, StepsOfStore

(* The index starts as the contract says. *)
LEMMA ContractInit == Init => Contract!Init
BY EmptyIndex DEF Init, Contract!Init

(* Every behaviour of the journal, its workers, late requests, crashes and    *)
(* preparations shows retrieval an index that keeps the contract: newer       *)
(* revisions only, nothing withdrawn served again, nothing after an erasure.  *)
THEOREM ImplementsContract == Spec => KeepsContract
<1> DEFINE Inv == Typed /\ Keys /\ Final /\ History /\ Store
<1>1. Init => Inv
  BY TypedInit, KeysInit, FinalInit, HistoryInit, StoreInit
<1>2. Inv /\ [Next]_vars => Inv'
  BY TypedStep, KeysStep, FinalKept, HistoryStep, StoreStep
<1>3. Inv /\ [Next]_vars => [Contract!Next]_(Contract!vars)
  BY ContractStep
<1> QED
  BY <1>1, <1>2, <1>3, ContractInit, PTL DEF Spec, KeepsContract, Contract!Spec

-----------------------------------------------------------------------------
(* What an acknowledgement says of the store.                                *)

(* The request for i has taken effect: its chunk holds i or a later point,    *)
(* and is withdrawn if i withdraws it, unless all of it is gone for good.     *)
Took(i) ==
    \/ Gone
    \/ /\ remote.present
       /\ remote.points[journal[i].chunk].revision >= i
       /\ journal[i].op = "delete_chunk" => remote.points[journal[i].chunk].deleted

RepliesTook   == \A w \in PointWorkers : worker[w].phase = "replied" => Took(worker[w].id)
DeliveredTook == \A i \in Ids : journal[i].op \in PointOps /\ journal[i].state = "delivered" => Took(i)
RowsTook ==
    \A c \in Chunks : rows[c].state = "delivered" =>
        LET r == rows[c].revision
        IN  r \in Ids /\ r <= lastId /\ journal[r].op = "upsert" /\ journal[r].chunk = c /\ Took(r)

Acknowledged == RepliesTook /\ DeliveredTook /\ RowsTook

(* Nothing is acknowledged at first. *)
LEMMA AcknowledgedInit == Init => Acknowledged
BY NoEventFields DEF Init, OutboxInit, Acknowledged, RepliesTook, DeliveredTook,
   RowsTook, Idle, Workers

(* What took effect keeps having it.                                         *)
LEMMA TookStep ==
    ASSUME Typed, Keys, Final, History, Store, [Next]_vars,
           NEW i \in Ids, i <= lastId, journal[i].op \in PointOps, Took(i)
    PROVE  Took(i)'
<1> DEFINE c == journal[i].chunk
<1>1. journal'[i].op = journal[i].op /\ journal'[i].chunk = c
  BY AboutKept
<1>2. c \in Chunks
  BY DEF History, ChunksFit
<1>a. i \in Nat /\ i >= 1
  BY OutboxAssumption DEF Ids
<1>3. /\ i \in Nat /\ i >= 1 /\ remote.points[c].revision \in Nat
      /\ remote \in [present : BOOLEAN, points : [Chunks -> Point]]
  BY <1>2, <1>a, StoreTypes
<1>4. CASE UNCHANGED remote
  <2>1. CASE Gone
    BY <1>4, <2>1, GoneSteps DEF Took
  <2>2. CASE ~Gone
    BY <1>1, <1>4, <2>2 DEF Took
  <2> QED
    BY <2>1, <2>2
<1>5. ASSUME NEW p \in Preparers, PrepareLands(p) PROVE Took(i)'
  <2>1. remote.present
    BY <1>5 DEF PrepareLands, Took, Gone
  <2>2. remote'.points = remote.points /\ remote'.present
    BY <1>3, <1>5 DEF PrepareLands
  <2> QED
    BY <1>1, <2>1, <2>2 DEF Took, Gone
<1>6. ASSUME NEW j \in Ids, Apply(j), j <= lastId, journal[j].op = "delete_generation" => creating = {},
             UNCHANGED <<journal, lastId, generation, creating, rows>>
      PROVE  Took(i)'
  <2>1. CASE journal[j].op = "delete_generation"
    <3>1. generation' = "deleted" /\ creating' = {}
      BY <1>6, <2>1 DEF Keys, ErasureIsLast
    <3>2. ~remote'.present
      BY <1>6, <2>1, OtherEffects
    <3> QED
      BY <3>1, <3>2 DEF Took, Gone
  <2>2. CASE journal[j].op \in PointOps /\ ~remote.present
    BY <1>6, <2>2, OtherEffects DEF Took, Gone
  <2>3. CASE journal[j].op \in PointOps /\ remote.present
    <3> DEFINE new == [revision |-> j, deleted |-> journal[j].op = "delete_chunk"]
    <3>1. /\ remote.points[c].revision >= i
          /\ journal[i].op = "delete_chunk" => remote.points[c].deleted
      BY <2>3 DEF Took, Gone
    <3>2. remote'.present
      BY <1>6, <2>3, WriteEffect
    <3>3. CASE remote'.points[c] = remote.points[c]
      BY <1>1, <3>1, <3>2, <3>3 DEF Took
    <3>4. CASE remote'.points[c] # remote.points[c]
      <4>1. journal[j].chunk = c
        <5>1. \A d \in Chunks \ {journal[j].chunk} : remote'.points[d] = remote.points[d]
          BY <1>6, <2>3, WriteEffect
        <5> QED
          BY <1>2, <3>4, <5>1
      <4>2. /\ remote'.points[c] = new
            /\ remote.points[c].revision <= j
            /\ remote.points[c].deleted => new.deleted
        BY <1>6, <2>3, <3>4, <4>1, WriteEffect
      <4>3. remote'.points[c].revision = j /\ (remote.points[c].deleted => remote'.points[c].deleted)
        BY <4>2
      <4>4. remote'.points[c].revision >= i
        BY <1>3, <3>1, <4>2, <4>3, StoreTypes
      <4>5. journal[i].op = "delete_chunk" => remote'.points[c].deleted
        BY <3>1, <4>3
      <4> QED
        BY <1>1, <3>2, <4>4, <4>5 DEF Took
    <3> QED
      BY <3>3, <3>4
  <2> QED
    BY <1>6, <2>1, <2>2, <2>3, OtherEffects
<1> QED
  BY <1>4, <1>5, <1>6, StepsOfStore

(* A reply of a store that is there means that the request took effect.      *)
LEMMA ReplyTakes ==
    ASSUME Typed, Keys, History, Store, NEW w \in PointWorkers, Reply(w)
    PROVE  Took(worker[w].id)'
<1>1. PICK i \in Ids : i = worker[w].id /\ i <= lastId /\ journal[i].op \in PointOps
  BY DEF Reply, Typed, Busy, Keys, ClaimFits, Workers, ClaimsOf
<1>2. remote.present /\ Apply(i) /\ journal' = journal /\ worker'[w].id = i
  BY <1>1 DEF Reply, outboxVars, Become, Typed, TypeOK, Local, Workers
<1> DEFINE c == journal[i].chunk
           old == remote.points[c]
           new == [revision |-> i, deleted |-> journal[i].op = "delete_chunk"]
<1>3. remote'.present /\ c \in Chunks
  BY <1>1, <1>2, WriteEffect
<1>4. i \in Nat /\ old.revision \in Nat
  BY <1>1, <1>3, StoreTypes
<1>5. /\ remote'.points[c].revision >= i
      /\ journal[i].op = "delete_chunk" => remote'.points[c].deleted
  <2>1. CASE remote'.points[c] = new
    <3>1. remote'.points[c].revision = i /\ remote'.points[c].deleted = (journal[i].op = "delete_chunk")
      BY <2>1
    <3>2. remote'.points[c].revision >= i
      BY <1>4, <3>1
    <3>3. journal[i].op = "delete_chunk" => remote'.points[c].deleted
      BY <3>1
    <3> QED
      BY <3>2, <3>3
  <2>2. CASE remote'.points = remote.points /\ old.revision > i /\ (journal[i].op = "delete_chunk" => old.deleted)
    BY <1>4, <2>2
  <2> QED
    BY <1>1, <1>2, <2>1, <2>2, WriteEffect
<1>6. Took(i)'
  BY <1>2, <1>3, <1>5 DEF Took
<1> QED
  BY <1>1, <1>2, <1>6 DEF Took

(* Who has just been answered.                                               *)
LEMMA NewReplies ==
    ASSUME Typed, [Next]_vars, NEW w \in Workers, worker'[w].phase = "replied"
    PROVE  worker'[w] = worker[w] \/ (Reply(w) /\ worker'[w].id = worker[w].id)
<1>1. worker \in [Workers -> Local]
  BY DEF Typed, TypeOK
<1>2. ASSUME worker'[w] # worker[w] PROVE Reply(w)
  <2>1. PICK v \in Workers : WorkerStep(v) \/ WorkerFails(v) \/ WorkerDies(v)
    BY <1>2 DEF Next, vars, Lifecycle, Create, Binding, BindLock, BindTarget,
       BindRollsBack, Erasing, EraseLock, EraseRead, EraseRollsBack,
       FailBuilding, Activate, Retire, Mutation, PutChunk, DeleteChunk,
       BlockOwner, EraseAccount, Prepare, PrepareArm, PrepareLands, PrepareLost,
       Environment, LateApply, LateLost, GraceElapses, restVars, SetFlags
  <2>2. v = w
    BY <1>1, <1>2, <2>1 DEF WorkerStep, WorkerFails, WorkerDies, Select, ClaimCas,
       Reply, PointStep, PointArm, PointSupersede, PointStale, PointAck, EraseStep,
       EraseDefer, EraseArm, EraseAck, Become, GoIdle
  <2>3. ~GoIdle(w)
    BY <1>1 DEF GoIdle, Idle
  <2>4. ~(\E i \in Ids : Select(w, i))
    <3>1. ASSUME NEW i \in Ids, Select(w, i) PROVE worker'[w].phase = "selected"
      BY <1>1, <3>1 DEF Select
    <3> QED
      BY <3>1
  <2>5. ~ClaimCas(w)
    <3>1. ASSUME ClaimCas(w) PROVE worker'[w].phase = "claimed"
      BY <1>1, <2>3, <3>1 DEF ClaimCas
    <3> QED
      BY <3>1
  <2>6. ~(PointArm(w) \/ EraseArm(w))
    <3>1. ASSUME PointArm(w) \/ EraseArm(w) PROVE worker'[w].phase = "armed"
      BY <1>1, <3>1 DEF PointArm, EraseArm, Become, Local
    <3> QED
      BY <3>1
  <2> QED
    BY <2>1, <2>2, <2>3, <2>4, <2>5, <2>6 DEF WorkerStep, WorkerFails, WorkerDies,
       PointStep, PointSupersede, PointStale, PointAck, EraseStep, EraseDefer, EraseAck
<1>3. ASSUME Reply(w) PROVE worker'[w].id = worker[w].id
  BY <1>1, <1>3 DEF Reply, Become, Local
<1> QED
  BY <1>2, <1>3

(* Every step keeps acknowledgements true.                                   *)
LEMMA AcknowledgedStep ==
    ASSUME Typed, Keys, Final, Held, History, Store, Acknowledged, [Next]_vars
    PROVE  Acknowledged'
<1>1. /\ lastId \in Nat /\ lastId' \in Nat /\ Ids \subseteq Nat /\ lastId <= lastId'
      /\ journal \in [Ids -> Event] /\ rows \in [Chunks -> Row]
  BY StoreTypes, TypedStep, Bounds, FreshStep, StepsOfJournal DEF Typed, TypeOK,
     OutboxTypeOK
<1>2. RepliesTook'
  <2> SUFFICES ASSUME NEW w \in PointWorkers, worker'[w].phase = "replied"
               PROVE  Took(worker[w].id)' /\ worker'[w].id = worker[w].id
    BY DEF RepliesTook, Took
  <2>1. w \in Workers
    BY DEF Workers
  <2>2. CASE Reply(w) /\ worker'[w].id = worker[w].id
    BY <2>2, ReplyTakes
  <2>3. CASE worker'[w] = worker[w]
    <3>1. worker[w].id \in Ids /\ worker[w].id <= lastId /\ journal[worker[w].id].op \in PointOps
      BY <2>1, <2>3 DEF Typed, Busy, Keys, ClaimFits, ClaimsOf
    <3>2. Took(worker[w].id)
      BY <2>3 DEF Acknowledged, RepliesTook
    <3> QED
      BY <2>3, <3>1, <3>2, TookStep DEF Took
  <2> QED
    BY <2>1, <2>2, <2>3, NewReplies
<1>3. DeliveredTook'
  <2> SUFFICES ASSUME NEW i \in Ids, journal'[i].op \in PointOps, journal'[i].state = "delivered"
               PROVE  Took(i)'
    BY DEF DeliveredTook
  <2>1. i <= lastId
    BY <1>1, NewRows
  <2>2. journal[i].op \in PointOps
    BY <2>1, AboutKept
  <2>3. CASE journal[i].state = "delivered"
    BY <2>1, <2>2, <2>3, TookStep DEF Acknowledged, DeliveredTook
  <2>4. CASE journal[i].state # "delivered"
    <3>1. PICK w \in Workers : worker[w] = [phase |-> "replied", id |-> i, seen |-> NothingSeen]
      BY <2>4, AckStep
    <3>2. w \in PointWorkers
      BY <2>2, <3>1 DEF Keys, ClaimFits, ClaimsOf, PointOps
    <3> QED
      BY <2>1, <2>2, <3>1, <3>2, TookStep DEF Acknowledged, RepliesTook
  <2> QED
    BY <2>3, <2>4
<1>4. RowsTook'
  <2> SUFFICES ASSUME NEW c \in Chunks, rows'[c].state = "delivered"
               PROVE  \E r \in Ids : /\ r = rows'[c].revision
                                     /\ r <= lastId' /\ journal'[r].op = "upsert" /\ journal'[r].chunk = c
                                     /\ Took(r)'
    BY DEF RowsTook, Took
  <2>1. ASSUME NEW r \in Ids, r <= lastId, journal[r].op = "upsert", journal[r].chunk = c, Took(r)
        PROVE  r <= lastId' /\ journal'[r].op = "upsert" /\ journal'[r].chunk = c /\ Took(r)'
    BY <1>1, <2>1, AboutKept, TookStep DEF PointOps
  <2>2. CASE rows'[c] = rows[c]
    <3>1. PICK r \in Ids : /\ r = rows[c].revision
                           /\ r <= lastId /\ journal[r].op = "upsert" /\ journal[r].chunk = c /\ Took(r)
      BY <2>2 DEF Acknowledged, RowsTook
    <3> QED
      BY <2>1, <2>2, <3>1
  <2>3. CASE rows'[c] # rows[c]
    <3>1. PICK w \in PointWorkers : PointAck(w)
      <4>1. ~EraseAccount
        BY ErasureWrites
      <4>2. ASSUME NEW d \in Chunks, PutChunk(d) \/ DeleteChunk(d) PROVE FALSE
        <5>1. rows'[d].state \in {"pending", "gone"} /\ (d # c => rows'[c] = rows[c])
          BY <1>1, <4>2 DEF PutChunk, DeleteChunk, Row
        <5> QED
          BY <2>3, <5>1
      <4> QED
        BY <2>3, <4>1, <4>2, StepsOfRows
    <3>2. /\ journal[worker[w].id].op = "upsert" /\ journal[worker[w].id].chunk = c
          /\ rows[c].revision = worker[w].id /\ worker[w].phase = "replied"
          /\ rows'[c].revision = rows[c].revision
      BY <2>3, <3>1, AckRows
    <3>3. PICK r \in Ids : r = worker[w].id /\ r <= lastId
      BY <3>2 DEF Typed, Busy, Keys, ClaimFits, Workers
    <3>4. Took(r)
      BY <3>2, <3>3 DEF Acknowledged, RepliesTook
    <3> QED
      BY <2>1, <3>2, <3>3, <3>4
  <2> QED
    BY <2>2, <2>3
<1> QED
  BY <1>2, <1>3, <1>4 DEF Acknowledged

Acks == Typed /\ Keys /\ Final /\ Held /\ History /\ Store /\ Acknowledged

(* All of it holds at first and in every step. *)
LEMMA AcksHold == Spec => []Acks
<1>1. Init => Acks
  BY TypedInit, KeysInit, FinalInit, HeldInit, HistoryInit, StoreInit, AcknowledgedInit
     DEF Acks
<1>2. Acks /\ [Next]_vars => Acks'
  BY TypedStep, KeysStep, FinalKept, HeldStep, HistoryStep, StoreStep, AcknowledgedStep
     DEF Acks
<1> QED
  BY <1>1, <1>2, PTL DEF Spec

(* A deletion that was acknowledged is in the store, whichever older upload   *)
(* arrives after it: late, repeated or sent by a worker that lost its lease.  *)
THEOREM DeletionsStay == Spec => []DeletedChunkNotServed
<1>1. Acks => DeletedChunkNotServed
  BY DEF Acks, Acknowledged, DeliveredTook, Took, Gone, DeletedChunkNotServed, PointOps
<1> QED
  BY <1>1, AcksHold, PTL

(* A row is marked "delivered" only for the very point the store serves: not  *)
(* for an older revision, a tombstone, or a store that is gone.              *)
THEOREM DeliveredRowsAreServed == Spec => []DeliveredIsServed
<1>1. ASSUME Acks, NEW c \in Chunks, rows[c].state = "delivered"
      PROVE  /\ remote.present
             /\ remote.points[c] = [revision |-> rows[c].revision, deleted |-> FALSE]
  <2>1. PICK i \in Ids : /\ i = rows[c].revision
                         /\ i <= lastId /\ journal[i].op = "upsert" /\ journal[i].chunk = c /\ Took(i)
    BY <1>1 DEF Acks, Acknowledged, RowsTook
  <2>2. generation # "deleted"
    BY <1>1 DEF Acks, History, RowsDie, HasRow
  <2>3. remote.present /\ remote.points[c].revision >= i
    BY <2>1, <2>2 DEF Took, Gone
  <2>a. i \in Nat /\ i >= 1
    BY OutboxAssumption DEF Ids
  <2>4. i >= 1 /\ i \in Nat /\ remote.points[c].revision \in Nat /\ NoPoint.revision = 0
    BY <1>1, <2>a, StoreTypes DEF Acks
  <2>5. PICK r \in Ids : /\ r = remote.points[c].revision /\ r <= lastId
                         /\ journal[r].chunk = c /\ journal[r].op \in PointOps
                         /\ remote.points[c].deleted <=> journal[r].op = "delete_chunk"
    <3>1. remote.points[c] # NoPoint
      BY <2>3, <2>4
    <3> QED
      BY <1>1, <3>1 DEF Acks, Store, PointsKnown
  <2>6. journal[r].op = "upsert"
    BY <1>1, <2>5 DEF Acks, History, WithdrawnIsGone, PointOps
  <2>7. r <= i
    BY <1>1, <2>1, <2>5, <2>6 DEF Acks, History, UploadsFollow
  <2>8. remote.points[c].revision = i /\ ~remote.points[c].deleted
    BY <2>3, <2>4, <2>5, <2>6, <2>7
  <2> QED
    BY <1>1, <2>1, <2>3, <2>8, StoreTypes DEF Acks
<1>2. Acks => DeliveredIsServed
  BY <1>1 DEF DeliveredIsServed
<1> QED
  BY <1>2, AcksHold, PTL

=============================================================================
