---------------------------- MODULE VectorOutbox ----------------------------
(***************************************************************************)
(* The durable vector journal (lib/Db/VectorOutboxRepository.php): one SQL *)
(* row per intent that a worker must carry out on the remote vector store. *)
(*                                                                         *)
(* A row is claimed in two steps, a SELECT that remembers what it saw and a *)
(* compare-and-swap UPDATE that repeats it in its WHERE clause.  The 128-bit *)
(* lease token is modelled by the worker that drew it: a worker abandons    *)
(* one claim before it makes the next, so <<row, worker>> is as unique as   *)
(* <<row, token>>.  Time is what it does to a lease: "live" holds while     *)
(* lease_until lies in the future, and nothing but a new claim revives it.  *)
(* The back-off after a failure only delays a claim and is left out; the    *)
(* erasure grace, which ordering depends on, is the field "ready".          *)
(***************************************************************************)
EXTENDS Naturals

CONSTANTS
    MaxEvents,      \* bound on the number of journal rows ever allocated
    MaxAttempts,    \* VectorOutboxRepository::MAX_ATTEMPTS
    Chunks,         \* stable SQL chunk ids
    PointWorkers,   \* processes running VectorPointWorker
    ErasureWorkers, \* processes running VectorErasureWorker
    None            \* SQL NULL

ASSUME OutboxAssumption ==
    /\ MaxEvents \in Nat \ {0}
    /\ MaxAttempts \in Nat \ {0}
    /\ PointWorkers \cap ErasureWorkers = {}
    /\ None \notin PointWorkers \cup ErasureWorkers
    /\ None \notin Chunks

VARIABLES
    journal,  \* the table eva_ai_vec_outbox, by event id
    lastId    \* its auto-increment sequence; an id is also the revision

outboxVars == <<journal, lastId>>

-----------------------------------------------------------------------------
Workers == PointWorkers \cup ErasureWorkers
Ids     == 1..MaxEvents
PointOps == {"upsert", "delete_chunk"}
Ops      == PointOps \cup {"delete_generation"}
States   == {"none", "pending", "processing", "delivered", "dead", "superseded"}

Event == [op       : Ops,
          chunk    : Chunks \cup {None},
          state    : States,
          attempts : 0..MaxAttempts,
          token    : Workers \cup {None},
          live     : BOOLEAN,
          ready    : {"unset", "waiting", "passed"}]

NewEvent(op, c) ==
    [op |-> op, chunk |-> c, state |-> "pending", attempts |-> 0,
     token |-> None, live |-> FALSE, ready |-> "unset"]

(* A row that the sequence has not reached yet. *)
NoEvent == [NewEvent("upsert", None) EXCEPT !.state = "none"]

OutboxTypeOK ==
    /\ journal \in [Ids -> Event]
    /\ lastId \in 0..MaxEvents

OutboxInit ==
    /\ journal = [i \in Ids |-> NoEvent]
    /\ lastId = 0

-----------------------------------------------------------------------------
(* Slip: a claim that was lost with its worker is never found again. *)
ClaimableOnce(e) == e.state = "pending" /\ e.ready # "waiting"

(* What a row looks like to a claimant: claimed rows whose lease ran out    *)
(* compete with pending rows that are due.                                  *)
Claimable(e) ==
    \/ e.state = "pending" /\ e.ready # "waiting"
    \/ e.state = "processing" /\ ~e.live

ClaimsOf(w) == IF w \in PointWorkers THEN PointOps ELSE {"delete_generation"}

(* The columns repeated in the WHERE clause of the claiming UPDATE. *)
CasKey(e) == [state |-> e.state, attempts |-> e.attempts, token |-> e.token]

CasHolds(e, seen) ==
    /\ e.state = seen.state
    /\ e.attempts = seen.attempts
    /\ seen.state = "processing" => e.token = seen.token
    /\ Claimable(e)

(* Slip: one attempt more than the limit. *)
ExhaustedLate(e) == e.attempts > MaxAttempts

Exhausted(e) == e.attempts >= MaxAttempts

Claimed(e, w) ==
    [e EXCEPT !.state = "processing", !.attempts = e.attempts + 1,
              !.token = w, !.live = TRUE]

Released(e, state) ==
    [e EXCEPT !.state = state, !.token = None, !.live = FALSE]

(* Slip: the acknowledgement compares the state but not the token. *)
HoldsAnyToken(e, w) == e.state = "processing"

(* Token and state, as in complete() and failed(): no look at the deadline. *)
HoldsToken(e, w) == e.state = "processing" /\ e.token = w

(* ownsLease(): the deadline counts as well. *)
OwnsLease(e, w) == HoldsToken(e, w) /\ e.live

Completed(e) == Released(e, "delivered")

Failed(e, permanent) ==
    Released(e, IF permanent \/ Exhausted(e) THEN "dead" ELSE "pending")

(* Slip: account erasure supersedes every row of the generation. *)
SupersededAlways(e) == Released(e, "superseded")

Superseded(e) ==
    IF e.state \in {"pending", "processing", "dead"}
    THEN Released(e, "superseded") ELSE e

Deferred(e) == [Released(e, "pending") EXCEPT !.ready = "waiting"]

Retried(e) == [e EXCEPT !.state = "pending", !.attempts = 0, !.ready = "unset"]

HasGenerationErasure ==
    \E i \in Ids : /\ journal[i].op = "delete_generation"
                   /\ journal[i].state \in {"pending", "processing", "dead", "delivered"}

(* Time passes: a lease runs out. *)
LeaseExpires(i) ==
    /\ journal[i].state = "processing"
    /\ journal[i].live
    /\ journal' = [journal EXCEPT ![i].live = FALSE]
    /\ UNCHANGED lastId

(* An administrator requeues a dead letter. *)
RetryDead(i) ==
    /\ journal[i].state = "dead"
    /\ journal' = [journal EXCEPT ![i] = Retried(@)]
    /\ UNCHANGED lastId

=============================================================================
