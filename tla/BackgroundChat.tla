--------------------------- MODULE BackgroundChat ---------------------------
(***************************************************************************)
(* Chat requests that outlive the browser tab: the per-user queue          *)
(* (lib/Service/BackgroundChatQueue.php), the timed job that drains it      *)
(* (lib/BackgroundJob/BackgroundChatJob.php) and the requests that reach it *)
(* through BackgroundChatController.                                        *)
(*                                                                         *)
(* Every operation on one user's queue holds that user's lock and is one    *)
(* step.  The list of users with work is read and rewritten by the job      *)
(* without the lock that guards its other writers, in three steps.  When a   *)
(* delay (availableAt) is over is left to the scheduler, and so is which of  *)
(* the two ways to stop a run its deadline chooses.  A claim older than ten  *)
(* minutes is "stale".                                                      *)
(***************************************************************************)
EXTENDS Integers, FiniteSets

CONSTANTS
    Users,
    Items,            \* requests, numbered in the order in which they arrive
    UserOf,           \* the user who sends each request
    Workers,          \* processes running the job
    MaxItems,         \* BackgroundChatQueue::MAX_ITEMS
    MaxAttempts,      \* attempts after which a failure is terminal (3)
    MaxClaims         \* bound on the claims of one item

ASSUME ChatAssumption ==
    /\ Items \subseteq Nat
    /\ IsFiniteSet(Items)
    /\ UserOf \in [Items -> Users]
    /\ MaxItems \in Nat \ {0}
    /\ MaxAttempts \in Nat \ {0}
    /\ MaxClaims \in Nat

VARIABLES
    queue,     \* user value background_chat_queue, by item
    history,   \* user value background_chat_history: completed items
    answers,   \* how often each item's answer was appended to its chat
    index,     \* app value background_chat_users
    unlisted,  \* items whose request has not reached rememberUser() yet
    erased,    \* users whose account data was deleted
    worker,    \* control state of the job's processes
    notices,   \* whether the notice of a run that timed out may fail to be
               \* sent; chosen once, for the whole behaviour
    requeued   \* items whose user asked for a retry while a process worked on
               \* them (kept for the properties, never read by an action)

vars == <<queue, history, answers, index, unlisted, erased, worker, notices, requeued>>

Open     == {"pending", "running", "paused"}
Statuses == Open \cup {"absent", "failed", "cancelled", "gone"}
Phases   == {"idle", "listed", "counted", "drain", "run", "answered", "timedout"}
NoItem   == -1

Absent == [status |-> "absent", attempts |-> 0, cancel |-> FALSE, stale |-> FALSE]
Idle   == [phase |-> "idle", seen |-> {}, todo |-> {}, item |-> NoItem]

Runs(w) == worker[w].phase \in {"run", "answered", "timedout"}

TypeOK ==
    /\ queue \in [Items -> [status : Statuses, attempts : 0..MaxClaims, cancel : BOOLEAN,
                            stale : BOOLEAN]]
    /\ history \subseteq Items
    /\ answers \in [Items -> Nat]
    /\ index \subseteq Users
    /\ unlisted \subseteq Items
    /\ erased \subseteq Users
    /\ worker \in [Workers -> [phase : Phases, seen : SUBSET Users, todo : SUBSET Users,
                               item : Items \cup {NoItem}]]
    /\ \A w \in Workers : worker[w].item # NoItem <=> Runs(w)
    /\ notices \in {"sent", "fail"}
    /\ requeued \subseteq Items

Init ==
    /\ queue = [i \in Items |-> Absent]
    /\ history = {}
    /\ answers = [i \in Items |-> 0]
    /\ index = {}
    /\ unlisted = {}
    /\ erased = {}
    /\ worker = [w \in Workers |-> Idle]
    /\ notices \in {"sent", "fail"}
    /\ requeued = {}

ItemsOf(u)   == {i \in Items : UserOf[i] = u}
InQueue(i)   == queue[i].status \notin {"absent", "gone"}
HasActive(u) == \E i \in ItemsOf(u) : queue[i].status \in Open

-----------------------------------------------------------------------------
(* Requests of the user. *)

(* Old failures and cancellations are collected by time, which frees no slot  *)
(* of the active ones; an identical request that is still open is answered    *)
(* with the open one and changes nothing.                                     *)
Enqueue(i) ==
    LET u == UserOf[i]
    IN  /\ queue[i].status = "absent"
        /\ \A j \in ItemsOf(u) : j < i => queue[j].status # "absent"
        /\ u \notin erased
        /\ Cardinality({j \in ItemsOf(u) : queue[j].status \in Open}) < MaxItems
        /\ queue' = [queue EXCEPT ![i].status = "pending"]
        /\ unlisted' = unlisted \cup {i}
        /\ UNCHANGED <<history, answers, index, erased, worker, notices, requeued>>

(* rememberUser(), still inside the request.                                  *)
Remember(i) ==
    /\ i \in unlisted
    /\ index' = index \cup {UserOf[i]}
    /\ unlisted' = unlisted \ {i}
    /\ UNCHANGED <<queue, history, answers, erased, worker, notices, requeued>>

Cancel(i) ==
    /\ InQueue(i)
    /\ queue' = IF queue[i].status = "running"
                THEN [queue EXCEPT ![i].cancel = TRUE]
                ELSE [queue EXCEPT ![i].status = "cancelled"]
    /\ UNCHANGED <<history, answers, index, unlisted, erased, worker, notices, requeued>>

Pause(i) ==
    /\ queue[i].status = "pending"
    /\ queue' = [queue EXCEPT ![i].status = "paused"]
    /\ UNCHANGED <<history, answers, index, unlisted, erased, worker, notices, requeued>>

Resume(i) ==
    /\ queue[i].status = "paused"
    /\ queue' = [queue EXCEPT ![i].status = "pending"]
    /\ UNCHANGED <<history, answers, index, unlisted, erased, worker, notices, requeued>>

(* Slip: a retry always goes back to the queue. *)
RetriedForEver(i) ==
    IF ~InQueue(i) THEN queue
    ELSE [queue EXCEPT ![i].status = "pending"]

(* retry(), for users and workers alike: it does not look at the status.      *)
Retried(i) ==
    IF ~InQueue(i) THEN queue
    ELSE IF queue[i].attempts >= MaxAttempts
         THEN [queue EXCEPT ![i].status = "failed"]
         ELSE [queue EXCEPT ![i].status = "pending"]

UserRetry(i) ==
    /\ InQueue(i)
    /\ queue' = Retried(i)
    /\ requeued' = IF queue[i].status = "running" /\ (\E w \in Workers : worker[w].item = i)
                   THEN requeued \cup {i} ELSE requeued
    /\ UNCHANGED <<history, answers, index, unlisted, erased, worker, notices>>

(* Account cleanup: the queue first, the index after it.                      *)
EraseQueue(u) ==
    /\ u \notin erased
    /\ \A i \in unlisted : UserOf[i] # u
    /\ queue' = [i \in Items |-> IF UserOf[i] = u THEN [Absent EXCEPT !.status = "gone"] ELSE queue[i]]
    /\ history' = history \ ItemsOf(u)
    /\ erased' = erased \cup {u}
    /\ UNCHANGED <<answers, index, unlisted, worker, notices, requeued>>

EraseIndex(u) ==
    /\ u \in erased
    /\ u \in index
    /\ index' = index \ {u}
    /\ UNCHANGED <<queue, history, answers, unlisted, erased, worker, notices, requeued>>

-----------------------------------------------------------------------------
(* The job. *)

Become(w, p) == worker' = [worker EXCEPT ![w].phase = p]

(* Slip: the job goes on with the item of its last user. *)
DrainKeepingItem(w) == worker' = [worker EXCEPT ![w].phase = "drain"]

Drain(w) == worker' = [worker EXCEPT ![w].phase = "drain", ![w].item = NoItem]

(* users(): read the index, look into the queues, write the index back.       *)
ListUsers(w) ==
    /\ worker[w].phase = "idle"
    /\ worker' = [worker EXCEPT ![w].phase = "listed", ![w].seen = index]
    /\ UNCHANGED <<queue, history, answers, index, unlisted, erased, notices, requeued>>

CountActive(w) ==
    /\ worker[w].phase = "listed"
    /\ worker' = [worker EXCEPT ![w].phase = "counted",
                                ![w].todo = {u \in worker[w].seen : HasActive(u)}]
    /\ UNCHANGED <<queue, history, answers, index, unlisted, erased, notices, requeued>>

StoreActive(w) ==
    /\ worker[w].phase = "counted"
    /\ index' = IF worker[w].todo # worker[w].seen THEN worker[w].todo ELSE index
    /\ worker' = [worker EXCEPT ![w].phase = "drain", ![w].seen = {}]
    /\ UNCHANGED <<queue, history, answers, unlisted, erased, notices, requeued>>

Stale(i)     == queue[i].status = "running" /\ queue[i].stale

(* Slip: a running item may be claimed before its claim is stale. *)
ClaimableEarly(i) ==
    /\ queue[i].status \in {"pending", "running"}
    /\ ~queue[i].cancel
    /\ queue[i].attempts < MaxClaims

Claimable(i) ==
    /\ queue[i].status = "pending" \/ Stale(i)
    /\ ~queue[i].cancel
    /\ queue[i].attempts < MaxClaims

(* An abandoned item whose user asked for its cancellation is finalised by a   *)
(* claim that comes by.  Another abandoned item is due and not passed over;    *)
(* the delay of one that is pending may still run.                            *)
Buried(i)     == Stale(i) /\ queue[i].cancel
PassedOver(i) == ~(Stale(i) /\ Claimable(i))

Take(w, i) ==
    LET before == {j \in ItemsOf(UserOf[i]) : j < i}
    IN  /\ worker[w].phase = "drain"
        /\ UserOf[i] \in worker[w].todo
        /\ Claimable(i)
        /\ \A j \in before : PassedOver(j)
        /\ queue' = [j \in Items |->
               IF j = i THEN [queue[i] EXCEPT !.status = "running", !.stale = FALSE, !.attempts = @ + 1]
               ELSE IF j \in before /\ Buried(j) THEN [queue[j] EXCEPT !.status = "cancelled"]
               ELSE queue[j]]
        /\ worker' = [worker EXCEPT ![w].phase = "run", ![w].item = i,
                                    ![w].todo = @ \ {UserOf[i]}]
        /\ UNCHANGED <<history, answers, index, unlisted, erased, notices, requeued>>

TakeNone(w, u) ==
    /\ worker[w].phase = "drain"
    /\ u \in worker[w].todo
    /\ \A i \in ItemsOf(u) : PassedOver(i)
    /\ queue' = [i \in Items |-> IF i \in ItemsOf(u) /\ Buried(i)
                                 THEN [queue[i] EXCEPT !.status = "cancelled"] ELSE queue[i]]
    /\ worker' = [worker EXCEPT ![w].todo = @ \ {u}]
    /\ UNCHANGED <<history, answers, index, unlisted, erased, notices, requeued>>

(* Slip: the item is filed whether it is still in the queue or not. *)
CompletedAnyItem(i) ==
    /\ queue' = [queue EXCEPT ![i].status = "gone"]
    /\ history' = history \cup {i}

(* complete() removes the item, if it is still there, and files it.           *)
CompletedItem(i) ==
    IF InQueue(i)
    THEN /\ queue' = [queue EXCEPT ![i].status = "gone"]
         /\ history' = history \cup {i}
    ELSE UNCHANGED <<queue, history>>

TimedOut(i) ==
    IF queue[i].status = "running" THEN [queue EXCEPT ![i].status = "failed"] ELSE queue

(* The model answered; the answer goes to the chat before the queue knows.    *)
Answer(w) ==
    LET i == worker[w].item
    IN  /\ worker[w].phase = "run"
        /\ answers' = [answers EXCEPT ![i] = @ + 1]
        /\ Become(w, "answered")
        /\ UNCHANGED <<queue, history, index, unlisted, erased, notices, requeued>>

Finish(w) ==
    /\ worker[w].phase = "answered"
    /\ CompletedItem(worker[w].item)
    /\ Drain(w)
    /\ UNCHANGED <<answers, index, unlisted, erased, notices, requeued>>

(* The run saw that its deadline had passed, or the model service timed out.           *)
TimesOut(w) ==
    /\ worker[w].phase = "run"
    /\ queue' = TimedOut(worker[w].item)
    /\ Become(w, "timedout")
    /\ UNCHANGED <<history, answers, index, unlisted, erased, notices, requeued>>

Notified(w) ==
    /\ worker[w].phase = "timedout"
    /\ Drain(w)
    /\ UNCHANGED <<queue, history, answers, index, unlisted, erased, notices, requeued>>

(* The run saw the cancellation before its deadline.                          *)
Stops(w) ==
    LET i == worker[w].item
    IN  /\ worker[w].phase = "run"
        /\ InQueue(i)
        /\ queue[i].cancel \/ queue[i].status = "cancelled"
        /\ CompletedItem(i)
        /\ Drain(w)
        /\ UNCHANGED <<answers, index, unlisted, erased, notices, requeued>>

(* Any exception of the run or of a notification, also after the answer was   *)
(* appended.                                                                  *)
Fails(w) ==
    /\ Runs(w)
    /\ worker[w].phase = "timedout" => notices = "fail"
    /\ queue' = Retried(worker[w].item)
    /\ Drain(w)
    /\ UNCHANGED <<history, answers, index, unlisted, erased, notices, requeued>>

(* The budget is used up, every user was served, or the queue's lock was busy. *)
JobEnds(w) ==
    /\ worker[w].phase = "drain"
    /\ worker' = [worker EXCEPT ![w] = Idle]
    /\ UNCHANGED <<queue, history, answers, index, unlisted, erased, notices, requeued>>

Dies(w) ==
    /\ worker[w].phase # "idle"
    /\ worker' = [worker EXCEPT ![w] = Idle]
    /\ UNCHANGED <<queue, history, answers, index, unlisted, erased, notices, requeued>>

-----------------------------------------------------------------------------
(* Ten minutes pass.  A run ends at its deadline of five, so the worker that    *)
(* made the claim is gone by then.                                            *)

GoesStale(i) ==
    /\ queue[i].status = "running"
    /\ ~queue[i].stale
    /\ \A w \in Workers : worker[w].item # i
    /\ queue' = [queue EXCEPT ![i].stale = TRUE]
    /\ UNCHANGED <<history, answers, index, unlisted, erased, worker, notices, requeued>>

-----------------------------------------------------------------------------
Request(i) == Enqueue(i) \/ Remember(i) \/ Cancel(i) \/ Pause(i) \/ Resume(i) \/ UserRetry(i)
Job(w) ==
    \/ ListUsers(w) \/ CountActive(w) \/ StoreActive(w)
    \/ \E i \in Items : Take(w, i)
    \/ \E u \in Users : TakeNone(w, u)
    \/ Answer(w) \/ Finish(w) \/ TimesOut(w) \/ Notified(w) \/ Stops(w)
    \/ JobEnds(w)

Next ==
    \/ \E i \in Items : Request(i) \/ GoesStale(i)
    \/ \E u \in Users : EraseQueue(u) \/ EraseIndex(u)
    \/ \E w \in Workers : Job(w) \/ Fails(w) \/ Dies(w)

Spec == Init /\ [][Next]_vars

(* Cron starts the job again and again and it does not die every time before   *)
(* it has looked at every user it listed, a user's delays do not keep every   *)
(* job from finding work that is due, requests end and time passes.           *)
Fairness ==
    /\ \A w \in Workers : /\ WF_vars(Job(w))
                          /\ SF_vars(CountActive(w)) /\ SF_vars(StoreActive(w))
                          /\ \A u \in Users : SF_vars(\E i \in ItemsOf(u) : Take(w, i))
    /\ \A i \in Items : WF_vars(Remember(i)) /\ WF_vars(GoesStale(i))

LiveSpec == Spec /\ Fairness

-----------------------------------------------------------------------------
(* Properties. *)

Works(w) == worker[w].phase \in {"run", "answered"}

(* Two processes work on one request only if its user asked for a retry while  *)
(* one of them worked (retry() does not look at the status), or the notice of  *)
(* a timed-out run failed: nothing else, neither crashed claims nor pauses,    *)
(* cancellations and retries at any other time, brings it about.              *)
ExclusiveRun ==
    \A v, w \in Workers : notices = "sent" /\ v # w /\ Works(v) /\ Works(w)
        => worker[v].item # worker[w].item \/ worker[v].item \in requeued

(* A request that was completed is never answered again, with the same two     *)
(* exceptions: it is the second process that would answer it.                 *)
CompletedIsAnsweredOnce ==
    [][notices = "sent" => \A i \in history \ requeued : answers'[i] = answers[i]]_vars

(* The attempt limit is final: neither its user nor a worker that was late can *)
(* put a request back that failed for good.                                    *)
ExhaustedStaysFailed ==
    [][\A i \in Items : queue[i].status = "failed" /\ queue[i].attempts >= MaxAttempts
          => queue'[i].status \in {"failed", "cancelled", "gone"}]_vars

(* What account deletion removed stays removed, whatever the workers that      *)
(* were running at the time still report.                                      *)
ErasedStaysErased ==
    \A i \in Items : UserOf[i] \in erased => queue[i].status = "gone" /\ i \notin history

Queued(i) == queue[i].status = "pending" /\ ~queue[i].cancel

(* A queued request is not lost, nor is one that a retry queued again, unless  *)
(* its user asked for its cancellation: it is run, or ended by its user.       *)
QueuedIsServed ==
    \A i \in Items : Queued(i) ~> ~Queued(i)

=============================================================================
