----------------------- MODULE BackgroundChat_proofs ------------------------
(***************************************************************************)
(* Proofs about the background chat queue, for any number of requests,     *)
(* processes, attempts and claims: an erased item stays erased and an item *)
(* that ran out of attempts stays failed, whoever retries or cancels; and, *)
(* unless its user retried it while it ran or the notice of a timed-out    *)
(* run failed, one process runs a request and it was answered once when it *)
(* is completed.                                                           *)
(***************************************************************************)
EXTENDS BackgroundChat, TLAPS

(* The record of an item, and what a claim makes of the items: one may be     *)
(* claimed, others were abandoned and cancelled, the rest stay.              *)
Item == [status : Statuses, attempts : 0..MaxClaims, cancel : BOOLEAN, stale : BOOLEAN]

Swept(j) ==
    \/ queue'[j] = queue[j]
    \/ Stale(j) /\ queue'[j] = [queue[j] EXCEPT !.status = "cancelled"]

Taken(i) ==
    /\ Claimable(i)
    /\ queue[i].attempts < MaxClaims
    /\ queue'[i] = [queue[i] EXCEPT !.status = "running", !.stale = FALSE, !.attempts = @ + 1]

(* What claim() does for one user: it finds nothing, or takes an item.        *)
Claims(w, u) == TakeNone(w, u) \/ \E i \in ItemsOf(u) : Take(w, i)

LEMMA TakingClaims ==
    ASSUME NEW w \in Workers, NEW i \in Items, Take(w, i)
    PROVE  \E u \in Users : Claims(w, u)
<1>1. UserOf[i] \in Users /\ i \in ItemsOf(UserOf[i])
  BY ChatAssumption DEF ItemsOf
<1> QED
  BY <1>1 DEF Claims

(* A claim takes at most one item, and sweeps the others.                     *)
LEMMA ClaimTakesOne ==
    ASSUME TypeOK, NEW w \in Workers, NEW u \in Users, Claims(w, u)
    PROVE  /\ worker[w].phase = "drain"
           /\ DOMAIN queue' = Items
           /\ queue' = [j \in Items |-> queue'[j]]
           /\ UNCHANGED <<history, answers, index, unlisted, erased, notices, requeued>>
           /\ \/ /\ \A j \in Items : Swept(j)
                 /\ worker' = [worker EXCEPT ![w].todo = @ \ {u}]
              \/ \E i \in Items :
                    /\ Taken(i)
                    /\ \A j \in Items \ {i} : Swept(j)
                    /\ worker' = [worker EXCEPT ![w].phase = "run", ![w].item = i,
                                                ![w].todo = @ \ {u}]
<1>1. CASE TakeNone(w, u)
  BY <1>1 DEF TakeNone, Swept, Buried
<1>2. ASSUME NEW i \in ItemsOf(u), Take(w, i)
      PROVE  /\ worker[w].phase = "drain"
             /\ DOMAIN queue' = Items
             /\ queue' = [j \in Items |-> queue'[j]]
             /\ UNCHANGED <<history, answers, index, unlisted, erased, notices, requeued>>
             /\ i \in Items
             /\ Taken(i)
             /\ \A j \in Items \ {i} : Swept(j)
             /\ worker' = [worker EXCEPT ![w].phase = "run", ![w].item = i, ![w].todo = @ \ {u}]
  <2>1. i \in Items /\ UserOf[i] = u
    BY DEF ItemsOf
  <2> QED
    BY <1>2, <2>1 DEF Take, Taken, Swept, Buried, Claimable
<1> QED
  BY <1>1, <1>2 DEF Claims

(* Every step keeps the types. *)
LEMMA TypesKept ==
    ASSUME TypeOK, [Next]_vars
    PROVE  TypeOK'
<1>1. ASSUME NEW i \in Items, Enqueue(i)
     PROVE  TypeOK'
  BY <1>1, ChatAssumption DEF Enqueue, ItemsOf, TypeOK, Statuses, Open, Phases, NoItem, Runs
<1>2. ASSUME NEW i \in Items, Remember(i)
     PROVE  TypeOK'
  BY <1>2, ChatAssumption DEF Remember, TypeOK, Statuses, Open, Phases, NoItem, Runs
<1>3. ASSUME NEW i \in Items, Cancel(i)
     PROVE  TypeOK'
  BY ZenonT(60), <1>3, ChatAssumption DEF Cancel, InQueue, TypeOK, Statuses, Open, Phases, NoItem, Runs
<1>4. ASSUME NEW i \in Items, Pause(i)
     PROVE  TypeOK'
  BY <1>4, ChatAssumption DEF Pause, TypeOK, Statuses, Open, Phases, NoItem, Runs
<1>5. ASSUME NEW i \in Items, Resume(i)
     PROVE  TypeOK'
  BY <1>5, ChatAssumption DEF Resume, TypeOK, Statuses, Open, Phases, NoItem, Runs
<1>6. ASSUME NEW i \in Items, UserRetry(i)
     PROVE  TypeOK'
  BY <1>6, ChatAssumption DEF UserRetry, Retried, InQueue, TypeOK, Statuses, Open,
     Phases, NoItem, Runs
<1>7. ASSUME NEW i \in Items, GoesStale(i)
     PROVE  TypeOK'
  BY <1>7, ChatAssumption DEF GoesStale, TypeOK, Statuses, Open, Phases, NoItem, Runs
<1>8. ASSUME NEW u \in Users, EraseQueue(u)
     PROVE  TypeOK'
  <2>1. [Absent EXCEPT !.status = "gone"] \in Item
    <3>1. 0 \in 0..MaxClaims
      BY ChatAssumption
    <3> QED
      BY <3>1 DEF Absent, Item, Statuses
  <2>2. queue' \in [Items -> Item]
    BY <1>8, <2>1 DEF EraseQueue, TypeOK, Item
  <2> QED
    BY <1>8, <2>2 DEF EraseQueue, ItemsOf, TypeOK, Item, Runs
<1>9. ASSUME NEW u \in Users, EraseIndex(u)
     PROVE  TypeOK'
  BY <1>9, ChatAssumption DEF EraseIndex, TypeOK, Statuses, Open, Phases, NoItem, Runs
<1>10. ASSUME NEW w \in Workers, ListUsers(w)
     PROVE  TypeOK'
  BY ZenonT(60), <1>10, ChatAssumption DEF ListUsers, TypeOK, Statuses, Open, Phases, NoItem, Runs
<1>11. ASSUME NEW w \in Workers, CountActive(w)
     PROVE  TypeOK'
  BY ZenonT(60), <1>11, ChatAssumption DEF CountActive, TypeOK, Statuses, Open, Phases, NoItem, Runs
<1>12. ASSUME NEW w \in Workers, StoreActive(w)
     PROVE  TypeOK'
  BY ZenonT(60), <1>12, ChatAssumption DEF StoreActive, TypeOK, Statuses, Open, Phases, NoItem, Runs
<1>13. ASSUME NEW w \in Workers, NEW u \in Users, Claims(w, u)
     PROVE  TypeOK'
  <2>1. \A j \in Items : queue[j] \in Item
    BY DEF TypeOK, Item
  <2>2. \A j \in Items : Swept(j) => queue'[j] \in Item
    BY <2>1 DEF Swept, Item, Statuses
  <2>3. \A j \in Items : Taken(j) => queue'[j] \in Item
    <3>1. SUFFICES ASSUME NEW j \in Items, Taken(j)
                   PROVE  queue'[j] \in Item
      OBVIOUS
    <3>2. queue[j] \in Item
      BY <2>1
    <3>3. queue[j].attempts + 1 \in 0..MaxClaims
      BY <3>1, <3>2, ChatAssumption DEF Taken, Item
    <3>4. "running" \in Statuses
      BY DEF Statuses, Open
    <3> QED
      BY <3>1, <3>2, <3>3, <3>4 DEF Taken, Item
  <2>4. queue' \in [Items -> Item]
    BY <1>13, ClaimTakesOne, <2>2, <2>3
  <2>5. /\ worker' \in [Workers -> [phase : Phases, seen : SUBSET Users, todo : SUBSET Users,
                                    item : Items \cup {NoItem}]]
        /\ \A v \in Workers : worker'[v].item # NoItem
                                  <=> worker'[v].phase \in {"run", "answered", "timedout"}
    <3>1. CASE worker' = [worker EXCEPT ![w].todo = @ \ {u}]
      BY <3>1 DEF TypeOK, Runs
    <3>2. ASSUME NEW i \in Items, worker' = [worker EXCEPT ![w].phase = "run",
                                               ![w].item = i, ![w].todo = @ \ {u}]
          PROVE  /\ worker' \in [Workers -> [phase : Phases, seen : SUBSET Users,
                                             todo : SUBSET Users, item : Items \cup {NoItem}]]
                 /\ \A v \in Workers : worker'[v].item # NoItem
                        <=> worker'[v].phase \in {"run", "answered", "timedout"}
      <4>1. i # NoItem
        BY ChatAssumption DEF NoItem
      <4>2. "run" \in Phases
        BY DEF Phases
      <4>3. worker'[w] = [worker[w] EXCEPT !.phase = "run", !.todo = @ \ {u}, !.item = i]
        BY <3>2 DEF TypeOK
      <4>4. \A v \in Workers \ {w} : worker'[v] = worker[v]
        BY <3>2 DEF TypeOK
      <4> QED
        <5>1. worker[w] \in [phase : Phases, seen : SUBSET Users, todo : SUBSET Users,
                               item : Items \cup {NoItem}]
          BY DEF TypeOK
        <5>2. worker'[w] \in [phase : Phases, seen : SUBSET Users, todo : SUBSET Users,
                                item : Items \cup {NoItem}]
          BY <4>2, <4>3, <5>1
        <5>3. worker'[w].item # NoItem /\ worker'[w].phase = "run"
          BY <4>1, <4>3, <5>1
        <5> QED
          BY <3>2, <4>4, <5>2, <5>3 DEF TypeOK, Runs
    <3> QED
      BY <1>13, ClaimTakesOne, <3>1, <3>2
  <2> QED
    BY <1>13, ClaimTakesOne, <2>4, <2>5 DEF TypeOK, Item, Runs
<1>14. ASSUME NEW w \in Workers, Answer(w)
     PROVE  TypeOK'
  <2>1. worker[w].item \in Items
    BY <1>14 DEF Answer, TypeOK, Runs
  <2>2. answers' \in [Items -> Nat]
    BY <1>14, <2>1 DEF Answer, TypeOK
  <2>3. worker' \in [Workers -> [phase : Phases, seen : SUBSET Users, todo : SUBSET Users,
                                 item : Items \cup {NoItem}]]
        /\ \A v \in Workers : worker'[v].item # NoItem <=> worker'[v].phase \in {"run", "answered", "timedout"}
    BY <1>14 DEF Answer, Become, TypeOK, Runs, Phases
  <2> QED
    BY <1>14, <2>2, <2>3 DEF Answer, TypeOK, Runs
<1>15. ASSUME NEW w \in Workers, Finish(w)
     PROVE  TypeOK'
  BY <1>15, ChatAssumption DEF Finish, CompletedItem, InQueue, Drain, TypeOK, Statuses,
     Open, Phases, NoItem, Runs
<1>16. ASSUME NEW w \in Workers, TimesOut(w)
     PROVE  TypeOK'
  BY SMTT(40), <1>16, ChatAssumption DEF TimesOut, TimedOut, Become, TypeOK, Statuses, Open,
     Phases, NoItem, Runs
<1>17. ASSUME NEW w \in Workers, Notified(w)
     PROVE  TypeOK'
  BY <1>17, ChatAssumption DEF Notified, Drain, TypeOK, Statuses, Open, Phases, NoItem, Runs
<1>18. ASSUME NEW w \in Workers, Stops(w)
     PROVE  TypeOK'
  BY <1>18, ChatAssumption DEF Stops, CompletedItem, InQueue, Drain, TypeOK, Statuses,
     Open, Phases, NoItem, Runs
<1>19. ASSUME NEW w \in Workers, JobEnds(w)
     PROVE  TypeOK'
  BY <1>19, ChatAssumption DEF JobEnds, Idle, TypeOK, Statuses, Open, Phases, NoItem, Runs
<1>20. ASSUME NEW w \in Workers, Fails(w)
     PROVE  TypeOK'
  BY <1>20, ChatAssumption DEF Fails, Retried, InQueue, Drain, Runs, TypeOK, Statuses,
     Open, Phases, NoItem
<1>21. ASSUME NEW w \in Workers, Dies(w)
     PROVE  TypeOK'
  BY <1>21, ChatAssumption DEF Dies, Idle, TypeOK, Statuses, Open, Phases, NoItem, Runs
<1>22. CASE UNCHANGED vars
  BY <1>22, ChatAssumption DEF vars, TypeOK, Statuses, Open, Phases, NoItem, Runs
<1> QED
  BY <1>1, <1>2, <1>3, <1>4, <1>5, <1>6, <1>7, <1>8, <1>9, <1>10, <1>11,
     <1>12, <1>13, <1>14, <1>15, <1>16, <1>17, <1>18, <1>19, <1>20, <1>21, <1>22,
     TakingClaims
  DEF Next, Request, Job, Claims

(* What was erased stays so: no step takes an item out of "gone" or files it. *)
LEMMA ErasedKept ==
    ASSUME TypeOK, ErasedStaysErased, [Next]_vars
    PROVE  ErasedStaysErased'
<1>1. ASSUME NEW i \in Items, Enqueue(i)
     PROVE  ErasedStaysErased'
  BY <1>1, ChatAssumption DEF Enqueue, ItemsOf, ErasedStaysErased, InQueue, TypeOK, Runs
<1>2. ASSUME NEW i \in Items, Remember(i)
     PROVE  ErasedStaysErased'
  BY <1>2, ChatAssumption DEF Remember, ErasedStaysErased, InQueue, TypeOK, Runs
<1>3. ASSUME NEW i \in Items, Cancel(i)
     PROVE  ErasedStaysErased'
  BY <1>3, ChatAssumption DEF Cancel, InQueue, ErasedStaysErased, TypeOK, Runs
<1>4. ASSUME NEW i \in Items, Pause(i)
     PROVE  ErasedStaysErased'
  BY <1>4, ChatAssumption DEF Pause, ErasedStaysErased, InQueue, TypeOK, Runs
<1>5. ASSUME NEW i \in Items, Resume(i)
     PROVE  ErasedStaysErased'
  BY <1>5, ChatAssumption DEF Resume, ErasedStaysErased, InQueue, TypeOK, Runs
<1>6. ASSUME NEW i \in Items, UserRetry(i)
     PROVE  ErasedStaysErased'
  BY <1>6, ChatAssumption DEF UserRetry, Retried, InQueue, ErasedStaysErased, TypeOK, Runs
<1>7. ASSUME NEW i \in Items, GoesStale(i)
     PROVE  ErasedStaysErased'
  BY <1>7, ChatAssumption DEF GoesStale, ErasedStaysErased, InQueue, TypeOK, Runs
<1>8. ASSUME NEW u \in Users, EraseQueue(u)
     PROVE  ErasedStaysErased'
  BY <1>8, ChatAssumption DEF EraseQueue, Absent, ItemsOf, ErasedStaysErased, InQueue,
     TypeOK, Runs
<1>9. ASSUME NEW u \in Users, EraseIndex(u)
     PROVE  ErasedStaysErased'
  BY <1>9, ChatAssumption DEF EraseIndex, ErasedStaysErased, InQueue, TypeOK, Runs
<1>10. ASSUME NEW w \in Workers, ListUsers(w)
     PROVE  ErasedStaysErased'
  BY <1>10, ChatAssumption DEF ListUsers, ErasedStaysErased, InQueue, TypeOK, Runs
<1>11. ASSUME NEW w \in Workers, CountActive(w)
     PROVE  ErasedStaysErased'
  BY <1>11, ChatAssumption DEF CountActive, ErasedStaysErased, InQueue, TypeOK, Runs
<1>12. ASSUME NEW w \in Workers, StoreActive(w)
     PROVE  ErasedStaysErased'
  BY <1>12, ChatAssumption DEF StoreActive, ErasedStaysErased, InQueue, TypeOK, Runs
<1>13. ASSUME NEW w \in Workers, NEW u \in Users, Claims(w, u)
     PROVE  ErasedStaysErased'
  <2>1. \A i \in Items : queue[i].status = "gone" => queue'[i] = queue[i]
    BY <1>13, ClaimTakesOne DEF Swept, Taken, Stale, Claimable
  <2> QED
    BY <1>13, ClaimTakesOne, <2>1 DEF ErasedStaysErased
<1>14. ASSUME NEW w \in Workers, Answer(w)
     PROVE  ErasedStaysErased'
  BY <1>14, ChatAssumption DEF Answer, Become, ErasedStaysErased, InQueue, TypeOK, Runs
<1>15. ASSUME NEW w \in Workers, Finish(w)
     PROVE  ErasedStaysErased'
  BY <1>15, ChatAssumption DEF Finish, CompletedItem, InQueue, Drain, ErasedStaysErased,
     TypeOK, Runs
<1>16. ASSUME NEW w \in Workers, TimesOut(w)
     PROVE  ErasedStaysErased'
  BY <1>16, ChatAssumption DEF TimesOut, TimedOut, Become, ErasedStaysErased, InQueue,
     TypeOK, Runs
<1>17. ASSUME NEW w \in Workers, Notified(w)
     PROVE  ErasedStaysErased'
  BY <1>17, ChatAssumption DEF Notified, Drain, ErasedStaysErased, InQueue, TypeOK, Runs
<1>18. ASSUME NEW w \in Workers, Stops(w)
     PROVE  ErasedStaysErased'
  BY <1>18, ChatAssumption DEF Stops, CompletedItem, InQueue, Drain, ErasedStaysErased,
     TypeOK, Runs
<1>19. ASSUME NEW w \in Workers, JobEnds(w)
     PROVE  ErasedStaysErased'
  BY <1>19, ChatAssumption DEF JobEnds, Idle, ErasedStaysErased, InQueue, TypeOK, Runs
<1>20. ASSUME NEW w \in Workers, Fails(w)
     PROVE  ErasedStaysErased'
  BY <1>20, ChatAssumption DEF Fails, Retried, InQueue, Drain, Runs, ErasedStaysErased,
     TypeOK
<1>21. ASSUME NEW w \in Workers, Dies(w)
     PROVE  ErasedStaysErased'
  BY <1>21, ChatAssumption DEF Dies, Idle, ErasedStaysErased, InQueue, TypeOK, Runs
<1>22. CASE UNCHANGED vars
  BY <1>22, ChatAssumption DEF vars, ErasedStaysErased, InQueue, TypeOK, Runs
<1> QED
  BY <1>1, <1>2, <1>3, <1>4, <1>5, <1>6, <1>7, <1>8, <1>9, <1>10, <1>11,
     <1>12, <1>13, <1>14, <1>15, <1>16, <1>17, <1>18, <1>19, <1>20, <1>21, <1>22,
     TakingClaims
  DEF Next, Request, Job, Claims

(* Completed requests have left the queue. *)
FiledIsGone == \A i \in history : queue[i].status = "gone"

(* A completed request does not come back into the queue. *)
LEMMA FiledKept ==
    ASSUME TypeOK, FiledIsGone, [Next]_vars
    PROVE  FiledIsGone'
<1>1. ASSUME NEW i \in Items, Enqueue(i)
     PROVE  FiledIsGone'
  BY <1>1, ChatAssumption DEF Enqueue, ItemsOf, FiledIsGone, InQueue, TypeOK, Runs
<1>2. ASSUME NEW i \in Items, Remember(i)
     PROVE  FiledIsGone'
  BY <1>2, ChatAssumption DEF Remember, FiledIsGone, InQueue, TypeOK, Runs
<1>3. ASSUME NEW i \in Items, Cancel(i)
     PROVE  FiledIsGone'
  BY <1>3, ChatAssumption DEF Cancel, InQueue, FiledIsGone, TypeOK, Runs
<1>4. ASSUME NEW i \in Items, Pause(i)
     PROVE  FiledIsGone'
  BY <1>4, ChatAssumption DEF Pause, FiledIsGone, InQueue, TypeOK, Runs
<1>5. ASSUME NEW i \in Items, Resume(i)
     PROVE  FiledIsGone'
  BY <1>5, ChatAssumption DEF Resume, FiledIsGone, InQueue, TypeOK, Runs
<1>6. ASSUME NEW i \in Items, UserRetry(i)
     PROVE  FiledIsGone'
  BY <1>6, ChatAssumption DEF UserRetry, Retried, InQueue, FiledIsGone, TypeOK, Runs
<1>7. ASSUME NEW i \in Items, GoesStale(i)
     PROVE  FiledIsGone'
  BY <1>7, ChatAssumption DEF GoesStale, FiledIsGone, InQueue, TypeOK, Runs
<1>8. ASSUME NEW u \in Users, EraseQueue(u)
     PROVE  FiledIsGone'
  BY <1>8, ChatAssumption DEF EraseQueue, Absent, ItemsOf, FiledIsGone, InQueue, TypeOK,
     Runs
<1>9. ASSUME NEW u \in Users, EraseIndex(u)
     PROVE  FiledIsGone'
  BY <1>9, ChatAssumption DEF EraseIndex, FiledIsGone, InQueue, TypeOK, Runs
<1>10. ASSUME NEW w \in Workers, ListUsers(w)
     PROVE  FiledIsGone'
  BY <1>10, ChatAssumption DEF ListUsers, FiledIsGone, InQueue, TypeOK, Runs
<1>11. ASSUME NEW w \in Workers, CountActive(w)
     PROVE  FiledIsGone'
  BY <1>11, ChatAssumption DEF CountActive, FiledIsGone, InQueue, TypeOK, Runs
<1>12. ASSUME NEW w \in Workers, StoreActive(w)
     PROVE  FiledIsGone'
  BY <1>12, ChatAssumption DEF StoreActive, FiledIsGone, InQueue, TypeOK, Runs
<1>13. ASSUME NEW w \in Workers, NEW u \in Users, Claims(w, u)
     PROVE  FiledIsGone'
  <2>1. \A i \in Items : queue[i].status = "gone" => queue'[i] = queue[i]
    BY <1>13, ClaimTakesOne DEF Swept, Taken, Stale, Claimable
  <2> QED
    BY <1>13, ClaimTakesOne, <2>1 DEF FiledIsGone, TypeOK
<1>14. ASSUME NEW w \in Workers, Answer(w)
     PROVE  FiledIsGone'
  BY <1>14, ChatAssumption DEF Answer, Become, FiledIsGone, InQueue, TypeOK, Runs
<1>15. ASSUME NEW w \in Workers, Finish(w)
     PROVE  FiledIsGone'
  BY <1>15, ChatAssumption DEF Finish, CompletedItem, InQueue, Drain, FiledIsGone,
     TypeOK, Runs
<1>16. ASSUME NEW w \in Workers, TimesOut(w)
     PROVE  FiledIsGone'
  BY <1>16, ChatAssumption DEF TimesOut, TimedOut, Become, FiledIsGone, InQueue, TypeOK,
     Runs
<1>17. ASSUME NEW w \in Workers, Notified(w)
     PROVE  FiledIsGone'
  BY <1>17, ChatAssumption DEF Notified, Drain, FiledIsGone, InQueue, TypeOK, Runs
<1>18. ASSUME NEW w \in Workers, Stops(w)
     PROVE  FiledIsGone'
  BY <1>18, ChatAssumption DEF Stops, CompletedItem, InQueue, Drain, FiledIsGone,
     TypeOK, Runs
<1>19. ASSUME NEW w \in Workers, JobEnds(w)
     PROVE  FiledIsGone'
  BY <1>19, ChatAssumption DEF JobEnds, Idle, FiledIsGone, InQueue, TypeOK, Runs
<1>20. ASSUME NEW w \in Workers, Fails(w)
     PROVE  FiledIsGone'
  BY <1>20, ChatAssumption DEF Fails, Retried, InQueue, Drain, Runs, FiledIsGone, TypeOK
<1>21. ASSUME NEW w \in Workers, Dies(w)
     PROVE  FiledIsGone'
  BY <1>21, ChatAssumption DEF Dies, Idle, FiledIsGone, InQueue, TypeOK, Runs
<1>22. CASE UNCHANGED vars
  BY <1>22, ChatAssumption DEF vars, FiledIsGone, InQueue, TypeOK, Runs
<1> QED
  BY <1>1, <1>2, <1>3, <1>4, <1>5, <1>6, <1>7, <1>8, <1>9, <1>10, <1>11,
     <1>12, <1>13, <1>14, <1>15, <1>16, <1>17, <1>18, <1>19, <1>20, <1>21, <1>22,
     TakingClaims
  DEF Next, Request, Job, Claims

(* A process that works on a request that was not retried meanwhile holds it:  *)
(* the item is its running, fresh claim, or was erased, and is not completed.  *)
Held(i) ==
    /\ i \notin history
    /\ \/ queue[i].status = "gone"
       \/ queue[i].status = "running" /\ ~queue[i].stale

WorkIsHeld ==
    notices = "sent" =>
        \A w \in Workers : Works(w) => Held(worker[w].item) \/ worker[w].item \in requeued

Exclusive == TypeOK /\ FiledIsGone /\ ExclusiveRun /\ WorkIsHeld

(* One process works on a request, and it holds it. *)
LEMMA ExclusiveKept ==
    ASSUME Exclusive, [Next]_vars
    PROVE  ExclusiveRun' /\ WorkIsHeld'
<1>1. ASSUME NEW i \in Items, Enqueue(i)
     PROVE  ExclusiveRun' /\ WorkIsHeld'
  BY <1>1, ChatAssumption DEF Enqueue, ItemsOf, Exclusive, FiledIsGone, ExclusiveRun,
     WorkIsHeld, Works, Held, InQueue, TypeOK, Runs
<1>2. ASSUME NEW i \in Items, Remember(i)
     PROVE  ExclusiveRun' /\ WorkIsHeld'
  BY <1>2, ChatAssumption DEF Remember, Exclusive, FiledIsGone, ExclusiveRun,
     WorkIsHeld, Works, Held, InQueue, TypeOK, Runs
<1>3. ASSUME NEW i \in Items, Cancel(i)
     PROVE  ExclusiveRun' /\ WorkIsHeld'
  BY <1>3, ChatAssumption DEF Cancel, InQueue, Exclusive, FiledIsGone, ExclusiveRun,
     WorkIsHeld, Works, Held, TypeOK, Runs
<1>4. ASSUME NEW i \in Items, Pause(i)
     PROVE  ExclusiveRun' /\ WorkIsHeld'
  BY <1>4, ChatAssumption DEF Pause, Exclusive, FiledIsGone, ExclusiveRun, WorkIsHeld,
     Works, Held, InQueue, TypeOK, Runs
<1>5. ASSUME NEW i \in Items, Resume(i)
     PROVE  ExclusiveRun' /\ WorkIsHeld'
  BY <1>5, ChatAssumption DEF Resume, Exclusive, FiledIsGone, ExclusiveRun, WorkIsHeld,
     Works, Held, InQueue, TypeOK, Runs
<1>6. ASSUME NEW i \in Items, UserRetry(i)
     PROVE  ExclusiveRun' /\ WorkIsHeld'
  BY <1>6, ChatAssumption DEF UserRetry, Retried, InQueue, Exclusive, FiledIsGone,
     ExclusiveRun, WorkIsHeld, Works, Held, TypeOK, Runs
<1>7. ASSUME NEW i \in Items, GoesStale(i)
     PROVE  ExclusiveRun' /\ WorkIsHeld'
  BY <1>7, ChatAssumption DEF GoesStale, Exclusive, FiledIsGone, ExclusiveRun,
     WorkIsHeld, Works, Held, InQueue, TypeOK, Runs
<1>8. ASSUME NEW u \in Users, EraseQueue(u)
     PROVE  ExclusiveRun' /\ WorkIsHeld'
  BY <1>8, ChatAssumption DEF EraseQueue, Absent, ItemsOf, Exclusive, FiledIsGone,
     ExclusiveRun, WorkIsHeld, Works, Held, InQueue, TypeOK, Runs
<1>9. ASSUME NEW u \in Users, EraseIndex(u)
     PROVE  ExclusiveRun' /\ WorkIsHeld'
  BY <1>9, ChatAssumption DEF EraseIndex, Exclusive, FiledIsGone, ExclusiveRun,
     WorkIsHeld, Works, Held, InQueue, TypeOK, Runs
<1>10. ASSUME NEW w \in Workers, ListUsers(w)
     PROVE  ExclusiveRun' /\ WorkIsHeld'
  BY <1>10, ChatAssumption DEF ListUsers, Exclusive, FiledIsGone, ExclusiveRun,
     WorkIsHeld, Works, Held, InQueue, TypeOK, Runs
<1>11. ASSUME NEW w \in Workers, CountActive(w)
     PROVE  ExclusiveRun' /\ WorkIsHeld'
  BY <1>11, ChatAssumption DEF CountActive, Exclusive, FiledIsGone, ExclusiveRun,
     WorkIsHeld, Works, Held, InQueue, TypeOK, Runs
<1>12. ASSUME NEW w \in Workers, StoreActive(w)
     PROVE  ExclusiveRun' /\ WorkIsHeld'
  BY <1>12, ChatAssumption DEF StoreActive, Exclusive, FiledIsGone, ExclusiveRun,
     WorkIsHeld, Works, Held, InQueue, TypeOK, Runs
<1>13. ASSUME NEW w \in Workers, NEW u \in Users, Claims(w, u)
     PROVE  ExclusiveRun' /\ WorkIsHeld'
  <2>1. CASE notices # "sent"
    BY <1>13, ClaimTakesOne, <2>1 DEF Exclusive, ExclusiveRun, WorkIsHeld
  <2>2. CASE notices = "sent"
    <3>1. \A v \in Workers : Works(v) => v # w /\ worker'[v] = worker[v]
      BY <1>13, ClaimTakesOne DEF Works, Exclusive, TypeOK
    <3>2. ASSUME NEW v \in Workers, Works(v), worker[v].item \notin requeued
          PROVE  /\ worker[v].item \in Items
                 /\ ~Claimable(worker[v].item) /\ ~Stale(worker[v].item)
                 /\ Held(worker[v].item)
      BY <2>2, <3>2 DEF Works, Exclusive, WorkIsHeld, Held, Claimable, Stale, TypeOK, Runs
    <3>3. \A v \in Workers : Works(v) /\ worker[v].item \notin requeued
                => Swept(worker[v].item) /\ ~Taken(worker[v].item)
      <4>1. \A j \in Items : ~Claimable(j) => Swept(j)
        BY <1>13, ClaimTakesOne DEF Exclusive, Taken
      <4>2. \A j \in Items : ~Claimable(j) => ~Taken(j)
        BY DEF Taken
      <4> QED
        BY <3>2, <4>1, <4>2
    <3>4. \A v \in Workers : Works(v) /\ worker[v].item \notin requeued
                => queue'[worker[v].item] = queue[worker[v].item]
      BY <3>2, <3>3 DEF Swept
    <3>5. history' = history /\ notices' = notices /\ requeued' = requeued
      BY <1>13, ClaimTakesOne DEF Exclusive
    <3>6. CASE worker' = [worker EXCEPT ![w].todo = @ \ {u}]
      BY <2>2, <3>1, <3>2, <3>4, <3>5, <3>6 DEF ExclusiveRun, Exclusive, WorkIsHeld,
         Held, Works, TypeOK
    <3>7. ASSUME NEW i \in Items, Taken(i),
                 worker' = [worker EXCEPT ![w].phase = "run", ![w].item = i, ![w].todo = @ \ {u}]
          PROVE  ExclusiveRun' /\ WorkIsHeld'
      <4>1. worker'[w].phase = "run" /\ worker'[w].item = i
        BY <3>7 DEF Exclusive, TypeOK
      <4>2. \A v \in Workers \ {w} : worker'[v] = worker[v]
        BY <3>7 DEF Exclusive, TypeOK
      <4>3. Held(i)'
        BY <3>5, <3>7 DEF Taken, Held, Claimable, Stale, Exclusive, FiledIsGone, TypeOK
      <4>4. \A v \in Workers \ {w} : Works(v) => worker[v].item # i \/ i \in requeued
        BY <3>3, <3>7
      <4>5. WorkIsHeld'
        BY <3>2, <3>4, <3>5, <4>1, <4>2, <4>3 DEF WorkIsHeld, Works, Held
      <4>6. ExclusiveRun'
        BY <2>2, <3>5, <4>1, <4>2, <4>4 DEF ExclusiveRun, Exclusive, Works
      <4> QED
        BY <4>5, <4>6
    <3> QED
      BY <1>13, ClaimTakesOne, <3>6, <3>7 DEF Exclusive
  <2> QED
    BY <2>1, <2>2
<1>14. ASSUME NEW w \in Workers, Answer(w)
     PROVE  ExclusiveRun' /\ WorkIsHeld'
  BY <1>14, ChatAssumption DEF Answer, Become, Exclusive, FiledIsGone, ExclusiveRun,
     WorkIsHeld, Works, Held, InQueue, TypeOK, Runs
<1>15. ASSUME NEW w \in Workers, Finish(w)
     PROVE  ExclusiveRun' /\ WorkIsHeld'
  BY <1>15, ChatAssumption DEF Finish, CompletedItem, InQueue, Drain, Exclusive,
     FiledIsGone, ExclusiveRun, WorkIsHeld, Works, Held, TypeOK, Runs
<1>16. ASSUME NEW w \in Workers, TimesOut(w)
     PROVE  ExclusiveRun' /\ WorkIsHeld'
  BY <1>16, ChatAssumption DEF TimesOut, TimedOut, Become, Exclusive, FiledIsGone,
     ExclusiveRun, WorkIsHeld, Works, Held, InQueue, TypeOK, Runs
<1>17. ASSUME NEW w \in Workers, Notified(w)
     PROVE  ExclusiveRun' /\ WorkIsHeld'
  BY <1>17, ChatAssumption DEF Notified, Drain, Exclusive, FiledIsGone, ExclusiveRun,
     WorkIsHeld, Works, Held, InQueue, TypeOK, Runs
<1>18. ASSUME NEW w \in Workers, Stops(w)
     PROVE  ExclusiveRun' /\ WorkIsHeld'
  BY <1>18, ChatAssumption DEF Stops, CompletedItem, InQueue, Drain, Exclusive,
     FiledIsGone, ExclusiveRun, WorkIsHeld, Works, Held, TypeOK, Runs
<1>19. ASSUME NEW w \in Workers, JobEnds(w)
     PROVE  ExclusiveRun' /\ WorkIsHeld'
  BY <1>19, ChatAssumption DEF JobEnds, Idle, Exclusive, FiledIsGone, ExclusiveRun,
     WorkIsHeld, Works, Held, InQueue, TypeOK, Runs
<1>20. ASSUME NEW w \in Workers, Fails(w)
     PROVE  ExclusiveRun' /\ WorkIsHeld'
  BY <1>20, ChatAssumption DEF Fails, Retried, InQueue, Drain, Runs, Exclusive,
     FiledIsGone, ExclusiveRun, WorkIsHeld, Works, Held, TypeOK
<1>21. ASSUME NEW w \in Workers, Dies(w)
     PROVE  ExclusiveRun' /\ WorkIsHeld'
  BY <1>21, ChatAssumption DEF Dies, Idle, Exclusive, FiledIsGone, ExclusiveRun,
     WorkIsHeld, Works, Held, InQueue, TypeOK, Runs
<1>22. CASE UNCHANGED vars
  BY <1>22, ChatAssumption DEF vars, Exclusive, FiledIsGone, ExclusiveRun, WorkIsHeld,
     Works, Held, InQueue, TypeOK, Runs
<1> QED
  BY <1>1, <1>2, <1>3, <1>4, <1>5, <1>6, <1>7, <1>8, <1>9, <1>10, <1>11,
     <1>12, <1>13, <1>14, <1>15, <1>16, <1>17, <1>18, <1>19, <1>20, <1>21, <1>22,
     TakingClaims
  DEF Next, Request, Job, Claims

-----------------------------------------------------------------------------
(* The states of the queue, of the index, of the history and of the processes *)
(* are well typed, a request is not claimed more often than the bound says, and *)
(* only a process that runs has a request.                                     *)
THEOREM TypeCorrect == Spec => []TypeOK
<1>1. Init => TypeOK
  BY ChatAssumption DEF Init, TypeOK, Absent, Idle, Statuses, Open, Phases, Runs, NoItem
<1>2. TypeOK /\ [Next]_vars => TypeOK'
  BY TypesKept
<1> QED
  BY <1>1, <1>2, PTL DEF Spec

(* What account deletion removed from the queue and the history stays removed, *)
(* whatever processes that were running at the time report (complete(), fail() *)
(* and retry() of BackgroundChatQueue find no item).                           *)
THEOREM ErasedIsFinal == Spec => []ErasedStaysErased
<1>1. Init => ErasedStaysErased
  BY DEF Init, ErasedStaysErased
<1>2. TypeOK /\ ErasedStaysErased /\ [Next]_vars => ErasedStaysErased'
  BY ErasedKept
<1> QED
  BY <1>1, <1>2, TypeCorrect, PTL DEF Spec

(* The invariant behind the two theorems on exclusive processes. *)
LEMMA AlwaysExclusive == Spec => []Exclusive
<1>1. Init => Exclusive
  BY TypeCorrect, ChatAssumption
  DEF Init, Exclusive, FiledIsGone, ExclusiveRun, WorkIsHeld, Works, Idle, TypeOK, Absent,
      Statuses, Open, Phases, Runs, NoItem
<1>2. Exclusive /\ [Next]_vars => Exclusive'
  BY TypesKept, FiledKept, ExclusiveKept DEF Exclusive
<1> QED
  BY <1>1, <1>2, PTL DEF Spec

(* Two processes work on one request only after its user asked for a retry     *)
(* while one of them worked, or after the notice of a timed-out run failed; for *)
(* any number of processes, requests and users, attempts and claims (claim(),  *)
(* with its stale claims of ten minutes against the deadline of five).         *)
THEOREM RunsAreExclusive == Spec => []ExclusiveRun
<1>1. Exclusive => ExclusiveRun
  BY DEF Exclusive
<1> QED
  BY <1>1, AlwaysExclusive, PTL

(* A completed request is not answered a second time, but for the same two     *)
(* exceptions: whoever still works on a request has not completed it.          *)
THEOREM CompletedOnce == Spec => CompletedIsAnsweredOnce
<1>1. ASSUME Exclusive, [Next]_vars, notices = "sent", NEW i \in history \ requeued
      PROVE  answers'[i] = answers[i]
  <2>1. \A w \in Workers : worker[w].phase = "run" => worker[w].item # i
    BY <1>1 DEF Exclusive, WorkIsHeld, Works, Held
  <2>2. \A w \in Workers : Answer(w) => answers'[i] = answers[i]
    BY <1>1, <2>1 DEF Answer, Exclusive, TypeOK, Runs
  <2>3. (\A w \in Workers : ~Answer(w)) => answers' = answers
    BY <1>1 DEF Next, Request, Job, Enqueue, Remember, Cancel, Pause, Resume, UserRetry,
       GoesStale, EraseQueue, EraseIndex, ListUsers, CountActive, StoreActive, Take, TakeNone,
       Finish, TimesOut, Notified, Stops, JobEnds, Fails, Dies, vars
  <2> QED
    BY <2>2, <2>3
<1>2. Exclusive /\ [Next]_vars
        => [notices = "sent" => \A i \in history \ requeued : answers'[i] = answers[i]]_vars
  BY <1>1
<1> QED
  BY <1>2, AlwaysExclusive, PTL DEF Spec, CompletedIsAnsweredOnce

(* No step revives a request that failed with all its attempts used. *)
LEMMA ExhaustedKept ==
    ASSUME TypeOK, NEW x \in Items, queue[x].status = "failed", queue[x].attempts >= MaxAttempts, [Next]_vars
    PROVE  queue'[x].status \in {"failed", "cancelled", "gone"}
<1>1. ASSUME NEW i \in Items, Enqueue(i)
     PROVE  queue'[x].status \in {"failed", "cancelled", "gone"}
  BY <1>1, ChatAssumption DEF Enqueue, ItemsOf, InQueue, TypeOK, Runs
<1>2. ASSUME NEW i \in Items, Remember(i)
     PROVE  queue'[x].status \in {"failed", "cancelled", "gone"}
  BY <1>2, ChatAssumption DEF Remember, InQueue, TypeOK, Runs
<1>3. ASSUME NEW i \in Items, Cancel(i)
     PROVE  queue'[x].status \in {"failed", "cancelled", "gone"}
  BY <1>3, ChatAssumption DEF Cancel, InQueue, TypeOK, Runs
<1>4. ASSUME NEW i \in Items, Pause(i)
     PROVE  queue'[x].status \in {"failed", "cancelled", "gone"}
  BY <1>4, ChatAssumption DEF Pause, InQueue, TypeOK, Runs
<1>5. ASSUME NEW i \in Items, Resume(i)
     PROVE  queue'[x].status \in {"failed", "cancelled", "gone"}
  BY <1>5, ChatAssumption DEF Resume, InQueue, TypeOK, Runs
<1>6. ASSUME NEW i \in Items, UserRetry(i)
     PROVE  queue'[x].status \in {"failed", "cancelled", "gone"}
  BY <1>6, ChatAssumption DEF UserRetry, Retried, InQueue, TypeOK, Runs
<1>7. ASSUME NEW i \in Items, GoesStale(i)
     PROVE  queue'[x].status \in {"failed", "cancelled", "gone"}
  BY <1>7, ChatAssumption DEF GoesStale, InQueue, TypeOK, Runs
<1>8. ASSUME NEW u \in Users, EraseQueue(u)
     PROVE  queue'[x].status \in {"failed", "cancelled", "gone"}
  BY <1>8, ChatAssumption DEF EraseQueue, Absent, ItemsOf, InQueue, TypeOK, Runs
<1>9. ASSUME NEW u \in Users, EraseIndex(u)
     PROVE  queue'[x].status \in {"failed", "cancelled", "gone"}
  BY <1>9, ChatAssumption DEF EraseIndex, InQueue, TypeOK, Runs
<1>10. ASSUME NEW w \in Workers, ListUsers(w)
     PROVE  queue'[x].status \in {"failed", "cancelled", "gone"}
  BY <1>10, ChatAssumption DEF ListUsers, InQueue, TypeOK, Runs
<1>11. ASSUME NEW w \in Workers, CountActive(w)
     PROVE  queue'[x].status \in {"failed", "cancelled", "gone"}
  BY <1>11, ChatAssumption DEF CountActive, InQueue, TypeOK, Runs
<1>12. ASSUME NEW w \in Workers, StoreActive(w)
     PROVE  queue'[x].status \in {"failed", "cancelled", "gone"}
  BY <1>12, ChatAssumption DEF StoreActive, InQueue, TypeOK, Runs
<1>13. ASSUME NEW w \in Workers, NEW u \in Users, Claims(w, u)
     PROVE  queue'[x].status \in {"failed", "cancelled", "gone"}
  <2> QED
    BY <1>13, ClaimTakesOne DEF Swept, Taken, Stale, Claimable
<1>14. ASSUME NEW w \in Workers, Answer(w)
     PROVE  queue'[x].status \in {"failed", "cancelled", "gone"}
  BY <1>14, ChatAssumption DEF Answer, Become, InQueue, TypeOK, Runs
<1>15. ASSUME NEW w \in Workers, Finish(w)
     PROVE  queue'[x].status \in {"failed", "cancelled", "gone"}
  BY <1>15, ChatAssumption DEF Finish, CompletedItem, InQueue, Drain, TypeOK, Runs
<1>16. ASSUME NEW w \in Workers, TimesOut(w)
     PROVE  queue'[x].status \in {"failed", "cancelled", "gone"}
  BY <1>16, ChatAssumption DEF TimesOut, TimedOut, Become, InQueue, TypeOK, Runs
<1>17. ASSUME NEW w \in Workers, Notified(w)
     PROVE  queue'[x].status \in {"failed", "cancelled", "gone"}
  BY <1>17, ChatAssumption DEF Notified, Drain, InQueue, TypeOK, Runs
<1>18. ASSUME NEW w \in Workers, Stops(w)
     PROVE  queue'[x].status \in {"failed", "cancelled", "gone"}
  BY <1>18, ChatAssumption DEF Stops, CompletedItem, InQueue, Drain, TypeOK, Runs
<1>19. ASSUME NEW w \in Workers, JobEnds(w)
     PROVE  queue'[x].status \in {"failed", "cancelled", "gone"}
  BY <1>19, ChatAssumption DEF JobEnds, Idle, InQueue, TypeOK, Runs
<1>20. ASSUME NEW w \in Workers, Fails(w)
     PROVE  queue'[x].status \in {"failed", "cancelled", "gone"}
  BY <1>20, ChatAssumption DEF Fails, Retried, InQueue, Drain, Runs, TypeOK
<1>21. ASSUME NEW w \in Workers, Dies(w)
     PROVE  queue'[x].status \in {"failed", "cancelled", "gone"}
  BY <1>21, ChatAssumption DEF Dies, Idle, InQueue, TypeOK, Runs
<1>22. CASE UNCHANGED vars
  BY <1>22, ChatAssumption DEF vars, InQueue, TypeOK, Runs
<1> QED
  BY <1>1, <1>2, <1>3, <1>4, <1>5, <1>6, <1>7, <1>8, <1>9, <1>10, <1>11,
     <1>12, <1>13, <1>14, <1>15, <1>16, <1>17, <1>18, <1>19, <1>20, <1>21, <1>22,
     TakingClaims
  DEF Next, Request, Job, Claims

(* The attempt limit is final: neither retry() from the user nor that of a late *)
(* process puts a request back that failed with its attempts used up.          *)
THEOREM ExhaustedIsFinal == Spec => ExhaustedStaysFailed
<1>1. TypeOK /\ [Next]_vars =>
        [\A i \in Items : queue[i].status = "failed" /\ queue[i].attempts >= MaxAttempts
            => queue'[i].status \in {"failed", "cancelled", "gone"}]_vars
  BY ExhaustedKept
<1> QED
  BY <1>1, TypeCorrect, PTL DEF Spec, ExhaustedStaysFailed

=============================================================================
