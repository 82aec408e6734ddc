----------------------- MODULE IncrementalIndex_proofs ----------------------
(***************************************************************************)
(* Proofs about IncrementalIndex, for any number of files, contents and    *)
(* processes: only one process at a time works on the index of an account, *)
(* whatever crashes, as long as nobody stops a pass; the types; an index   *)
(* whose queue holds nothing of a file shows what the file contains; and a *)
(* file which could be found stays findable.                               *)
(***************************************************************************)
EXTENDS IncrementalIndex, FiniteSetTheorems, WellFoundedInduction, TLAPS

-----------------------------------------------------------------------------
(* The lock. *)

(* The parts of the state that the lock depends on.  DOMAIN Idle are the      *)
(* fields of a process.                                                      *)
Shape ==
    /\ worker = [w \in Workers |-> worker[w]]
    /\ \A w \in Workers :
          /\ DOMAIN worker[w] = DOMAIN Idle
          /\ worker[w].phase \in Phases
          /\ worker[w].kind \in Kinds

(* Who holds the lock holds it alone, and its row is there and in use; the     *)
(* flag of a stop, the one way around that, is never set.                     *)
Alone ==
    "stop" \notin faults =>
        /\ ~cancel
        /\ \A w \in Workers : HoldsLock(w) => lock = "held"
        /\ LockIsExclusive

(* What a process that is done with its file becomes. *)
LEMMA FinishedShape ==
    ASSUME Shape, NEW w \in Workers, NEW r, HoldsLock(w)
    PROVE  LET next == Finished(w, r)
           IN  /\ next = [v \in Workers |-> next[v]]
               /\ DOMAIN next[w] = DOMAIN Idle
               /\ next[w].kind \in Kinds
               /\ next[w].phase \in {"looking", "finished"}
               /\ \A v \in Workers \ {w} : next[v] = worker[v]
BY DEF Shape, Finished, Idle, Scans, Kinds

(* A step that gives no process the lock, and leaves its row, keeps it alone.  *)
LEMMA NoOneNew ==
    ASSUME Alone, UNCHANGED <<lock, cancel, faults>>,
           \A v \in Workers : HoldsLock(v)' => HoldsLock(v)
    PROVE  Alone'
BY DEF Alone, LockIsExclusive

(* What a step makes of one process, the others as they were. *)
Only(w, phases) ==
    /\ worker' = [v \in Workers |-> worker'[v]]
    /\ DOMAIN worker'[w] = DOMAIN Idle
    /\ worker'[w].kind \in Kinds
    /\ worker'[w].phase \in phases
    /\ \A v \in Workers \ {w} : worker'[v] = worker[v]

LEMMA OnlyKeepsShape ==
    ASSUME Shape, NEW w \in Workers, NEW phases \in SUBSET Phases, Only(w, phases)
    PROVE  /\ Shape'
           /\ \A v \in Workers \ {w} : HoldsLock(v)' <=> HoldsLock(v)
           /\ HoldsLock(w)' => worker'[w].phase \in phases \ {"idle", "waiting", "claimed", "released"}
BY DEF Only, Shape, HoldsLock

(* The steps on one file belong to the process that holds the lock, and keep it. *)
LEMMA FileStepsKeepLock ==
    ASSUME Shape, Alone, NEW w \in Workers, FileStep(w) \/ Setback(w)
    PROVE  Shape' /\ Alone'
<1>1. HoldsLock(w)
  BY DEF FileStep, Setback, Look, Looks, HoldsLock, Purge, Unchanged, Read, Stage,
     Embed, Publish, RemoveOld, Discard, YieldsToChat, FlushDeferred, ExtractionFails,
     EmbeddingFails, Unembeddable
<1>2. UNCHANGED <<lock, cancel, faults>>
  BY DEF FileStep, Setback, Look, Purge, Unchanged, Read, Stage, Embed, Publish,
     RemoveOld, Discard, YieldsToChat, FlushDeferred, ExtractionFails, EmbeddingFails,
     Unembeddable, runVars, fileVars
<1> SUFFICES Only(w, Phases \ {"idle", "waiting", "claimed", "released"})
  BY <1>1, <1>2, OnlyKeepsShape, NoOneNew
<1>3. ASSUME NEW r, worker' = Finished(w, r)
      PROVE  Only(w, Phases \ {"idle", "waiting", "claimed", "released"})
  BY <1>1, <1>3, FinishedShape DEF Only, Phases
<1>4. ASSUME Purge(w)
      PROVE  Only(w, Phases \ {"idle", "waiting", "claimed", "released"})
  <2>1. CASE worker' = Finished(w, "ok")
    BY <1>3, <2>1
  <2>2. CASE worker' = [Finished(w, "ok") EXCEPT ![w].missing = @ \cup {worker[w].file}]
    <3> DEFINE next == Finished(w, "ok")
    <3>1. /\ next = [v \in Workers |-> next[v]]
          /\ DOMAIN next[w] = DOMAIN Idle
          /\ next[w].kind \in Kinds
          /\ next[w].phase \in {"looking", "finished"}
          /\ \A v \in Workers \ {w} : next[v] = worker[v]
      BY <1>1, FinishedShape
    <3> HIDE DEF next
    <3>2. worker' = [next EXCEPT ![w].missing = @ \cup {worker[w].file}]
      BY <2>2 DEF next
    <3> QED
      BY <3>1, <3>2 DEF Only, Phases, Idle
  <2> QED
    BY <1>4, <2>1, <2>2 DEF Purge
<1>5. YieldsToChat(w) => Only(w, Phases \ {"idle", "waiting", "claimed", "released"})
  BY <1>3 DEF YieldsToChat
<1>6. ExtractionFails(w) => Only(w, Phases \ {"idle", "waiting", "claimed", "released"})
  BY <1>3 DEF ExtractionFails
<1>7. Unchanged(w) => Only(w, Phases \ {"idle", "waiting", "claimed", "released"})
  BY <1>3 DEF Unchanged
<1>8. Discard(w) => Only(w, Phases \ {"idle", "waiting", "claimed", "released"})
  BY <1>3 DEF Discard
<1>9. FlushDeferred(w) => Only(w, Phases \ {"idle", "waiting", "claimed", "released"})
  BY <1>3 DEF FlushDeferred
<1>10. EmbeddingFails(w) => Only(w, Phases \ {"idle", "waiting", "claimed", "released"})
  BY <1>3 DEF EmbeddingFails
<1>11. Unembeddable(w) => Only(w, Phases \ {"idle", "waiting", "claimed", "released"})
  BY <1>3 DEF Unembeddable
<1>12. RemoveOld(w) => Only(w, Phases \ {"idle", "waiting", "claimed", "released"})
  BY <1>3 DEF RemoveOld
<1>13. ASSUME Read(w)
      PROVE  Only(w, Phases \ {"idle", "waiting", "claimed", "released"})
  <2>1. CASE worker' = [worker EXCEPT ![w].phase = "read",
                          ![w].content = disk[worker[w].file].content,
                          ![w].mtime = disk[worker[w].file].mtime]
    BY <2>1 DEF Shape, Only, Phases, Idle
  <2>2. ASSUME NEW o, worker' = [worker EXCEPT ![w].phase = "read",
                          ![w].content = disk[worker[w].file].content,
                          ![w].mtime = disk[worker[w].file].mtime, ![w].old = o]
        PROVE  Only(w, Phases \ {"idle", "waiting", "claimed", "released"})
    BY <2>2 DEF Shape, Only, Phases, Idle
  <2> QED
    BY <1>13, <2>1, <2>2 DEF Read
<1>14. Stage(w) => Only(w, Phases \ {"idle", "waiting", "claimed", "released"})
  BY DEF Stage, Shape, Only, Phases, Idle
<1>15. Embed(w) => Only(w, Phases \ {"idle", "waiting", "claimed", "released"})
  BY DEF Embed, Shape, Only, Phases, Idle
<1>16. Publish(w) => Only(w, Phases \ {"idle", "waiting", "claimed", "released"})
  BY DEF Publish, Shape, Only, Phases, Idle
<1> QED
  BY <1>4, <1>5, <1>6, <1>7, <1>8, <1>9, <1>10, <1>11, <1>12, <1>13, <1>14, <1>15, <1>16
  DEF FileStep, Setback, Look

(* A lock that can be had is held by no one. *)
LEMMA ObtainableIsFree ==
    ASSUME Alone, "stop" \notin faults, LockObtainable
    PROVE  ~cancel /\ lock # "held" /\ \A v \in Workers : ~HoldsLock(v)
BY DEF Alone, LockObtainable

(* The process that gets the free lock is its only holder. *)
LEMMA FirstHolder ==
    ASSUME Shape, Alone, NEW w \in Workers, NEW phases \in SUBSET Phases, Only(w, phases),
           LockObtainable, lock' = "held", UNCHANGED <<cancel, faults>>
    PROVE  Shape' /\ Alone'
<1>1. Shape' /\ \A v \in Workers \ {w} : HoldsLock(v)' <=> HoldsLock(v)
  BY OnlyKeepsShape
<1>2. "stop" \notin faults => ~cancel /\ \A v \in Workers : ~HoldsLock(v)
  BY ObtainableIsFree
<1> QED
  BY <1>1, <1>2 DEF Alone, LockIsExclusive

(* Where the holder gives the lock back, or no one holds it, the row is free.  *)
LEMMA LastHolder ==
    ASSUME Shape, Alone, NEW w \in Workers, Only(w, {"idle", "waiting", "claimed", "released"}),
           HoldsLock(w) \/ LockObtainable, cancel' => cancel, UNCHANGED faults
    PROVE  Shape' /\ Alone'
<1>1. /\ Shape'
      /\ \A v \in Workers \ {w} : HoldsLock(v)' <=> HoldsLock(v)
      /\ ~HoldsLock(w)'
  BY OnlyKeepsShape DEF Phases
<1>2. "stop" \notin faults => \A v \in Workers : ~HoldsLock(v)'
  BY <1>1, ObtainableIsFree DEF Alone, LockIsExclusive
<1> QED
  BY <1>1, <1>2 DEF Alone, LockIsExclusive

(* Every step keeps the lock with one process. *)
LEMMA LockKept ==
    ASSUME Shape, Alone, [Next]_vars
    PROVE  Shape' /\ Alone'
<1> DEFINE Outside == {"idle", "waiting", "claimed", "released"}
<1>1. CASE \E f \in Files : Write(f) \/ Mark(f) \/ MarkLost(f) \/ ClaimExpires(f)
  <2>1. UNCHANGED <<lock, cancel, faults, worker>>
    BY <1>1 DEF Write, Mark, MarkLost, ClaimExpires, runVars, fileVars
  <2> QED
    BY <2>1, NoOneNew DEF Shape, HoldsLock
<1>2. ASSUME NEW w \in Workers, NEW f \in Files, Claim(w, f)
      PROVE  Shape' /\ Alone'
  <2>1. Only(w, {"claimed"}) /\ UNCHANGED <<lock, cancel, faults>>
    BY <1>2 DEF Claim, Only, Shape, Idle, Kinds, runVars, fileVars
  <2>2. Shape' /\ \A v \in Workers : HoldsLock(v)' => HoldsLock(v)
    BY <2>1, OnlyKeepsShape DEF Phases
  <2> QED
    BY <2>1, <2>2, NoOneNew
<1>3. ASSUME NEW w \in Workers, StartPeriodic(w)
      PROVE  Shape' /\ Alone'
  <2>1. Only(w, {"looking"})
    BY <1>3 DEF StartPeriodic, Started, Only, Shape, Idle, Kinds
  <2> QED
    BY <1>3, <2>1, FirstHolder DEF StartPeriodic, Phases, fileVars
<1>4. ASSUME NEW w \in Workers, RequestPass(w)
      PROVE  Shape' /\ Alone'
  <2>1. Only(w, Outside)
    BY <1>4 DEF RequestPass, Only, Shape, Idle, Kinds
  <2> QED
    BY <1>4, <2>1, LastHolder DEF RequestPass, fileVars
<1>5. ASSUME NEW w \in Workers, Queued(w)
      PROVE  Shape' /\ Alone'
  <2>1. "stop" \notin faults => \A v \in Workers : ~HoldsLock(v)
    BY <1>5, ObtainableIsFree DEF Queued
  <2> QED
    BY <1>5, <2>1 DEF Queued, Shape, Alone, HoldsLock, LockIsExclusive, fileVars
<1>6. ASSUME NEW w \in Workers, FileStep(w) \/ Setback(w)
      PROVE  Shape' /\ Alone'
  BY <1>6, FileStepsKeepLock
<1>7. ASSUME NEW w \in Workers, AcquireLock(w)
      PROVE  Shape' /\ Alone'
  <2>1. CASE LockObtainable
    <3>1. Only(w, {"looking"})
      BY <1>7, <2>1 DEF AcquireLock, Only, Shape, Idle
    <3> QED
      BY <1>7, <2>1, <3>1, FirstHolder DEF AcquireLock, Phases, fileVars
  <2>2. CASE ~LockObtainable
    <3>1. Only(w, {"released"}) /\ UNCHANGED <<lock, cancel, faults>>
      BY <1>7, <2>2 DEF AcquireLock, Only, Shape, Idle, fileVars
    <3>2. Shape' /\ \A v \in Workers : HoldsLock(v)' => HoldsLock(v)
      BY <3>1, OnlyKeepsShape DEF Phases
    <3> QED
      BY <3>1, <3>2, NoOneNew
  <2> QED
    BY <2>1, <2>2
<1>8. ASSUME NEW w \in Workers, ReleaseLock(w)
      PROVE  Shape' /\ Alone'
  <2>1. Only(w, Outside) /\ HoldsLock(w)
    BY <1>8 DEF ReleaseLock, Only, Shape, Idle, HoldsLock
  <2> QED
    BY <1>8, <2>1, LastHolder DEF ReleaseLock, fileVars
<1>9. ASSUME NEW w \in Workers, Settle(w)
      PROVE  Shape' /\ Alone'
  <2>1. Only(w, {"idle"}) /\ UNCHANGED <<lock, cancel, faults>>
    BY <1>9 DEF Settle, Only, Shape, Idle, Kinds, runVars, fileVars
  <2>2. Shape' /\ \A v \in Workers : HoldsLock(v)' => HoldsLock(v)
    BY <2>1, OnlyKeepsShape DEF Phases
  <2> QED
    BY <2>1, <2>2, NoOneNew
<1>10. ASSUME NEW w \in Workers, StartRequested(w)
       PROVE  Shape' /\ Alone'
  <2>1. Only(w, {"looking"})
    BY <1>10 DEF StartRequested, Started, Only, Shape, Idle, Kinds
  <2> QED
    BY <1>10, <2>1, FirstHolder DEF StartRequested, Phases, fileVars
<1>11. ASSUME NEW w \in Workers, EndPeriodic(w)
       PROVE  Shape' /\ Alone'
  <2>1. Only(w, Outside) /\ HoldsLock(w)
    BY <1>11 DEF EndPeriodic, Only, Shape, Idle, Kinds, HoldsLock
  <2> QED
    BY <1>11, <2>1, LastHolder DEF EndPeriodic, fileVars
<1>12. ASSUME NEW w \in Workers, EndRequested(w)
       PROVE  Shape' /\ Alone'
  <2>1. /\ Only(w, Outside) /\ (cancel' => cancel) /\ UNCHANGED faults
        /\ worker[w].phase = "looking" \/ (worker[w].phase = "waiting" /\ cancel /\ UNCHANGED lock)
    <3>1. CASE worker' = [worker EXCEPT ![w] = [Idle EXCEPT !.kind = "request", !.phase = "waiting"]]
                /\ UNCHANGED cancel
      <4>1. Only(w, Outside)
        BY <3>1 DEF Only, Shape, Idle, Kinds
      <4> QED
        BY <1>12, <3>1, <4>1 DEF EndRequested, fileVars
    <3>2. CASE worker' = [worker EXCEPT ![w] = Idle] /\ cancel' = FALSE
      <4>1. Only(w, Outside)
        BY <3>2 DEF Only, Shape, Idle, Kinds
      <4> QED
        BY <1>12, <3>2, <4>1 DEF EndRequested, fileVars
    <3> QED
      BY <1>12, <3>1, <3>2 DEF EndRequested
  <2>2. CASE worker[w].phase = "looking"
    BY <2>1, <2>2, LastHolder DEF HoldsLock
  <2>3. CASE worker[w].phase = "waiting" /\ cancel /\ UNCHANGED lock
    <3>1. "stop" \in faults
      BY <2>3 DEF Alone
    <3> QED
      BY <2>1, <3>1, OnlyKeepsShape DEF Alone, Phases
  <2> QED
    BY <2>1, <2>2, <2>3
<1>13. ASSUME NEW w \in Workers, NEW f \in Files, Visit(w, f)
       PROVE  Shape' /\ Alone'
  <2>1. /\ Only(w, {"looking"}) /\ UNCHANGED <<lock, cancel, faults>> /\ HoldsLock(w)
    BY <1>13 DEF Visit, Only, Shape, Idle, HoldsLock, runVars, fileVars
  <2>2. Shape' /\ \A v \in Workers : HoldsLock(v)' => HoldsLock(v)
    BY <2>1, OnlyKeepsShape DEF Phases
  <2> QED
    BY <2>1, <2>2, NoOneNew
<1>14. ASSUME NEW w \in Workers, Dies(w)
       PROVE  Shape' /\ Alone'
  <2>1. Only(w, {"idle"}) /\ UNCHANGED <<cancel, faults>>
    BY <1>14 DEF Dies, Only, Shape, Idle, Kinds, fileVars
  <2>2. CASE HoldsLock(w)
    <3>1. Only(w, Outside)
      BY <2>1 DEF Only
    <3> QED
      BY <2>1, <2>2, <3>1, LastHolder
  <2>3. CASE ~HoldsLock(w)
    <3>1. UNCHANGED lock
      BY <1>14, <2>3 DEF Dies
    <3>2. Shape' /\ \A v \in Workers : HoldsLock(v)' => HoldsLock(v)
      BY <2>1, OnlyKeepsShape DEF Phases
    <3> QED
      BY <2>1, <3>1, <3>2, NoOneNew
  <2> QED
    BY <2>2, <2>3
<1>15. CASE Stop
  <2>1. "stop" \in faults /\ UNCHANGED <<worker, faults>>
    BY <1>15 DEF Stop, fileVars
  <2> QED
    BY <2>1 DEF Shape, Alone
<1>16. CASE Recover \/ LockExpires
  <2>1. UNCHANGED <<worker, faults>> /\ (cancel' => cancel)
        /\ (UNCHANGED lock \/ lock = "orphaned")
    BY <1>16 DEF Recover, LockExpires, fileVars
  <2> QED
    BY <2>1 DEF Shape, Alone, HoldsLock, LockIsExclusive
<1>17. CASE UNCHANGED vars
  BY <1>17 DEF vars, Shape, Alone, HoldsLock, LockIsExclusive
<1> QED
  BY <1>1, <1>2, <1>3, <1>4, <1>5, <1>6, <1>7, <1>8, <1>9, <1>10, <1>11, <1>12, <1>13,
     <1>14, <1>15, <1>16, <1>17 DEF Next, JobStep, PassStep

-----------------------------------------------------------------------------
(* Only one process works on the index of an account, for any number of        *)
(* processes and files, although processes die, rows expire and are reclaimed, *)
(* and the scheduler turns passes away (LockGuard::acquireIndexLock()).         *)
THEOREM LockStaysExclusive == Spec => []LockIsExclusive
<1>1. Init => Shape /\ Alone
  BY DEF Init, Shape, Alone, Idle, Phases, Kinds, HoldsLock, LockIsExclusive
<1>2. Shape /\ Alone /\ [Next]_vars => (Shape /\ Alone)'
  BY LockKept
<1>3. Alone => LockIsExclusive
  BY DEF Alone, LockIsExclusive
<1> QED
  BY <1>1, <1>2, <1>3, PTL DEF Spec


-----------------------------------------------------------------------------
(* Types. *)

Middle(w) == worker[w].phase \in {"read", "staged", "embedded", "published"}
HasRow(w) == worker[w].phase \in {"staged", "embedded", "published"}

Process ==
    [kind : Kinds, phase : Phases, file : Files \cup {Gone}, stamp : 0..MaxMarks,
     content : Contents \cup {Gone}, mtime : 0..MaxWrites, old : 0..MaxDocs, new : 0..MaxDocs,
     result : Results, stop : {"unread", "no", "yes"},
     snapshot : SUBSET Doc, todo : SUBSET Files, missing : SUBSET Files]

(* A queued change has attempts left, and its stamp was made by a mark.        *)
QueueTyped ==
    /\ DirtyTypeOK
    /\ \A f \in Files :
          /\ dirty[f].status \in {"pending", "running"} => dirty[f].attempts < MaxAttempts
          /\ dirty[f].stamp <= marks
          /\ dirty[f].status = "absent" <=> dirty[f].stamp = 0

FilesTyped ==
    /\ disk \in [Files -> Version]
    /\ writes \in 0..MaxWrites
    /\ unmarked \in [Files -> 0..MaxWrites]
    /\ \A f \in Files : unmarked[f] <= writes
    /\ faults \in FaultSets

DocsTyped ==
    /\ docs \subseteq Doc
    /\ \A d, e \in docs : d.id = e.id => d = e

RunTyped ==
    /\ lock \in {"free", "held", "orphaned", "expired"}
    /\ running \in {"no", "yes", "abandoned"}
    /\ cancel \in BOOLEAN

(* What a process remembers fits what it is doing.                            *)
Remembers(w) ==
    /\ Middle(w) => worker[w].file \in Files /\ worker[w].content \in Contents
    /\ ~Middle(w) => worker[w].old = 0
    /\ ~HasRow(w) => worker[w].new = 0
    /\ ~Scans(w) /\ worker[w].phase # "idle" => worker[w].file \in Files /\ worker[w].stamp \in 1..marks
    /\ Scans(w) => worker[w].phase \notin {"claimed", "finished", "released"}
    /\ worker[w].phase = "waiting" => Scans(w)
    /\ worker[w].missing # {} \/ worker[w].snapshot # {} => HoldsLock(w) /\ Scans(w)
    /\ Scans(w) /\ worker[w].file # Gone => worker[w].file \in worker[w].todo

WorkersTyped ==
    /\ worker \in [Workers -> Process]
    /\ \A w \in Workers : Remembers(w)

IndexTyped == QueueTyped /\ FilesTyped /\ DocsTyped /\ RunTyped /\ WorkersTyped

(* The steps of the model, one by one. *)

(* A process without work is a process.  The lemmas that follow say, action by *)
(* action, what a step makes of the process that takes it.                     *)
LEMMA IdleTyped == Idle \in Process
BY DirtyAssumption, IndexAssumption DEF Idle, Process, Kinds, Phases, Results

(* The process that takes a step, the others as they were. *)
Alters(w) ==
    /\ worker' \in [Workers -> Process]
    /\ \A v \in Workers \ {w} : worker'[v] = worker[v]

(* A process that is done with its file. *)
LEMMA FinishedIs ==
    ASSUME WorkersTyped, NEW w \in Workers, NEW r \in Results
    PROVE  LET next == Finished(w, r)
           IN  /\ next \in [Workers -> Process]
               /\ \A v \in Workers \ {w} : next[v] = worker[v]
               /\ next[w].kind = worker[w].kind
               /\ next[w].old = 0 /\ next[w].new = 0
               /\ Scans(w) =>
                    /\ next[w].phase = "looking" /\ next[w].file = Gone
                    /\ next[w].snapshot = worker[w].snapshot
                    /\ next[w].todo = worker[w].todo \ {worker[w].file}
                    /\ next[w].missing = worker[w].missing
                    /\ next[w].stop = worker[w].stop
               /\ ~Scans(w) =>
                    /\ next[w].phase = "finished" /\ next[w].file = worker[w].file
                    /\ next[w].stamp = worker[w].stamp /\ next[w].result = r
                    /\ next[w].snapshot = {} /\ next[w].missing = {}
                    /\ next[w].stop = "unread"
<1>1. Gone \in Files \cup {Gone} /\ Gone \in Contents \cup {Gone}
  OBVIOUS
<1>2. 0 \in 0..MaxMarks /\ 0 \in 0..MaxWrites /\ 0 \in 0..MaxDocs
  BY DirtyAssumption, IndexAssumption
<1>3. CASE Scans(w)
  BY ZenonT(60), <1>1, <1>2, <1>3 DEF WorkersTyped, Finished, Scans, Idle, Process, Kinds, Phases, Results
<1>4. CASE ~Scans(w)
  BY <1>1, <1>2, <1>4 DEF WorkersTyped, Finished, Scans, Idle, Process, Kinds, Phases, Results
<1> QED
  BY <1>3, <1>4

(* A process that starts something new remembers only what it is given. *)
LEMMA FreshIs ==
    ASSUME WorkersTyped, NEW w \in Workers, NEW p \in Process, worker' = [worker EXCEPT ![w] = p]
    PROVE  Alters(w) /\ worker'[w] = p
BY DEF WorkersTyped, Alters

(* A process goes on with its file. *)
Same(w, fields) == \A x \in DOMAIN Idle \ fields : worker'[w][x] = worker[w][x]

(* It claims a queued file. *)
LEMMA ClaimIs ==
    ASSUME QueueTyped, WorkersTyped, NEW w \in Workers, NEW f \in Files, Claim(w, f)
    PROVE  /\ Alters(w)
           /\ worker'[w] = [Idle EXCEPT !.phase = "claimed", !.file = f, !.stamp = dirty[f].stamp]
<1>1. dirty[f].stamp \in 0..MaxMarks
  BY DEF QueueTyped, DirtyTypeOK, Entry
<1>2. [Idle EXCEPT !.phase = "claimed", !.file = f, !.stamp = dirty[f].stamp] \in Process
  BY <1>1, IdleTyped DEF Idle, Process, Phases
<1> QED
  BY <1>2, FreshIs DEF Claim

(* It waits for a requested pass to start. *)
LEMMA RequestIs ==
    ASSUME WorkersTyped, NEW w \in Workers,
           worker' = [worker EXCEPT ![w] = [Idle EXCEPT !.kind = "request", !.phase = "waiting"]]
    PROVE  Alters(w) /\ worker'[w] = [Idle EXCEPT !.kind = "request", !.phase = "waiting"]
<1>1. [Idle EXCEPT !.kind = "request", !.phase = "waiting"] \in Process
  BY IdleTyped DEF Idle, Process, Phases, Kinds
<1> QED
  BY <1>1, FreshIs

(* It starts a pass, with the rows there are. *)
LEMMA StartedIs ==
    ASSUME DocsTyped, WorkersTyped, NEW w \in Workers, NEW kind \in {"cron", "request"},
           worker' = Started(w, kind)
    PROVE  /\ Alters(w)
           /\ worker'[w] = [Idle EXCEPT !.kind = kind, !.phase = "looking",
                                        !.snapshot = Snapshot, !.todo = Files]
<1>1. Snapshot \in SUBSET Doc
  BY DEF DocsTyped, Snapshot
<1>2. [Idle EXCEPT !.kind = kind, !.phase = "looking", !.snapshot = Snapshot, !.todo = Files] \in Process
  BY <1>1, IdleTyped DEF Idle, Process, Phases, Kinds
<1> QED
  BY <1>2, FreshIs DEF Started

(* It gets the lock, or gives its claim back as failed. *)
LEMMA AcquireLockIs ==
    ASSUME WorkersTyped, NEW w \in Workers, AcquireLock(w)
    PROVE  /\ Alters(w) /\ Same(w, {"phase", "result"})
           /\ \/ LockObtainable /\ worker'[w].phase = "looking" /\ worker'[w].result = worker[w].result
              \/ ~LockObtainable /\ worker'[w].phase = "released" /\ worker'[w].result = "error"
<1>1. CASE LockObtainable
  BY <1>1 DEF AcquireLock, WorkersTyped, Alters, Same, Idle, Process, Phases
<1>2. CASE ~LockObtainable
  BY <1>2 DEF AcquireLock, WorkersTyped, Alters, Same, Idle, Process, Phases, Results
<1> QED
  BY <1>1, <1>2

(* It gives the lock back. *)
LEMMA ReleaseLockIs ==
    ASSUME WorkersTyped, NEW w \in Workers, ReleaseLock(w)
    PROVE  Alters(w) /\ Same(w, {"phase"}) /\ worker'[w].phase = "released"
BY DEF ReleaseLock, WorkersTyped, Alters, Same, Idle, Process, Phases

(* A pass turns to its next file: it skips it, misses it or looks at it. *)
LEMMA VisitIs ==
    ASSUME WorkersTyped, NEW w \in Workers, NEW f \in Files, Visit(w, f)
    PROVE  /\ Alters(w) /\ Same(w, {"todo", "missing", "stop", "file"}) /\ worker'[w].stop = "no"
           /\ \/ /\ worker'[w].todo = worker[w].todo \ {f} /\ worker'[w].file = Gone
                 /\ \/ worker'[w].missing = worker[w].missing
                    \/ disk[f].content = Gone /\ worker'[w].missing = worker[w].missing \cup {f}
              \/ /\ worker'[w].todo = worker[w].todo /\ worker'[w].file = f
                 /\ worker'[w].missing = worker[w].missing
<1>1. CASE worker' = [worker EXCEPT ![w].todo = @ \ {f}, ![w].missing = @ \cup {f}, ![w].stop = "no"]
  BY <1>1 DEF Visit, WorkersTyped, Alters, Same, Idle, Process
<1>2. CASE worker' = [worker EXCEPT ![w].todo = @ \ {f}, ![w].stop = "no"]
  BY <1>2 DEF Visit, WorkersTyped, Alters, Same, Idle, Process
<1>3. CASE worker' = [worker EXCEPT ![w].file = f, ![w].stop = "no"]
  BY <1>3 DEF Visit, WorkersTyped, Alters, Same, Idle, Process
<1> QED
  BY <1>1, <1>2, <1>3 DEF Visit

(* It reads the text that it will index, and picks the row to replace. *)
LEMMA ReadIs ==
    ASSUME FilesTyped, DocsTyped, WorkersTyped, NEW w \in Workers, Read(w)
    PROVE  /\ Alters(w) /\ Same(w, {"phase", "content", "mtime", "old"})
           /\ worker'[w].phase = "read"
           /\ worker'[w].content = disk[worker[w].file].content
           /\ \/ KnownRows(w, worker[w].file) = {} /\ worker'[w].old = worker[w].old
              \/ \E d \in KnownRows(w, worker[w].file) :
                    d.content # disk[worker[w].file].content /\ worker'[w].old = d.id
<1> DEFINE f == worker[w].file
<1>1. f \in Files
  BY DEF Read, Looks, WorkersTyped, Process
<1>2. disk[f].content \in Contents \cup {Gone} /\ disk[f].mtime \in 0..MaxWrites
  BY <1>1 DEF FilesTyped, Version
<1>3. KnownRows(w, f) \subseteq Doc
  BY DEF KnownRows, DocsOf, DocsTyped, WorkersTyped, Process
<1>0. worker[w] \in Process
  BY DEF WorkersTyped
<1> HIDE DEF f
<1>4. ASSUME worker' = [worker EXCEPT ![w].phase = "read", ![w].content = disk[f].content,
                                      ![w].mtime = disk[f].mtime]
      PROVE  /\ Alters(w) /\ Same(w, {"phase", "content", "mtime", "old"})
             /\ worker'[w].phase = "read" /\ worker'[w].content = disk[f].content
             /\ worker'[w].old = worker[w].old
  <2> DEFINE p == [worker[w] EXCEPT !.phase = "read", !.content = disk[f].content,
                                    !.mtime = disk[f].mtime]
  <2>1. p \in Process
    BY <1>0, <1>2 DEF Process, Phases
  <2>2. worker' = [worker EXCEPT ![w] = p]
    BY <1>0, <1>4 DEF WorkersTyped, Process
  <2> HIDE DEF p
  <2>3. Alters(w) /\ worker'[w] = p
    BY <2>1, <2>2, FreshIs
  <2> QED
    BY <1>0, <2>3 DEF Same, Idle, Process, p
<1>5. ASSUME NEW d \in KnownRows(w, f),
             worker' = [worker EXCEPT ![w].phase = "read", ![w].content = disk[f].content,
                                      ![w].mtime = disk[f].mtime, ![w].old = d.id]
      PROVE  /\ Alters(w) /\ Same(w, {"phase", "content", "mtime", "old"})
             /\ worker'[w].phase = "read" /\ worker'[w].content = disk[f].content
             /\ worker'[w].old = d.id
  <2>1. d.id \in 0..MaxDocs
    BY <1>3, IndexAssumption DEF Doc, DocIds
  <2> DEFINE p == [worker[w] EXCEPT !.phase = "read", !.content = disk[f].content,
                                    !.mtime = disk[f].mtime, !.old = d.id]
  <2>2. p \in Process
    BY <1>0, <1>2, <2>1 DEF Process, Phases
  <2>3. worker' = [worker EXCEPT ![w] = p]
    BY <1>0, <1>5 DEF WorkersTyped, Process
  <2> HIDE DEF p
  <2>4. Alters(w) /\ worker'[w] = p
    BY <2>2, <2>3, FreshIs
  <2> QED
    BY <1>0, <2>4 DEF Same, Idle, Process, p
<1> QED
  BY <1>4, <1>5 DEF Read, f

(* It stages a row, whose id it remembers. *)
LEMMA StageIs ==
    ASSUME WorkersTyped, NEW w \in Workers, Stage(w), NextId \in Nat
    PROVE  /\ Alters(w) /\ Same(w, {"phase", "new"})
           /\ worker'[w].phase = "staged" /\ worker'[w].new = NextId
<1>1. NextId \in 0..MaxDocs
  BY IndexAssumption DEF Stage
<1>2. worker' = [worker EXCEPT ![w].phase = "staged", ![w].new = NextId]
  BY DEF Stage
<1> DEFINE p == [worker[w] EXCEPT !.phase = "staged", !.new = NextId]
<1>3. worker[w] \in Process
  BY DEF WorkersTyped
<1>4. p \in Process
  BY <1>1, <1>3 DEF Process, Phases
<1>5. worker' = [worker EXCEPT ![w] = p]
  BY <1>2, <1>3 DEF WorkersTyped, Process
<1> HIDE DEF p
<1>6. Alters(w) /\ worker'[w] = p
  BY <1>4, <1>5, FreshIs
<1> QED
  BY <1>3, <1>6 DEF Same, Idle, Process, p

(* The text of its row is embedded. *)
LEMMA EmbedIs ==
    ASSUME WorkersTyped, NEW w \in Workers, Embed(w)
    PROVE  /\ Alters(w) /\ Same(w, {"phase", "stop"})
           /\ worker'[w].phase = "embedded" /\ worker'[w].stop = "no"
<1>1. worker' = [worker EXCEPT ![w].phase = "embedded", ![w].stop = "no"]
  BY DEF Embed
<1> DEFINE p == [worker[w] EXCEPT !.phase = "embedded", !.stop = "no"]
<1>2. worker[w] \in Process
  BY DEF WorkersTyped
<1>3. p \in Process
  BY <1>2 DEF Process, Phases
<1>4. worker' = [worker EXCEPT ![w] = p]
  BY <1>1, <1>2 DEF WorkersTyped, Process
<1> HIDE DEF p
<1>5. Alters(w) /\ worker'[w] = p
  BY <1>3, <1>4, FreshIs
<1> QED
  BY <1>2, <1>5 DEF Same, Idle, Process, p

(* The chunks of its row are published. *)
LEMMA PublishIs ==
    ASSUME WorkersTyped, NEW w \in Workers, Publish(w)
    PROVE  Alters(w) /\ Same(w, {"phase"}) /\ worker'[w].phase = "published"
BY DEF Publish, WorkersTyped, Alters, Same, Idle, Process, Phases

(* A process that finds its file gone. *)
LEMMA PurgeIs ==
    ASSUME WorkersTyped, NEW w \in Workers, Purge(w)
    PROVE  /\ Alters(w)
           /\ worker'[w].kind = worker[w].kind
           /\ worker'[w].old = 0 /\ worker'[w].new = 0
           /\ Scans(w) =>
                /\ worker'[w].phase = "looking" /\ worker'[w].file = Gone
                /\ worker'[w].snapshot = worker[w].snapshot
                /\ worker'[w].todo = worker[w].todo \ {worker[w].file}
                /\ worker'[w].missing = worker[w].missing \cup {worker[w].file}
                /\ worker'[w].stop = worker[w].stop
           /\ ~Scans(w) =>
                /\ worker'[w].phase = "finished" /\ worker'[w].file = worker[w].file
                /\ worker'[w].stamp = worker[w].stamp /\ worker'[w].result = "ok"
                /\ worker'[w].snapshot = {} /\ worker'[w].missing = {}
                /\ worker'[w].stop = "unread"
<1> DEFINE next == Finished(w, "ok")
<1>1. "ok" \in Results
  BY DEF Results
<1>2. CASE ~Scans(w)
  BY <1>1, <1>2, FinishedIs DEF Purge, Alters
<1>3. CASE Scans(w)
  <2>1. /\ next \in [Workers -> Process]
        /\ \A v \in Workers \ {w} : next[v] = worker[v]
        /\ next[w].kind = worker[w].kind
        /\ next[w].old = 0 /\ next[w].new = 0
        /\ next[w].phase = "looking" /\ next[w].file = Gone
        /\ next[w].snapshot = worker[w].snapshot
        /\ next[w].todo = worker[w].todo \ {worker[w].file}
        /\ next[w].missing = worker[w].missing
        /\ next[w].stop = worker[w].stop
    BY <1>1, <1>3, FinishedIs
  <2>2. worker[w].file \in Files
    BY DEF Purge, Looks, WorkersTyped, Process
  <2>3. worker' = [next EXCEPT ![w].missing = @ \cup {worker[w].file}]
    BY <1>3 DEF Purge
  <2> HIDE DEF next
  <2> DEFINE p == [next[w] EXCEPT !.missing = @ \cup {worker[w].file}]
  <2>4. next[w] \in Process
    BY <2>1
  <2>5. p \in Process
    BY <2>2, <2>4 DEF Process
  <2>6. worker' = [next EXCEPT ![w] = p]
    BY <2>1, <2>3
  <2>7. worker'[w] = p
    BY <2>1, <2>6
  <2>8. p.kind = next[w].kind /\ p.old = next[w].old /\ p.new = next[w].new
        /\ p.phase = next[w].phase /\ p.file = next[w].file /\ p.snapshot = next[w].snapshot
        /\ p.todo = next[w].todo /\ p.missing = next[w].missing \cup {worker[w].file}
        /\ p.stop = next[w].stop
    BY <2>4 DEF Process
  <2>9. Alters(w)
    BY <2>1, <2>5, <2>6 DEF Alters
  <2> HIDE DEF p
  <2> QED
    BY <1>3, <2>1, <2>7, <2>8, <2>9
<1> QED
  BY <1>2, <1>3

-----------------------------------------------------------------------------
(* Ids of rows. *)

(* A set of numbers that is not empty has a least member. *)
LEMMA LeastMember ==
    ASSUME NEW S \in SUBSET Nat, S # {}
    PROVE  \E x \in S : \A y \in S : x <= y
<1> DEFINE R == {ss \in Nat \X Nat : ss[1] < ss[2]}
<1>1. IsWellFoundedOn(R, Nat)
  BY NatLessThanWellFounded DEF OpToRel
<1>2. PICK x \in S : \A y \in S : <<y, x>> \notin R
  <2> HIDE DEF R
  <2> QED BY <1>1, WFMin
<1>3. ASSUME NEW y \in S
      PROVE  x <= y
  <2>1. y < x => <<y, x>> \in R
    OBVIOUS
  <2> QED
    BY <1>2, <2>1
<1> QED
  BY <1>3

(* A bounded one has a largest. *)
LEMMA LargestMember ==
    ASSUME NEW n \in Nat, NEW S \in SUBSET (0..n), S # {}
    PROVE  Max(S) \in S /\ \A y \in S : y <= Max(S)
<1> DEFINE D == {n - y : y \in S}
<1>0. \A y \in S : y \in Nat /\ y <= n
  OBVIOUS
<1>1. D \in SUBSET Nat /\ D # {}
  <2>1. \A y \in S : n - y \in Nat
    BY <1>0
  <2> QED
    BY <2>1
<1>2. PICK d \in D : \A e \in D : d <= e
  <2> HIDE DEF D
  <2> QED BY <1>1, LeastMember
<1>3. PICK x \in S : d = n - x
  BY <1>2
<1>4. \A y \in S : x >= y
  <2>1. SUFFICES ASSUME NEW y \in S PROVE x >= y
    OBVIOUS
  <2>2. n - y \in D
    OBVIOUS
  <2>3. x \in Nat /\ y \in Nat
    BY <1>0
  <2>4. n - x <= n - y
    BY <1>2, <1>3, <2>2
  <2> QED
    BY <2>3, <2>4
<1>5. Max(S) \in S /\ \A y \in S : Max(S) >= y
  BY <1>3, <1>4 DEF Max
<1> QED
  BY <1>5

(* The id of a new row is larger than any in use or remembered. *)
LEMMA NextIdIsNew ==
    ASSUME DocsTyped, WorkersTyped
    PROVE  /\ NextId \in Nat \ {0}
           /\ \A d \in docs : d.id < NextId
           /\ \A w \in Workers : worker[w].old < NextId /\ worker[w].new < NextId
           /\ \A w \in Workers : \A d \in worker[w].snapshot : d.id < NextId
<1> DEFINE A == {d.id : d \in docs}
           B == UNION {{worker[w].old, worker[w].new} : w \in Workers}
           C == UNION {{d.id : d \in worker[w].snapshot} : w \in Workers}
           S == {0} \cup A \cup B \cup C
<1>1. MaxDocs \in Nat
  BY IndexAssumption
<1>2. \A d \in Doc : d.id \in 0..MaxDocs
  BY <1>1 DEF Doc, DocIds
<1>3. \A w \in Workers : /\ worker[w].old \in 0..MaxDocs /\ worker[w].new \in 0..MaxDocs
                         /\ worker[w].snapshot \subseteq Doc
  BY DEF WorkersTyped, Process
<1>4. S \in SUBSET (0..MaxDocs) /\ S # {}
  <2>1. A \subseteq 0..MaxDocs
    BY <1>2 DEF DocsTyped
  <2>2. B \subseteq 0..MaxDocs
    BY <1>3
  <2>3. C \subseteq 0..MaxDocs
    BY <1>2, <1>3
  <2>4. 0 \in 0..MaxDocs
    BY <1>1
  <2> HIDE DEF A, B, C
  <2> QED
    BY <2>1, <2>2, <2>3, <2>4
<1>5. \A d \in docs : d.id \in S
  <2>1. \A d \in docs : d.id \in A
    OBVIOUS
  <2> HIDE DEF A, B, C
  <2> QED
    BY <2>1
<1>6. \A w \in Workers : worker[w].old \in S /\ worker[w].new \in S
  <2>1. \A w \in Workers : worker[w].old \in B /\ worker[w].new \in B
    OBVIOUS
  <2> HIDE DEF A, B, C
  <2> QED
    BY <2>1
<1>7. \A w \in Workers : \A d \in worker[w].snapshot : d.id \in S
  <2>1. \A w \in Workers : \A d \in worker[w].snapshot : d.id \in C
    OBVIOUS
  <2> HIDE DEF A, B, C
  <2> QED
    BY <2>1
<1>8. NextId = 1 + Max(S)
  BY DEF NextId
<1> HIDE DEF S
<1>9. Max(S) \in S /\ \A y \in S : y <= Max(S)
  BY <1>1, <1>4, LargestMember
<1>10. Max(S) \in Nat /\ \A y \in S : y \in Nat
  <2>1. \A y \in 0..MaxDocs : y \in Nat
    BY <1>1
  <2> QED
    BY <1>4, <1>9, <2>1
<1> QED
  BY <1>5, <1>6, <1>7, <1>8, <1>9, <1>10

-----------------------------------------------------------------------------
(* Every step keeps the types. *)

(* The user's files change in three ways only. *)
LEMMA FilesChange ==
    ASSUME [Next]_vars
    PROVE  UNCHANGED fileVars \/ \E f \in Files : Write(f) \/ Mark(f) \/ MarkLost(f)
<1>1. ASSUME NEW f \in Files, ClaimExpires(f) \/ \E w \in Workers : Claim(w, f) \/ Visit(w, f)
      PROVE  UNCHANGED fileVars
  BY <1>1 DEF ClaimExpires, Claim, Visit
<1>2. ASSUME NEW w \in Workers, FileStep(w) \/ Setback(w)
      PROVE  UNCHANGED fileVars
  BY <1>2 DEF FileStep, Look, Purge, Unchanged, Read, Stage, Embed, Publish, RemoveOld, Discard, Setback,
              YieldsToChat, FlushDeferred, ExtractionFails, EmbeddingFails, Unembeddable
<1>3. ASSUME NEW w \in Workers, JobStep(w) \/ StartRequested(w) \/ EndPeriodic(w) \/ EndRequested(w)
      PROVE  UNCHANGED fileVars
  BY <1>3 DEF JobStep, AcquireLock, ReleaseLock, Settle, StartRequested, EndPeriodic, EndRequested
<1>4. ASSUME NEW w \in Workers, StartPeriodic(w) \/ RequestPass(w) \/ Queued(w) \/ Dies(w)
      PROVE  UNCHANGED fileVars
  BY <1>4 DEF StartPeriodic, RequestPass, Queued, Dies
<1>5. Stop \/ Recover \/ LockExpires \/ UNCHANGED vars => UNCHANGED fileVars
  BY DEF Stop, Recover, LockExpires, vars, fileVars
<1> QED
  BY <1>1, <1>2, <1>3, <1>4, <1>5 DEF Next, PassStep

(* The files and the hooks behind them keep their types; at most as many hooks *)
(* are waiting as files were written.                                         *)
LEMMA FilesStayTyped ==
    ASSUME FilesTyped, [Next]_vars
    PROVE  FilesTyped'
<1>1. CASE UNCHANGED fileVars
  BY <1>1 DEF fileVars, FilesTyped
<1>2. ASSUME NEW f \in Files, Write(f)
      PROVE  FilesTyped'
  <2>1. writes \in Nat /\ writes + 1 \in 0..MaxWrites
    BY <1>2, IndexAssumption DEF Write, FilesTyped
  <2>2. disk' \in [Files -> Version]
    BY <1>2, <2>1 DEF Write, FilesTyped, Version
  <2>3. unmarked[f] \in Nat /\ unmarked[f] + 1 <= writes + 1
    BY <1>2, <2>1 DEF FilesTyped
  <2>4. unmarked[f] + 1 \in 0..MaxWrites
    BY <2>1, <2>3, IndexAssumption
  <2>5. unmarked' \in [Files -> 0..MaxWrites]
    BY <1>2, <2>4 DEF Write, FilesTyped
  <2>6. \A g \in Files : unmarked'[g] <= writes'
    <3>1. SUFFICES ASSUME NEW g \in Files
                   PROVE  unmarked'[g] <= writes'
      OBVIOUS
    <3>2. unmarked[g] \in Nat /\ unmarked[g] <= writes
      BY DEF FilesTyped
    <3> QED
      BY <1>2, <2>1, <2>3, <3>2 DEF Write, FilesTyped
  <2> QED
    BY <1>2, <2>1, <2>2, <2>5, <2>6 DEF Write, FilesTyped
<1>3. ASSUME NEW f \in Files, Mark(f) \/ MarkLost(f)
      PROVE  FilesTyped'
  <2>1. /\ unmarked' = [unmarked EXCEPT ![f] = @ - 1] /\ unmarked[f] > 0
        /\ UNCHANGED <<disk, writes, faults>>
    BY <1>3 DEF Mark, MarkLost
  <2>2. unmarked[f] - 1 \in 0..MaxWrites
    BY <2>1, IndexAssumption DEF FilesTyped
  <2>3. \A g \in Files : unmarked'[g] <= writes
    <3>1. SUFFICES ASSUME NEW g \in Files
                   PROVE  unmarked'[g] <= writes
      OBVIOUS
    <3>2. unmarked[g] \in Nat /\ unmarked[g] <= writes /\ writes \in Nat
      BY IndexAssumption DEF FilesTyped
    <3>3. unmarked'[g] = IF g = f THEN unmarked[g] - 1 ELSE unmarked[g]
      BY <2>1 DEF FilesTyped
    <3> QED
      BY <3>2, <3>3
  <2> QED
    BY <2>1, <2>2, <2>3 DEF FilesTyped
<1> QED
  BY <1>1, <1>2, <1>3, FilesChange

(* The queue of changed files changes in four ways only. *)
LEMMA QueueChanges ==
    ASSUME [Next]_vars
    PROVE  \/ UNCHANGED dirtyVars
           \/ \E f \in Files : Mark(f) \/ ClaimExpires(f)
           \/ \E w \in Workers : Settle(w) \/ \E f \in Files : Claim(w, f)
<1>1. ASSUME NEW f \in Files, Write(f) \/ MarkLost(f) \/ \E w \in Workers : Visit(w, f)
      PROVE  UNCHANGED dirtyVars
  BY <1>1 DEF Write, MarkLost, Visit
<1>2. ASSUME NEW w \in Workers, FileStep(w) \/ Setback(w)
      PROVE  UNCHANGED dirtyVars
  BY <1>2 DEF FileStep, Look, Purge, Unchanged, Read, Stage, Embed, Publish, RemoveOld, Discard, Setback,
              YieldsToChat, FlushDeferred, ExtractionFails, EmbeddingFails, Unembeddable
<1>3. ASSUME NEW w \in Workers,
             AcquireLock(w) \/ ReleaseLock(w) \/ StartRequested(w) \/ EndPeriodic(w) \/ EndRequested(w)
      PROVE  UNCHANGED dirtyVars
  BY <1>3 DEF AcquireLock, ReleaseLock, StartRequested, EndPeriodic, EndRequested
<1>4. ASSUME NEW w \in Workers, StartPeriodic(w) \/ RequestPass(w) \/ Queued(w) \/ Dies(w)
      PROVE  UNCHANGED dirtyVars
  BY <1>4 DEF StartPeriodic, RequestPass, Queued, Dies
<1>5. Stop \/ Recover \/ LockExpires \/ UNCHANGED vars => UNCHANGED dirtyVars
  BY DEF Stop, Recover, LockExpires, vars, dirtyVars
<1> QED
  BY <1>1, <1>2, <1>3, <1>4, <1>5 DEF Next, PassStep, JobStep

(* One entry of the queue is replaced by another of its type. *)
LEMMA EntryReplaced ==
    ASSUME QueueTyped, NEW f \in Files, NEW e \in Entry,
           dirty' = [dirty EXCEPT ![f] = e], marks' \in 0..MaxMarks, marks <= marks',
           e.status \in {"pending", "running"} => e.attempts < MaxAttempts,
           e.stamp <= marks', e.status = "absent" <=> e.stamp = 0
    PROVE  QueueTyped'
<1>1. marks \in Nat /\ marks' \in Nat
  BY DirtyAssumption DEF QueueTyped, DirtyTypeOK
<1>2. \A g \in Files : dirty[g].stamp \in Nat /\ dirty[g].stamp <= marks
  BY DirtyAssumption DEF QueueTyped, DirtyTypeOK, Entry
<1>3. \A g \in Files : dirty'[g] = IF g = f THEN e ELSE dirty[g]
  BY DEF QueueTyped, DirtyTypeOK
<1>4. dirty' \in [Files -> Entry]
  BY DEF QueueTyped, DirtyTypeOK
<1>5. \A g \in Files : dirty'[g].stamp <= marks'
  BY <1>1, <1>2, <1>3
<1> QED
  BY <1>3, <1>4, <1>5 DEF QueueTyped, DirtyTypeOK

(* However a claim is settled, its entry keeps its type. *)
LEMMA SettleTyped ==
    ASSUME QueueTyped, NEW w \in Workers, Settle(w),
           worker[w].file \in Files, worker[w].result \in Results
    PROVE  QueueTyped'
<1> DEFINE f == worker[w].file
           s == worker[w].stamp
<1>1. MaxAttempts \in Nat /\ MaxAttempts > 0 /\ MaxMarks \in Nat
  BY DirtyAssumption
<1>2. marks' \in 0..MaxMarks /\ marks <= marks' /\ marks' = marks
  BY DirtyAssumption DEF Settle, QueueTyped, DirtyTypeOK
<1>3. CASE dirty' = dirty
  BY <1>2, <1>3 DEF QueueTyped, DirtyTypeOK
<1>4. CASE Owns(f, s) /\ dirty' # dirty
  <2>1. /\ dirty[f] \in Entry /\ dirty[f].status = "running" /\ dirty[f].stamp = s
        /\ dirty[f].attempts < MaxAttempts /\ dirty[f].stamp <= marks /\ dirty[f].stamp # 0
        /\ dirty[f].attempts \in Nat
    BY <1>1, <1>4 DEF Owns, QueueTyped, DirtyTypeOK, Entry
  <2>2. CASE dirty' = [dirty EXCEPT ![f] = NoEntry]
    <3>1. NoEntry \in Entry
      BY <1>1 DEF NoEntry, Entry, EntryStatuses
    <3>2. NoEntry.stamp = 0 /\ NoEntry.status = "absent" /\ 0 <= marks
      BY <1>1 DEF NoEntry, QueueTyped, DirtyTypeOK
    <3> QED
      BY <1>2, <2>2, <3>1, <3>2, EntryReplaced
  <2>3. CASE dirty' = [dirty EXCEPT ![f] =
                         [status   |-> IF dirty[f].attempts + 1 >= MaxAttempts THEN "failed" ELSE "pending",
                          attempts |-> dirty[f].attempts + 1, stamp |-> s, live |-> FALSE]]
    <3> DEFINE e == [status   |-> IF dirty[f].attempts + 1 >= MaxAttempts THEN "failed" ELSE "pending",
                     attempts |-> dirty[f].attempts + 1, stamp |-> s, live |-> FALSE]
    <3>1. dirty[f].attempts + 1 \in 0..MaxAttempts
      BY <1>1, <2>1
    <3>2. s \in 0..MaxMarks
      BY <2>1 DEF Entry
    <3>3. e \in Entry
      BY <3>1, <3>2 DEF Entry, EntryStatuses
    <3>4. /\ e.status \in {"pending", "running"} => e.attempts < MaxAttempts
          /\ e.stamp = s /\ e.status # "absent"
      BY <1>1, <2>1
    <3> HIDE DEF e, f, s
    <3>5. dirty' = [dirty EXCEPT ![f] = e]
      BY <2>3 DEF e
    <3> QED
      BY <1>2, <2>1, <3>3, <3>4, <3>5, EntryReplaced DEF f
  <2>4. CASE dirty' = [dirty EXCEPT ![f].status = "pending", ![f].live = FALSE]
    <3> DEFINE e == [dirty[f] EXCEPT !.status = "pending", !.live = FALSE]
    <3>1. e \in Entry /\ e.status = "pending" /\ e.attempts = dirty[f].attempts /\ e.stamp = s
      BY <2>1 DEF Entry, EntryStatuses
    <3>2. dirty' = [dirty EXCEPT ![f] = e]
      BY <2>1, <2>4 DEF QueueTyped, DirtyTypeOK, Entry
    <3> HIDE DEF e, f, s
    <3> QED
      BY <1>2, <2>1, <3>1, <3>2, EntryReplaced DEF f
  <2> QED
    BY <1>4, <2>2, <2>3, <2>4 DEF Settle, Acknowledged, Requeued, Deferred, Results
<1> QED
  BY <1>3, <1>4 DEF Settle, Acknowledged, Requeued, Deferred, Results

(* The queue keeps its types: a mark is bounded by the writes before it. *)
LEMMA QueueStaysTyped ==
    ASSUME QueueTyped, WorkersTyped, [Next]_vars
    PROVE  QueueTyped'
<1>1. CASE UNCHANGED dirtyVars
  BY <1>1 DEF dirtyVars, QueueTyped, DirtyTypeOK
<1>2. ASSUME NEW f \in Files, Mark(f)
      PROVE  QueueTyped'
  <2> DEFINE e == [status |-> "pending", attempts |-> 0, stamp |-> marks + 1, live |-> FALSE]
  <2>1. dirty' = [dirty EXCEPT ![f] = e] /\ marks < MaxMarks /\ marks' = marks + 1
    BY <1>2 DEF Mark, MarkFile
  <2>2. marks \in Nat /\ marks + 1 \in 0..MaxMarks
    BY <2>1, DirtyAssumption DEF QueueTyped, DirtyTypeOK
  <2>3. e \in Entry
    BY <2>2, DirtyAssumption DEF Entry, EntryStatuses
  <2>4. /\ e.attempts < MaxAttempts /\ e.stamp <= marks' /\ e.status # "absent" /\ e.stamp # 0
        /\ marks <= marks' /\ marks' \in 0..MaxMarks
    BY <2>1, <2>2, DirtyAssumption
  <2> HIDE DEF e
  <2> QED
    BY <2>1, <2>3, <2>4, EntryReplaced
<1>3. ASSUME NEW f \in Files, ClaimExpires(f)
      PROVE  QueueTyped'
  <2> DEFINE e == [dirty[f] EXCEPT !.live = FALSE]
  <2>1. dirty[f] \in Entry /\ dirty[f].status = "running" /\ dirty[f].attempts < MaxAttempts
        /\ dirty[f].stamp <= marks /\ dirty[f].stamp # 0
    BY <1>3 DEF ClaimExpires, LeaseExpires, QueueTyped, DirtyTypeOK
  <2>2. e \in Entry /\ e.status = "running" /\ e.attempts = dirty[f].attempts /\ e.stamp = dirty[f].stamp
    BY <2>1 DEF Entry
  <2>3. dirty' = [dirty EXCEPT ![f] = e] /\ marks' = marks
    BY <1>3, <2>1 DEF ClaimExpires, LeaseExpires, QueueTyped, DirtyTypeOK, Entry
  <2>4. marks <= marks' /\ marks' \in 0..MaxMarks
    BY <2>3, DirtyAssumption DEF QueueTyped, DirtyTypeOK
  <2> HIDE DEF e
  <2> QED
    BY <2>1, <2>2, <2>3, <2>4, EntryReplaced
<1>4. ASSUME NEW w \in Workers, NEW f \in Files, Claim(w, f)
      PROVE  QueueTyped'
  <2> DEFINE e == [dirty[f] EXCEPT !.status = "running", !.live = TRUE]
  <2>1. dirty[f] \in Entry /\ dirty[f].status \in {"pending", "running"} /\ dirty[f].attempts < MaxAttempts
        /\ dirty[f].stamp <= marks /\ dirty[f].stamp # 0
    BY <1>4 DEF Claim, Due, QueueTyped, DirtyTypeOK
  <2>2. e \in Entry /\ e.status = "running" /\ e.attempts = dirty[f].attempts /\ e.stamp = dirty[f].stamp
    BY <2>1 DEF Entry, EntryStatuses
  <2>3. dirty' = [dirty EXCEPT ![f] = e] /\ marks' = marks
    BY <1>4, <2>1 DEF Claim, Claimed, QueueTyped, DirtyTypeOK, Entry
  <2>4. marks <= marks' /\ marks' \in 0..MaxMarks
    BY <2>3, DirtyAssumption DEF QueueTyped, DirtyTypeOK
  <2> HIDE DEF e
  <2> QED
    BY <2>1, <2>2, <2>3, <2>4, EntryReplaced
<1>5. ASSUME NEW w \in Workers, Settle(w)
      PROVE  QueueTyped'
  <2>1. ~Scans(w) /\ worker[w].phase # "idle"
    BY <1>5 DEF Settle, WorkersTyped, Remembers
  <2>2. worker[w].file \in Files /\ worker[w].result \in Results
    BY <2>1 DEF WorkersTyped, Remembers, Process
  <2> QED
    BY <1>5, <2>2, SettleTyped
<1> QED
  BY <1>1, <1>2, <1>3, <1>4, <1>5, QueueChanges

(* The lock row and the flags of a run keep their types. *)
LEMMA RunStaysTyped ==
    ASSUME RunTyped, [Next]_vars
    PROVE  RunTyped'
<1>1. ASSUME NEW f \in Files, Write(f) \/ Mark(f) \/ MarkLost(f) \/ ClaimExpires(f)
                              \/ \E w \in Workers : Claim(w, f) \/ Visit(w, f)
      PROVE  RunTyped'
  BY <1>1 DEF Write, Mark, MarkLost, ClaimExpires, Claim, Visit, runVars, RunTyped
<1>2. ASSUME NEW w \in Workers, FileStep(w) \/ Setback(w)
      PROVE  UNCHANGED runVars
  BY <1>2 DEF FileStep, Look, Purge, Unchanged, Read, Stage, Embed, Publish, RemoveOld, Discard, Setback,
              YieldsToChat, FlushDeferred, ExtractionFails, EmbeddingFails, Unembeddable
<1>3. ASSUME NEW w \in Workers, AcquireLock(w) \/ ReleaseLock(w) \/ Settle(w) \/ StartRequested(w)
      PROVE  RunTyped'
  BY <1>3 DEF AcquireLock, ReleaseLock, Settle, StartRequested, runVars, RunTyped
<1>4. ASSUME NEW w \in Workers, EndPeriodic(w) \/ EndRequested(w)
      PROVE  RunTyped'
  BY <1>4 DEF EndPeriodic, EndRequested, RunTyped
<1>5. ASSUME NEW w \in Workers, StartPeriodic(w) \/ RequestPass(w) \/ Queued(w) \/ Dies(w)
      PROVE  RunTyped'
  BY <1>5 DEF StartPeriodic, RequestPass, Queued, Dies, RunTyped
<1>6. Stop \/ Recover \/ LockExpires \/ UNCHANGED vars => RunTyped'
  BY DEF Stop, Recover, LockExpires, vars, RunTyped
<1>7. UNCHANGED runVars => RunTyped'
  BY DEF runVars, RunTyped
<1> QED
  BY <1>1, <1>2, <1>3, <1>4, <1>5, <1>6, <1>7 DEF Next, PassStep, JobStep

(* The rows change in eleven ways only; six of them only remove rows. *)
Removes(w) ==
    \/ Purge(w) \/ RemoveOld(w) \/ Discard(w)
    \/ FlushDeferred(w) \/ EmbeddingFails(w) \/ Unembeddable(w)

(* Every other step leaves the rows as they are. *)
LEMMA DocsChange ==
    ASSUME [Next]_vars
    PROVE  \/ UNCHANGED docs
           \/ \E w \in Workers : Removes(w) \/ Stage(w) \/ Publish(w) \/ Unchanged(w)
                                 \/ EndPeriodic(w) \/ EndRequested(w)
<1>1. ASSUME NEW f \in Files, Write(f) \/ Mark(f) \/ MarkLost(f) \/ ClaimExpires(f)
                              \/ \E w \in Workers : Claim(w, f) \/ Visit(w, f)
      PROVE  UNCHANGED docs
  BY <1>1 DEF Write, Mark, MarkLost, ClaimExpires, Claim, Visit
<1>2. ASSUME NEW w \in Workers, Read(w) \/ Embed(w) \/ YieldsToChat(w) \/ ExtractionFails(w)
      PROVE  UNCHANGED docs
  BY <1>2 DEF Read, Embed, YieldsToChat, ExtractionFails
<1>3. ASSUME NEW w \in Workers, AcquireLock(w) \/ ReleaseLock(w) \/ Settle(w) \/ StartRequested(w)
      PROVE  UNCHANGED docs
  BY <1>3 DEF AcquireLock, ReleaseLock, Settle, StartRequested
<1>4. ASSUME NEW w \in Workers, StartPeriodic(w) \/ RequestPass(w) \/ Queued(w) \/ Dies(w)
      PROVE  UNCHANGED docs
  BY <1>4 DEF StartPeriodic, RequestPass, Queued, Dies
<1>5. Stop \/ Recover \/ LockExpires \/ UNCHANGED vars => UNCHANGED docs
  BY DEF Stop, Recover, LockExpires, vars
<1> QED
  BY <1>1, <1>2, <1>3, <1>4, <1>5 DEF Next, PassStep, JobStep, FileStep, Look, Setback, Removes

(* The rows keep their types, and no two of them share an id. *)
LEMMA DocsStayTyped ==
    ASSUME FilesTyped, DocsTyped, WorkersTyped, [Next]_vars
    PROVE  DocsTyped'
<1>1. CASE docs' \subseteq docs
  BY <1>1 DEF DocsTyped
<1>2. ASSUME NEW w \in Workers, Removes(w)
      PROVE  docs' \subseteq docs
  BY <1>2 DEF Removes, Purge, RemoveOld, Discard, FlushDeferred, EmbeddingFails, Unembeddable, Freed
<1>3. ASSUME NEW w \in Workers, EndPeriodic(w) \/ EndRequested(w)
      PROVE  docs' \subseteq docs
  BY <1>3 DEF EndPeriodic, EndRequested
<1>4. ASSUME NEW w \in Workers, Stage(w)
      PROVE  DocsTyped'
  <2> DEFINE n == [id |-> NextId, file |-> worker[w].file, content |-> worker[w].content,
                   mtime |-> worker[w].mtime, chunks |-> FALSE]
  <2>1. NextId \in Nat \ {0} /\ \A d \in docs : d.id < NextId
    BY NextIdIsNew
  <2>2. NextId \in DocIds
    BY <1>4, <2>1, IndexAssumption DEF Stage, DocIds
  <2>3. Middle(w)
    BY <1>4 DEF Stage, Middle
  <2>4. worker[w].file \in Files /\ worker[w].content \in Contents /\ worker[w].mtime \in 0..MaxWrites
    BY <2>3 DEF WorkersTyped, Remembers, Process
  <2>5. n \in Doc /\ n.id = NextId
    BY <2>2, <2>4 DEF Doc
  <2>6. docs' = docs \cup {n}
    BY <1>4 DEF Stage
  <2>7. \A d \in docs : d.id # n.id
    <3>1. SUFFICES ASSUME NEW d \in docs PROVE d.id # NextId
      OBVIOUS
    <3>2. d.id \in Nat
      BY IndexAssumption DEF DocsTyped, Doc, DocIds
    <3> QED
      BY <2>1, <3>2
  <2> HIDE DEF n
  <2> QED
    BY <2>5, <2>6, <2>7 DEF DocsTyped
<1>5. ASSUME NEW w \in Workers, Publish(w)
      PROVE  DocsTyped'
  <2> DEFINE pub(d) == IF d.id = worker[w].new THEN [d EXCEPT !.chunks = TRUE] ELSE d
  <2>1. docs' = {pub(d) : d \in docs}
    BY <1>5 DEF Publish
  <2>2. ASSUME NEW d \in docs
        PROVE  pub(d) \in Doc /\ pub(d).id = d.id
    <3>1. d \in Doc
      BY DEF DocsTyped
    <3> QED
      BY <3>1 DEF Doc
  <2> HIDE DEF pub
  <2> QED
    BY <2>1, <2>2 DEF DocsTyped
<1>6. ASSUME NEW w \in Workers, Unchanged(w)
      PROVE  DocsTyped'
  <2> DEFINE f == worker[w].file
  <2>1. f \in Files
    BY <1>6 DEF Unchanged, Looks, WorkersTyped, Process
  <2>2. CASE docs' = docs
    BY <2>2 DEF DocsTyped
  <2>3. ASSUME NEW e \in DocsOf(f), docs' = (docs \ {e}) \cup {[e EXCEPT !.mtime = disk[f].mtime]}
        PROVE  DocsTyped'
    <3> DEFINE n == [e EXCEPT !.mtime = disk[f].mtime]
    <3>1. e \in docs /\ e \in Doc
      BY DEF DocsOf, DocsTyped
    <3>2. disk[f].mtime \in 0..MaxWrites
      BY <2>1 DEF FilesTyped, Version
    <3>3. n \in Doc /\ n.id = e.id
      BY <3>1, <3>2 DEF Doc
    <3> HIDE DEF n
    <3>4. docs' = (docs \ {e}) \cup {n}
      BY <2>3 DEF n
    <3> QED
      BY <3>1, <3>3, <3>4 DEF DocsTyped
  <2> QED
    BY <1>6, <2>2, <2>3 DEF Unchanged
<1> QED
  BY <1>1, <1>2, <1>3, <1>4, <1>5, <1>6, DocsChange

(* The steps of a process, sorted by what they make of it. *)
ToIdle(w) ==
    /\ Settle(w) \/ EndPeriodic(w) \/ EndRequested(w) \/ Dies(w)
    /\ worker' = [worker EXCEPT ![w] = Idle]
ToWaiting(w) ==
    /\ RequestPass(w) \/ EndRequested(w)
    /\ worker' = [worker EXCEPT ![w] = [Idle EXCEPT !.kind = "request", !.phase = "waiting"]]
ToFinished(w) ==
    /\ \/ Unchanged(w) \/ YieldsToChat(w) \/ ExtractionFails(w) \/ Discard(w) \/ FlushDeferred(w)
       \/ EmbeddingFails(w) \/ Unembeddable(w) \/ RemoveOld(w)
    /\ \E r \in Results : worker' = Finished(w, r)
Begins(w) ==
    \/ StartRequested(w) /\ worker' = Started(w, "request")
    \/ StartPeriodic(w) /\ worker' = Started(w, "cron")

(* Every step of a process is one of these. *)
LEMMA WorkersChange ==
    ASSUME [Next]_vars
    PROVE  \/ UNCHANGED worker
           \/ \E w \in Workers :
                 \/ ToIdle(w) \/ ToWaiting(w) \/ ToFinished(w) \/ Begins(w)
                 \/ AcquireLock(w) \/ ReleaseLock(w)
                 \/ Purge(w) \/ Read(w) \/ Stage(w) \/ Embed(w) \/ Publish(w)
                 \/ \E f \in Files : Claim(w, f) \/ Visit(w, f)
<1>1. ASSUME NEW f \in Files, Write(f) \/ Mark(f) \/ MarkLost(f) \/ ClaimExpires(f)
      PROVE  UNCHANGED worker
  BY <1>1 DEF Write, Mark, MarkLost, ClaimExpires
<1>2. ASSUME NEW w \in Workers, Settle(w) \/ EndPeriodic(w) \/ Dies(w)
      PROVE  ToIdle(w)
  BY <1>2 DEF Settle, EndPeriodic, Dies, ToIdle
<1>3. ASSUME NEW w \in Workers, RequestPass(w) \/ EndRequested(w)
      PROVE  ToWaiting(w) \/ ToIdle(w)
  BY <1>3 DEF RequestPass, EndRequested, ToWaiting, ToIdle
<1>4. ASSUME NEW w \in Workers,
             \/ Unchanged(w) \/ YieldsToChat(w) \/ ExtractionFails(w) \/ Discard(w) \/ FlushDeferred(w)
             \/ EmbeddingFails(w) \/ Unembeddable(w) \/ RemoveOld(w)
      PROVE  ToFinished(w)
  BY <1>4 DEF Unchanged, YieldsToChat, ExtractionFails, Discard, FlushDeferred, EmbeddingFails,
              Unembeddable, RemoveOld, ToFinished, Results
<1>5. ASSUME NEW w \in Workers, StartRequested(w) \/ StartPeriodic(w)
      PROVE  Begins(w)
  BY <1>5 DEF StartRequested, StartPeriodic, Begins
<1>6. ASSUME NEW w \in Workers, Queued(w)
      PROVE  UNCHANGED worker
  BY <1>6 DEF Queued
<1>7. Stop \/ Recover \/ LockExpires \/ UNCHANGED vars => UNCHANGED worker
  BY DEF Stop, Recover, LockExpires, vars
<1> QED
  BY <1>1, <1>2, <1>3, <1>4, <1>5, <1>6, <1>7 DEF Next, PassStep, JobStep, FileStep, Look, Setback

(* A step leaves what the other processes remember fitting; the numbers of     *)
(* marks only grow.                                                           *)
LEMMA OthersRemember ==
    ASSUME QueueTyped, QueueTyped', WorkersTyped, [Next]_vars, NEW v \in Workers, worker'[v] = worker[v]
    PROVE  Remembers(v)'
<1>1. marks <= marks' /\ marks \in Nat /\ marks' \in Nat
  <2>1. marks \in Nat /\ marks' \in Nat
    BY DirtyAssumption DEF QueueTyped, DirtyTypeOK
  <2>2. UNCHANGED marks \/ marks' = marks + 1
    BY QueueChanges DEF dirtyVars, Mark, MarkFile, ClaimExpires, LeaseExpires, Settle, Claim
  <2> QED
    BY <2>1, <2>2
<1>2. worker[v].stamp \in Nat
  BY DirtyAssumption DEF WorkersTyped, Process
<1>3. worker[v].stamp \in 1..marks => worker[v].stamp \in 1..marks'
  BY <1>1, <1>2
<1>4. Remembers(v)
  BY DEF WorkersTyped
<1> QED
  BY <1>3, <1>4 DEF Remembers, Middle, HasRow, HoldsLock, Scans

(* It suffices to look at the process that takes the step. *)
LEMMA OneRemembers ==
    ASSUME QueueTyped, QueueTyped', WorkersTyped, [Next]_vars,
           NEW w \in Workers, Alters(w), Remembers(w)'
    PROVE  WorkersTyped'
<1>1. \A v \in Workers \ {w} : Remembers(v)'
  BY OthersRemember DEF Alters
<1> QED
  BY <1>1 DEF Alters, WorkersTyped

(* The processes keep their types, whatever step is taken. *)
LEMMA WorkersStayTyped ==
    ASSUME QueueTyped, QueueTyped', FilesTyped, DocsTyped, WorkersTyped, [Next]_vars
    PROVE  WorkersTyped'
<1>1. CASE UNCHANGED worker
  BY <1>1, OthersRemember DEF WorkersTyped
<1>2. ASSUME NEW w \in Workers, ToIdle(w)
      PROVE  Alters(w) /\ Remembers(w)'
  <2>1. Alters(w) /\ worker'[w] = Idle
    BY <1>2, IdleTyped, FreshIs DEF ToIdle
  <2> QED
    BY <2>1 DEF Remembers, Middle, HasRow, HoldsLock, Scans, Idle
<1>3. ASSUME NEW w \in Workers, ToWaiting(w)
      PROVE  Alters(w) /\ Remembers(w)'
  <2>1. Alters(w) /\ worker'[w] = [Idle EXCEPT !.kind = "request", !.phase = "waiting"]
    BY <1>3, RequestIs DEF ToWaiting
  <2> QED
    BY <2>1 DEF Remembers, Middle, HasRow, HoldsLock, Scans, Idle
<1>4. ASSUME NEW w \in Workers, ToFinished(w)
      PROVE  Alters(w) /\ Remembers(w)'
  <2>1. PICK r \in Results : worker' = Finished(w, r)
    BY <1>4 DEF ToFinished
  <2>2. worker[w].phase \notin {"idle", "waiting", "claimed", "released"}
    BY <1>4 DEF ToFinished, Unchanged, YieldsToChat, ExtractionFails, Discard, FlushDeferred,
                EmbeddingFails, Unembeddable, RemoveOld, Looks
  <2>3. Remembers(w)
    BY DEF WorkersTyped
  <2>4. Alters(w)
    BY <2>1, FinishedIs DEF Alters
  <2>5. CASE Scans(w)
    <3>1. /\ worker'[w].kind = worker[w].kind /\ worker'[w].phase = "looking" /\ worker'[w].file = Gone
          /\ worker'[w].old = 0 /\ worker'[w].new = 0
      BY <2>1, <2>5, FinishedIs
    <3> QED
      BY <2>4, <2>5, <3>1 DEF Remembers, Middle, HasRow, HoldsLock, Scans
  <2>6. CASE ~Scans(w)
    <3>1. /\ worker'[w].kind = worker[w].kind /\ worker'[w].phase = "finished"
          /\ worker'[w].file = worker[w].file /\ worker'[w].stamp = worker[w].stamp
          /\ worker'[w].snapshot = {} /\ worker'[w].missing = {}
          /\ worker'[w].old = 0 /\ worker'[w].new = 0
      BY <2>1, <2>6, FinishedIs
    <3>2. worker[w].file \in Files /\ worker[w].stamp \in 1..marks /\ marks' = marks
      <4>1. UNCHANGED marks
        BY <1>4 DEF ToFinished, Unchanged, YieldsToChat, ExtractionFails, Discard, FlushDeferred,
                    EmbeddingFails, Unembeddable, RemoveOld, dirtyVars
      <4> QED
        BY <2>2, <2>3, <2>6, <4>1 DEF Remembers
    <3> QED
      BY <2>4, <2>6, <3>1, <3>2 DEF Remembers, Middle, HasRow, HoldsLock, Scans
  <2> QED
    BY <2>5, <2>6
<1>5. ASSUME NEW w \in Workers, NEW kind \in {"cron", "request"}, worker' = Started(w, kind)
      PROVE  Alters(w) /\ Remembers(w)'
  <2>1. Alters(w) /\ worker'[w] = [Idle EXCEPT !.kind = kind, !.phase = "looking",
                                               !.snapshot = Snapshot, !.todo = Files]
    BY <1>5, StartedIs
  <2> QED
    BY <2>1 DEF Remembers, Middle, HasRow, HoldsLock, Scans, Idle
<1>6. ASSUME NEW w \in Workers, AcquireLock(w)
      PROVE  Alters(w) /\ Remembers(w)'
  <2>1. /\ Alters(w) /\ Same(w, {"phase", "result"}) /\ worker[w].phase = "claimed"
        /\ worker'[w].phase \in {"looking", "released"} /\ marks' = marks
    BY <1>6, AcquireLockIs DEF AcquireLock, dirtyVars
  <2> QED
    BY <2>1 DEF WorkersTyped, Remembers, Middle, HasRow, HoldsLock, Scans, Same, Idle
<1>7. ASSUME NEW w \in Workers, ReleaseLock(w)
      PROVE  Alters(w) /\ Remembers(w)'
  <2>1. /\ Alters(w) /\ Same(w, {"phase"}) /\ worker[w].phase = "finished"
        /\ worker'[w].phase = "released" /\ marks' = marks
    BY <1>7, ReleaseLockIs DEF ReleaseLock, dirtyVars
  <2> QED
    BY <2>1 DEF WorkersTyped, Remembers, Middle, HasRow, HoldsLock, Scans, Same, Idle
<1>8. ASSUME NEW w \in Workers, Purge(w)
      PROVE  Alters(w) /\ Remembers(w)'
  <2>1. worker[w].phase = "looking" /\ marks' = marks /\ worker[w].file \in Files
    BY <1>8 DEF Purge, Looks, dirtyVars, WorkersTyped, Process
  <2>2. CASE Scans(w)
    <3>1. /\ Alters(w) /\ worker'[w].kind = worker[w].kind
          /\ worker'[w].phase = "looking" /\ worker'[w].file = Gone
          /\ worker'[w].old = 0 /\ worker'[w].new = 0
      BY <1>8, <2>2, PurgeIs
    <3> QED
      BY <2>2, <3>1 DEF Remembers, Middle, HasRow, HoldsLock, Scans
  <2>3. CASE ~Scans(w)
    <3>1. /\ Alters(w) /\ worker'[w].kind = worker[w].kind
          /\ worker'[w].phase = "finished" /\ worker'[w].file = worker[w].file
          /\ worker'[w].stamp = worker[w].stamp
          /\ worker'[w].snapshot = {} /\ worker'[w].missing = {}
          /\ worker'[w].old = 0 /\ worker'[w].new = 0
      BY <1>8, <2>3, PurgeIs
    <3> QED
      BY <2>1, <2>3, <3>1 DEF WorkersTyped, Remembers, Middle, HasRow, HoldsLock, Scans
  <2> QED
    BY <2>2, <2>3
<1>9. ASSUME NEW w \in Workers, Read(w)
      PROVE  Alters(w) /\ Remembers(w)'
  <2>1. /\ Alters(w) /\ Same(w, {"phase", "content", "mtime", "old"}) /\ worker'[w].phase = "read"
        /\ worker'[w].content = disk[worker[w].file].content
    BY <1>9, ReadIs
  <2>2. /\ worker[w].phase = "looking" /\ marks' = marks /\ worker[w].file \in Files
        /\ disk[worker[w].file].content # Gone
    BY <1>9 DEF Read, Looks, dirtyVars, WorkersTyped, Process
  <2>3. disk[worker[w].file].content \in Contents
    BY <2>2 DEF FilesTyped, Version
  <2> QED
    BY <2>1, <2>2, <2>3 DEF WorkersTyped, Remembers, Middle, HasRow, HoldsLock, Scans, Same, Idle
<1>10. ASSUME NEW w \in Workers, Stage(w) \/ Embed(w) \/ Publish(w)
       PROVE  Alters(w) /\ Remembers(w)'
  <2>1. NextId \in Nat
    BY NextIdIsNew
  <2>2. /\ Alters(w) /\ Same(w, {"phase", "new", "stop"}) /\ Middle(w)
        /\ worker'[w].phase \in {"staged", "embedded", "published"} /\ marks' = marks
    <3>1. CASE Stage(w)
      BY <2>1, <3>1, StageIs DEF Stage, Middle, dirtyVars, Same
    <3>2. CASE Embed(w)
      BY <3>2, EmbedIs DEF Embed, Middle, dirtyVars, Same
    <3>3. CASE Publish(w)
      BY <3>3, PublishIs DEF Publish, Middle, dirtyVars, Same
    <3> QED
      BY <1>10, <3>1, <3>2, <3>3
  <2> QED
    BY <2>2 DEF WorkersTyped, Remembers, Middle, HasRow, HoldsLock, Scans, Same, Idle
<1>11. ASSUME NEW w \in Workers, NEW f \in Files, Claim(w, f)
       PROVE  Alters(w) /\ Remembers(w)'
  <2>1. /\ Alters(w) /\ marks' = marks
        /\ worker'[w] = [Idle EXCEPT !.phase = "claimed", !.file = f, !.stamp = dirty[f].stamp]
    BY <1>11, ClaimIs DEF Claim
  <2>2. dirty[f].stamp \in 1..marks
    BY <1>11, DirtyAssumption DEF Claim, Due, QueueTyped, DirtyTypeOK, Entry
  <2> QED
    BY <2>1, <2>2 DEF Remembers, Middle, HasRow, HoldsLock, Scans, Idle
<1>12. ASSUME NEW w \in Workers, NEW f \in Files, Visit(w, f)
       PROVE  Alters(w) /\ Remembers(w)'
  <2>1. /\ Alters(w) /\ Same(w, {"todo", "missing", "stop", "file"})
        /\ worker'[w].file = Gone \/ (worker'[w].file = f /\ worker'[w].todo = worker[w].todo)
    BY <1>12, VisitIs
  <2>2. worker[w].phase = "looking" /\ Scans(w) /\ f \in worker[w].todo
    BY <1>12 DEF Visit
  <2> QED
    BY <2>1, <2>2 DEF WorkersTyped, Remembers, Middle, HasRow, HoldsLock, Scans, Same, Idle
<1> QED
  BY <1>1, <1>2, <1>3, <1>4, <1>5, <1>6, <1>7, <1>8, <1>9, <1>10, <1>11, <1>12,
     WorkersChange, OneRemembers DEF Begins

(* The types hold at the start, and every step keeps them. *)
LEMMA IndexInit == Init => IndexTyped
<1>1. Idle \in Process
  BY IdleTyped
<1>2. Init => WorkersTyped
  <2>1. SUFFICES ASSUME worker = [w \in Workers |-> Idle]
                 PROVE  WorkersTyped
    BY DEF Init
  <2>2. \A w \in Workers : worker[w] = Idle
    BY <2>1
  <2>3. \A w \in Workers : Remembers(w)
    BY <2>2 DEF Remembers, Middle, HasRow, Scans, HoldsLock, Idle
  <2> QED
    BY <1>1, <2>1, <2>3 DEF WorkersTyped
<1>3. Init => QueueTyped
  BY DirtyAssumption DEF Init, DirtyInit, QueueTyped, DirtyTypeOK, NoEntry, Entry, EntryStatuses
<1>4. Init => FilesTyped /\ DocsTyped /\ RunTyped
  <2>1. 0 \in 0..MaxWrites
    BY IndexAssumption
  <2>2. [content |-> Gone, mtime |-> 0] \in Version
    BY <2>1 DEF Version
  <2>3. Init => disk \in [Files -> Version]
    BY <2>2 DEF Init
  <2>4. Init => FilesTyped
    BY <2>1, <2>3 DEF Init, FilesTyped
  <2>5. Init => DocsTyped /\ RunTyped
    BY DEF Init, DocsTyped, RunTyped
  <2> QED
    BY <2>4, <2>5
<1> QED
  BY <1>2, <1>3, <1>4 DEF IndexTyped

(* Every step keeps the types. *)
LEMMA IndexStaysTyped == IndexTyped /\ [Next]_vars => IndexTyped'
BY QueueStaysTyped, FilesStayTyped, DocsStayTyped, RunStaysTyped, WorkersStayTyped DEF IndexTyped

(* The state of the index has its type, whatever fails and whoever stops a     *)
(* pass: ids of rows stay unique, and a queued change never has more than       *)
(* MAX_ATTEMPTS attempts behind it.                                           *)
THEOREM IndexTypes == Spec => []TypeOK
<1>1. IndexTyped => TypeOK
  BY DEF IndexTyped, QueueTyped, FilesTyped, DocsTyped, RunTyped, WorkersTyped, Process, TypeOK
<1> QED
  BY <1>1, IndexInit, IndexStaysTyped, PTL DEF Spec

-----------------------------------------------------------------------------
(* Which row belongs to which file.  While nobody stops a pass, a process      *)
(* remembers only rows of the files it believes them to be of, and the row it  *)
(* staged is there, with the text it read, until it is done with it.           *)
RowsFit(w) ==
    /\ worker[w].stop # "yes"
    /\ \A d \in docs : \A e \in worker[w].snapshot : d.id = e.id => d.file = e.file
    /\ Middle(w) => \A d \in docs : d.id = worker[w].old => d.file = worker[w].file
    /\ HasRow(w) =>
         /\ worker[w].new # worker[w].old
         /\ \E d \in docs : /\ d.id = worker[w].new /\ d.file = worker[w].file
                            /\ d.content = worker[w].content
                            /\ d.chunks <=> worker[w].phase = "published"

Unstopped == "stop" \notin faults => \A w \in Workers : RowsFit(w)

(* The holder of the lock is alone with the rows. *)
LEMMA OthersFit ==
    ASSUME WorkersTyped, NEW v \in Workers, ~HoldsLock(v), RowsFit(v), worker'[v] = worker[v]
    PROVE  RowsFit(v)'
<1>1. ~Middle(v) /\ ~HasRow(v) /\ worker[v].snapshot = {}
  BY DEF WorkersTyped, Remembers, Middle, HasRow, HoldsLock
<1> QED
  BY <1>1 DEF RowsFit, Middle, HasRow

(* A process without a document in the making, and whose snapshot still names  *)
(* files as the rows do.                                                      *)
LEMMA FitsAtRest ==
    ASSUME NEW w \in Workers, ~Middle(w)', worker'[w].stop # "yes",
           \A d \in docs' : \A e \in worker'[w].snapshot : d.id = e.id => d.file = e.file
    PROVE  RowsFit(w)'
BY DEF RowsFit, Middle, HasRow

(* No step gives an id that is in use to another file. *)
KeepsIds == \A d \in docs' : \E e \in docs : d.id = e.id /\ d.file = e.file

(* Publishing, refreshing and removing rows does not. *)
LEMMA RowsKeepIds ==
    ASSUME DocsTyped, NEW w \in Workers,
           Removes(w) \/ Publish(w) \/ Unchanged(w) \/ EndPeriodic(w) \/ EndRequested(w)
    PROVE  KeepsIds
<1>1. ASSUME docs' \subseteq docs
      PROVE  KeepsIds
  BY <1>1 DEF KeepsIds
<1>2. CASE Removes(w)
  BY <1>1, <1>2 DEF Removes, Purge, RemoveOld, Discard, FlushDeferred, EmbeddingFails, Unembeddable, Freed
<1>3. CASE EndPeriodic(w) \/ EndRequested(w)
  BY <1>1, <1>3 DEF EndPeriodic, EndRequested
<1>4. CASE Publish(w)
  <2>1. \A d \in docs : [d EXCEPT !.chunks = TRUE].id = d.id /\ [d EXCEPT !.chunks = TRUE].file = d.file
    BY DEF DocsTyped, Doc
  <2> QED
    BY <1>4, <2>1 DEF Publish, KeepsIds
<1>5. CASE Unchanged(w)
  <2>1. ASSUME NEW e \in DocsOf(worker[w].file),
               docs' = (docs \ {e}) \cup {[e EXCEPT !.mtime = disk[worker[w].file].mtime]}
        PROVE  KeepsIds
    <3>1. e \in docs /\ e \in Doc
      BY DEF DocsOf, DocsTyped
    <3>2. [e EXCEPT !.mtime = disk[worker[w].file].mtime].id = e.id
          /\ [e EXCEPT !.mtime = disk[worker[w].file].mtime].file = e.file
      BY <3>1 DEF Doc
    <3> QED
      BY <2>1, <3>1, <3>2 DEF KeepsIds
  <2> QED
    BY <1>1, <1>5, <2>1 DEF Unchanged
<1> QED
  BY <1>2, <1>3, <1>4, <1>5

(* Then what a process remembers of rows still fits. *)
LEMMA KeptIdsFit ==
    ASSUME NEW w, RowsFit(w), KeepsIds \/ UNCHANGED docs
    PROVE  /\ \A d \in docs' : \A e \in worker[w].snapshot : d.id = e.id => d.file = e.file
           /\ Middle(w) => \A d \in docs' : d.id = worker[w].old => d.file = worker[w].file
BY DEF RowsFit, KeepsIds

(* Without a stop, who touches the rows holds the lock, and alone. *)
LEMMA HolderIsAlone ==
    ASSUME Alone, "stop" \notin faults, NEW w \in Workers, HoldsLock(w)
    PROVE  ~cancel /\ \A v \in Workers \ {w} : ~HoldsLock(v)
BY DEF Alone, LockIsExclusive

(* That is every process that touches the rows. *)
LEMMA RowStepsHoldLock ==
    ASSUME Alone, "stop" \notin faults, NEW w \in Workers,
           \/ Removes(w) \/ Stage(w) \/ Publish(w) \/ Unchanged(w) \/ EndPeriodic(w) \/ EndRequested(w)
           \/ ToFinished(w)
    PROVE  HoldsLock(w)
BY DEF Alone, Removes, Purge, RemoveOld, Discard, FlushDeferred, EmbeddingFails, Unembeddable, Stage,
       Publish, Unchanged, EndPeriodic, EndRequested, Looks, HoldsLock, ToFinished, YieldsToChat,
       ExtractionFails

(* The step of a process keeps its own memory of rows fitting. *)
LEMMA OwnFit ==
    ASSUME IndexTyped, Alone, "stop" \notin faults, NEW w \in Workers, RowsFit(w), [Next]_vars,
           \/ ToIdle(w) \/ ToWaiting(w) \/ ToFinished(w) \/ Begins(w)
           \/ AcquireLock(w) \/ ReleaseLock(w)
           \/ Purge(w) \/ Read(w) \/ Stage(w) \/ Embed(w) \/ Publish(w)
           \/ \E f \in Files : Claim(w, f) \/ Visit(w, f)
    PROVE  RowsFit(w)' /\ \A v \in Workers \ {w} : worker'[v] = worker[v]
<1> USE DEF IndexTyped
<1>1. CASE ToIdle(w)
  <2>1. Alters(w) /\ worker'[w] = Idle
    BY <1>1, IdleTyped, FreshIs DEF ToIdle
  <2> QED
    BY <2>1, FitsAtRest DEF Middle, Idle, Alters
<1>2. CASE ToWaiting(w)
  <2>1. Alters(w) /\ worker'[w] = [Idle EXCEPT !.kind = "request", !.phase = "waiting"]
    BY <1>2, RequestIs DEF ToWaiting
  <2> QED
    BY <2>1, FitsAtRest DEF Middle, Idle, Alters
<1>3. ASSUME NEW next, worker' = next,
             \A v \in Workers \ {w} : next[v] = worker[v],
             next[w].phase \in {"looking", "finished"},
             next[w].snapshot \in {worker[w].snapshot, {}}, next[w].stop \in {worker[w].stop, "unread", "no"},
             KeepsIds \/ UNCHANGED docs
      PROVE  RowsFit(w)' /\ \A v \in Workers \ {w} : worker'[v] = worker[v]
  <2>1. \A d \in docs' : \A e \in worker[w].snapshot : d.id = e.id => d.file = e.file
    BY <1>3, KeptIdsFit
  <2>2. worker[w].stop # "yes"
    BY DEF RowsFit
  <2> QED
    BY <1>3, <2>1, <2>2, FitsAtRest DEF Middle
<1>4. CASE ToFinished(w)
  <2>1. PICK r \in Results : worker' = Finished(w, r)
    BY <1>4 DEF ToFinished
  <2>2. KeepsIds \/ UNCHANGED docs
    <3>1. Removes(w) \/ Unchanged(w) \/ UNCHANGED docs
      BY <1>4 DEF ToFinished, Removes, YieldsToChat, ExtractionFails
    <3> QED
      BY <3>1, RowsKeepIds
  <2>3. /\ \A v \in Workers \ {w} : worker'[v] = worker[v]
        /\ worker'[w].phase \in {"looking", "finished"}
        /\ worker'[w].snapshot \in {worker[w].snapshot, {}}
        /\ worker'[w].stop \in {worker[w].stop, "unread", "no"}
    BY <2>1, FinishedIs
  <2> QED
    BY <1>3, <2>2, <2>3
<1>5. CASE Purge(w)
  <2>1. KeepsIds
    BY <1>5, RowsKeepIds DEF Removes
  <2>2. /\ \A v \in Workers \ {w} : worker'[v] = worker[v]
        /\ worker'[w].phase \in {"looking", "finished"}
        /\ worker'[w].snapshot \in {worker[w].snapshot, {}}
        /\ worker'[w].stop \in {worker[w].stop, "unread", "no"}
    BY <1>5, PurgeIs DEF Alters
  <2> QED
    BY <1>3, <2>1, <2>2
<1>6. CASE Begins(w)
  <2>1. PICK kind \in {"cron", "request"} : worker' = Started(w, kind)
    BY <1>6 DEF Begins
  <2>2. Alters(w) /\ worker'[w] = [Idle EXCEPT !.kind = kind, !.phase = "looking",
                                               !.snapshot = Snapshot, !.todo = Files]
    BY <2>1, StartedIs
  <2>3. UNCHANGED docs
    BY <1>6 DEF Begins, StartRequested, StartPeriodic
  <2>4. \A d \in docs' : \A e \in Snapshot : d.id = e.id => d.file = e.file
    BY <2>3 DEF Snapshot, DocsTyped
  <2> QED
    BY <2>2, <2>4, FitsAtRest DEF Middle, Idle, Alters
<1>7. CASE AcquireLock(w) \/ ReleaseLock(w) \/ \E f \in Files : Visit(w, f)
  <2>1. /\ Alters(w) /\ worker'[w].snapshot = worker[w].snapshot
        /\ worker'[w].phase \in {"looking", "released"}
        /\ worker'[w].stop \in {worker[w].stop, "no"}
    <3>1. CASE AcquireLock(w)
      BY <3>1, AcquireLockIs DEF Same, Idle
    <3>2. CASE ReleaseLock(w)
      BY <3>2, ReleaseLockIs DEF Same, Idle
    <3>3. ASSUME NEW f \in Files, Visit(w, f)
          PROVE  /\ Alters(w) /\ worker'[w].snapshot = worker[w].snapshot
                 /\ worker'[w].phase \in {"looking", "released"}
                 /\ worker'[w].stop \in {worker[w].stop, "no"}
      <4>1. worker[w].phase = "looking"
        BY <3>3 DEF Visit
      <4>2. Alters(w) /\ Same(w, {"todo", "missing", "stop", "file"}) /\ worker'[w].stop = "no"
        BY <3>3, VisitIs
      <4> QED
        BY <4>1, <4>2 DEF Same, Idle
    <3> QED
      BY <1>7, <3>1, <3>2, <3>3
  <2>2. UNCHANGED docs
    BY <1>7 DEF AcquireLock, ReleaseLock, Visit
  <2> QED
    BY <2>1, <2>2, FitsAtRest DEF Middle, RowsFit, Alters
<1>8. ASSUME NEW f \in Files, Claim(w, f)
      PROVE  RowsFit(w)' /\ \A v \in Workers \ {w} : worker'[v] = worker[v]
  <2>1. /\ Alters(w)
        /\ worker'[w] = [Idle EXCEPT !.phase = "claimed", !.file = f, !.stamp = dirty[f].stamp]
    BY <1>8, ClaimIs
  <2> QED
    BY <2>1, FitsAtRest DEF Middle, Idle, Alters
<1>9. CASE Read(w)
  <2> DEFINE f == worker[w].file
  <2>1. /\ Alters(w) /\ worker'[w].phase = "read" /\ worker'[w].snapshot = worker[w].snapshot
        /\ worker'[w].stop = worker[w].stop /\ worker'[w].file = f
    BY <1>9, ReadIs DEF Same, Idle
  <2>2. UNCHANGED docs
    BY <1>9 DEF Read
  <2>3. \A d \in docs : d.id = worker'[w].old => d.file = f
    <3>1. CASE worker'[w].old = worker[w].old
      <4>1. worker[w].old = 0
        BY <1>9 DEF Read, Looks, WorkersTyped, Remembers, Middle
      <4>2. \A d \in docs : d.id # 0
        BY IndexAssumption DEF DocsTyped, Doc, DocIds
      <4> QED
        BY <3>1, <4>1, <4>2
    <3>2. ASSUME NEW e \in KnownRows(w, f), worker'[w].old = e.id
          PROVE  \A d \in docs : d.id = worker'[w].old => d.file = f
      <4>1. CASE Scans(w)
        BY <3>2, <4>1 DEF KnownRows, RowsFit
      <4>2. CASE ~Scans(w)
        BY <3>2, <4>2 DEF KnownRows, DocsOf, DocsTyped
      <4> QED
        BY <4>1, <4>2
    <3> QED
      BY <1>9, <3>1, <3>2, ReadIs
  <2> QED
    BY <2>1, <2>2, <2>3 DEF RowsFit, Middle, HasRow, Alters
<1>10. CASE Stage(w)
  <2> DEFINE n == [id |-> NextId, file |-> worker[w].file, content |-> worker[w].content,
                   mtime |-> worker[w].mtime, chunks |-> FALSE]
  <2>1. /\ NextId \in Nat \ {0}
        /\ worker[w].old < NextId /\ \A d \in worker[w].snapshot : d.id < NextId
    BY NextIdIsNew
  <2>2. /\ Alters(w) /\ worker'[w].phase = "staged" /\ worker'[w].snapshot = worker[w].snapshot
        /\ worker'[w].stop = worker[w].stop /\ worker'[w].file = worker[w].file
        /\ worker'[w].old = worker[w].old /\ worker'[w].new = NextId
        /\ worker'[w].content = worker[w].content
    BY <1>10, <2>1, StageIs DEF Same, Idle
  <2>3. docs' = docs \cup {n} /\ Middle(w)
    BY <1>10 DEF Stage, Middle
  <2>4. worker[w].old \in Nat /\ \A d \in worker[w].snapshot : d.id \in Nat
    BY IndexAssumption DEF WorkersTyped, Process, Doc, DocIds
  <2>5. worker[w].old # NextId /\ \A d \in worker[w].snapshot : d.id # NextId
    BY <2>1, <2>4
  <2>6. \A d \in docs' : \A e \in worker[w].snapshot : d.id = e.id => d.file = e.file
    BY <2>3, <2>5 DEF RowsFit
  <2>7. \A d \in docs' : d.id = worker[w].old => d.file = worker[w].file
    BY <2>3 DEF RowsFit
  <2>8. n \in docs' /\ n.id = NextId /\ n.file = worker[w].file /\ n.content = worker[w].content
        /\ n.chunks = FALSE
    BY <2>3
  <2> HIDE DEF n
  <2> QED
    BY <2>2, <2>5, <2>6, <2>7, <2>8 DEF RowsFit, Middle, HasRow, Alters
<1>11. CASE Embed(w)
  <2>1. /\ Alters(w) /\ worker'[w].phase = "embedded" /\ worker'[w].snapshot = worker[w].snapshot
        /\ worker'[w].stop = "no" /\ worker'[w].file = worker[w].file
        /\ worker'[w].old = worker[w].old /\ worker'[w].new = worker[w].new
        /\ worker'[w].content = worker[w].content
    BY <1>11, EmbedIs DEF Same, Idle
  <2>2. UNCHANGED docs /\ worker[w].phase = "staged"
    BY <1>11 DEF Embed
  <2> QED
    BY <2>1, <2>2 DEF RowsFit, Middle, HasRow, Alters
<1>12. CASE Publish(w)
  <2>1. /\ Alters(w) /\ worker'[w].phase = "published" /\ worker'[w].snapshot = worker[w].snapshot
        /\ worker'[w].stop = worker[w].stop /\ worker'[w].file = worker[w].file
        /\ worker'[w].old = worker[w].old /\ worker'[w].new = worker[w].new
        /\ worker'[w].content = worker[w].content
    BY <1>12, PublishIs DEF Same, Idle
  <2>2. worker[w].phase = "embedded" /\ HasRow(w) /\ Middle(w)
    BY <1>12 DEF Publish, HasRow, Middle
  <2>3. KeepsIds
    BY <1>12, RowsKeepIds
  <2>4. PICK d \in docs : /\ d.id = worker[w].new /\ d.file = worker[w].file
                          /\ d.content = worker[w].content
    BY <2>2 DEF RowsFit
  <2> DEFINE p == [d EXCEPT !.chunks = TRUE]
  <2>5. p.id = d.id /\ p.file = d.file /\ p.content = d.content /\ p.chunks = TRUE
    BY DEF DocsTyped, Doc
  <2>6. p \in docs'
    BY <1>12, <2>4 DEF Publish
  <2>7. /\ \A x \in docs' : \A e \in worker[w].snapshot : x.id = e.id => x.file = e.file
        /\ \A x \in docs' : x.id = worker[w].old => x.file = worker[w].file
    BY <2>2, <2>3, KeptIdsFit
  <2>8. worker[w].new # worker[w].old /\ worker[w].stop # "yes"
    BY <2>2 DEF RowsFit
  <2> HIDE DEF p
  <2> QED
    BY <2>1, <2>4, <2>5, <2>6, <2>7, <2>8 DEF RowsFit, Middle, HasRow, Alters
<1> QED
  BY <1>1, <1>2, <1>4, <1>5, <1>6, <1>7, <1>8, <1>9, <1>10, <1>11, <1>12

(* A step that touches the rows is a step of the one process it belongs to.    *)
LEMMA RowStepsAre ==
    ASSUME NEW w \in Workers,
           Removes(w) \/ Stage(w) \/ Publish(w) \/ Unchanged(w) \/ EndPeriodic(w) \/ EndRequested(w)
    PROVE  ToIdle(w) \/ ToWaiting(w) \/ ToFinished(w) \/ Purge(w) \/ Stage(w) \/ Publish(w)
<1>1. EndPeriodic(w) => ToIdle(w)
  BY DEF EndPeriodic, ToIdle
<1>2. EndRequested(w) => ToWaiting(w) \/ ToIdle(w)
  BY DEF EndRequested, ToWaiting, ToIdle
<1>3. Unchanged(w) \/ RemoveOld(w) \/ Discard(w) \/ FlushDeferred(w) \/ EmbeddingFails(w)
      \/ Unembeddable(w) => ToFinished(w)
  BY DEF Unchanged, Discard, FlushDeferred, EmbeddingFails, Unembeddable, RemoveOld, ToFinished, Results
<1> QED
  BY <1>1, <1>2, <1>3 DEF Removes

(* What may go wrong is settled at the start. *)
LEMMA FaultsStay == [Next]_vars => UNCHANGED faults
BY FilesChange DEF fileVars, Write, Mark, MarkLost

(* Every step keeps the memory of rows fitting. *)
LEMMA UnstoppedStays ==
    ASSUME IndexTyped, Alone, Unstopped, [Next]_vars
    PROVE  Unstopped'
<1> SUFFICES ASSUME "stop" \notin faults
             PROVE  \A v \in Workers : RowsFit(v)'
  BY FaultsStay DEF Unstopped
<1>1. \A v \in Workers : RowsFit(v)
  BY DEF Unstopped
<1>2. CASE UNCHANGED docs
  <2>1. ASSUME NEW v \in Workers, worker'[v] = worker[v]
        PROVE  RowsFit(v)'
    BY <1>1, <1>2, <2>1 DEF RowsFit, Middle, HasRow
  <2>2. CASE UNCHANGED worker
    BY <2>1, <2>2
  <2>3. ASSUME NEW w \in Workers,
               \/ ToIdle(w) \/ ToWaiting(w) \/ ToFinished(w) \/ Begins(w)
               \/ AcquireLock(w) \/ ReleaseLock(w)
               \/ Purge(w) \/ Read(w) \/ Stage(w) \/ Embed(w) \/ Publish(w)
               \/ \E f \in Files : Claim(w, f) \/ Visit(w, f)
        PROVE  \A v \in Workers : RowsFit(v)'
    <3>1. RowsFit(w)' /\ \A v \in Workers \ {w} : worker'[v] = worker[v]
      BY <1>1, <2>3, OwnFit
    <3> QED
      BY <2>1, <3>1
  <2> QED
    BY <2>2, <2>3, WorkersChange
<1>3. ASSUME NEW w \in Workers,
             Removes(w) \/ Stage(w) \/ Publish(w) \/ Unchanged(w) \/ EndPeriodic(w) \/ EndRequested(w)
      PROVE  \A v \in Workers : RowsFit(v)'
  <2>1. RowsFit(w)' /\ \A v \in Workers \ {w} : worker'[v] = worker[v]
    BY <1>1, <1>3, RowStepsAre, OwnFit
  <2>2. \A v \in Workers \ {w} : ~HoldsLock(v)
    BY <1>3, RowStepsHoldLock, HolderIsAlone
  <2> QED
    BY <1>1, <2>1, <2>2, OthersFit DEF IndexTyped
<1> QED
  BY <1>2, <1>3, DocsChange

(* At the start nobody remembers a row. *)
LEMMA UnstoppedInit == Init => Unstopped
BY DEF Init, Unstopped, RowsFit, Middle, HasRow, Idle

-----------------------------------------------------------------------------
(* A version that could be found is not lost. *)

(* There are at most as many rows as ids. *)
LEMMA RowsAreFinite ==
    ASSUME DocsTyped
    PROVE  IsFiniteSet(docs) /\ \A S \in SUBSET docs : IsFiniteSet(S) /\ (Cardinality(S) = 0 <=> S = {})
<1> DEFINE ident == [d \in docs |-> d.id]
<1>1. IsFiniteSet(DocIds)
  BY IndexAssumption, FS_Interval DEF DocIds
<1>2. ident \in [docs -> DocIds]
  BY DEF DocsTyped, Doc
<1>3. \A d, e \in docs : ident[d] = ident[e] => d = e
  BY DEF DocsTyped
<1> HIDE DEF ident
<1>4. IsFiniteSet(docs)
  BY <1>1, <1>2, <1>3, FS_Injection DEF Injection, IsInjective
<1> QED
  BY <1>4, FS_Subset, FS_EmptySet

(* The clean-up at the end of a pass spares the files that the pass found. *)
LEMMA FoundFilesStay ==
    ASSUME DocsTyped, NEW w \in Workers, NEW removed \in SUBSET docs, CleanedUp(w, removed),
           NEW f \in Files, f \notin worker[w].missing
    PROVE  \A d \in removed : d.file # f
<1> DEFINE R == {d \in removed : d.file = f}
<1>1. CASE CutShort(w)
  BY <1>1 DEF CleanedUp
<1>2. CASE ~CutShort(w)
  <2>1. Cardinality(R) = 0
    BY <1>2 DEF CleanedUp
  <2>2. R \in SUBSET docs
    OBVIOUS
  <2> HIDE DEF R
  <2>3. R = {}
    BY <2>1, <2>2, RowsAreFinite
  <2> QED
    BY <2>3 DEF R
<1> QED
  BY <1>1, <1>2

(* A row that can be found stays, or the row that replaces it can be found. *)
LEMMA GoodRowStays ==
    ASSUME IndexTyped, Alone, Unstopped, [Next]_vars, "stop" \notin faults,
           NEW f \in Files, NEW d \in Established(f),
           disk[f].content # Gone, \A w \in Workers : f \notin worker[w].missing
    PROVE  Searchable(f)' # {}
<1>1. d \in docs /\ d.file = f /\ d.chunks /\ d \in Doc /\ \A w \in Workers : worker[w].new # d.id
  BY DEF Established, Searchable, DocsOf, IndexTyped, DocsTyped
<1>2. SUFFICES \E e \in docs' : e.file = f /\ e.chunks
  BY DEF Searchable, DocsOf
<1>3. CASE UNCHANGED docs
  BY <1>1, <1>3
<1>4. ASSUME NEW w \in Workers, Purge(w)
      PROVE  \E e \in docs' : e.file = f /\ e.chunks
  BY <1>1, <1>4 DEF Purge, DocsOf
<1>5. ASSUME NEW w \in Workers, Discard(w) \/ FlushDeferred(w) \/ EmbeddingFails(w) \/ Unembeddable(w)
      PROVE  \E e \in docs' : e.file = f /\ e.chunks
  <2>1. docs' = Freed(worker[w].new)
    BY <1>5 DEF Discard, FlushDeferred, EmbeddingFails, Unembeddable
  <2> QED
    BY <1>1, <2>1 DEF Freed
<1>6. ASSUME NEW w \in Workers, RemoveOld(w)
      PROVE  \E e \in docs' : e.file = f /\ e.chunks
  <2>1. /\ Middle(w) /\ HasRow(w) /\ worker[w].phase = "published"
        /\ docs' = Freed(worker[w].old) \/ docs' = docs
    BY <1>6 DEF RemoveOld, Middle, HasRow
  <2>2. RowsFit(w)
    BY DEF Unstopped
  <2>3. PICK e \in docs : e.id = worker[w].new /\ e.file = worker[w].file /\ e.chunks
    BY <2>1, <2>2 DEF RowsFit
  <2>4. CASE d.id = worker[w].old
    <3>1. d.file = worker[w].file /\ e.id # worker[w].old
      BY <1>1, <2>1, <2>2, <2>3, <2>4 DEF RowsFit
    <3> QED
      BY <1>1, <2>1, <2>3, <3>1 DEF Freed
  <2>5. CASE d.id # worker[w].old
    BY <1>1, <2>1, <2>5 DEF Freed
  <2> QED
    BY <2>4, <2>5
<1>7. ASSUME NEW w \in Workers, Stage(w)
      PROVE  \E e \in docs' : e.file = f /\ e.chunks
  BY <1>1, <1>7 DEF Stage
<1>8. ASSUME NEW w \in Workers, Publish(w)
      PROVE  \E e \in docs' : e.file = f /\ e.chunks
  <2>1. d \in docs'
    BY <1>1, <1>8 DEF Publish
  <2> QED
    BY <1>1, <2>1
<1>9. ASSUME NEW w \in Workers, Unchanged(w)
      PROVE  \E e \in docs' : e.file = f /\ e.chunks
  <2>1. CASE d \in docs'
    BY <1>1, <2>1
  <2>2. ASSUME NEW m, docs' = (docs \ {d}) \cup {[d EXCEPT !.mtime = m]}
        PROVE  \E e \in docs' : e.file = f /\ e.chunks
    <3>1. [d EXCEPT !.mtime = m].file = d.file /\ [d EXCEPT !.mtime = m].chunks = d.chunks
      BY <1>1 DEF Doc
    <3> QED
      BY <1>1, <2>2, <3>1
  <2> QED
    BY <1>1, <1>9, <2>1, <2>2 DEF Unchanged
<1>10. ASSUME NEW w \in Workers, EndPeriodic(w) \/ EndRequested(w)
       PROVE  \E e \in docs' : e.file = f /\ e.chunks
  <2>1. PICK removed \in SUBSET docs : CleanedUp(w, removed) /\ docs' = docs \ removed
    BY <1>10 DEF EndPeriodic, EndRequested
  <2>2. d \notin removed
    BY <1>1, <2>1, FoundFilesStay DEF IndexTyped
  <2> QED
    BY <1>1, <2>1, <2>2
<1> QED
  BY <1>3, <1>4, <1>5, <1>6, <1>7, <1>8, <1>9, <1>10, DocsChange DEF Removes

(* A file that could be found stays findable through every replacement of its  *)
(* text, whatever fails and whoever dies, as long as nobody stops a pass: it    *)
(* loses its last version only when it is gone or a pass did not find it        *)
(* (Indexer::reindexFile(), finishRun()).                                     *)
THEOREM GoodIsKept == Spec => LastGoodIsKept
<1> DEFINE Inv == IndexTyped /\ Shape /\ Alone /\ Unstopped
           Kept == \A f \in Files :
                      "stop" \notin faults /\ Established(f) # {} /\ Searchable(f)' = {}
                      => disk[f].content = Gone \/ \E w \in Workers : f \in worker[w].missing
<1>1. Init => Inv
  <2>1. Init => Shape /\ Alone
    BY DEF Init, Shape, Alone, Idle, Phases, Kinds, HoldsLock, LockIsExclusive
  <2> QED
    BY <2>1, IndexInit, UnstoppedInit
<1>2. Inv /\ [Next]_vars => Inv'
  BY IndexStaysTyped, LockKept, UnstoppedStays
<1>3. Inv /\ [Next]_vars => [Kept]_vars
  BY GoodRowStays
<1> QED
  BY <1>1, <1>2, <1>3, PTL DEF Spec, LastGoodIsKept

-----------------------------------------------------------------------------
(* An index whose queue holds nothing of a file shows what the file contains.  *)

(* Nothing goes wrong but the embedding service.                              *)
Calm == faults \subseteq {"embedding"}

(* The rows that no process is making now: one for each file, and complete;   *)
(* who replaces the text of a file knows which row of it that is.             *)
Standing == {d \in docs : \A w \in Workers : worker[w].new # d.id}
OneRow ==
    /\ \A d, e \in Standing : d.file = e.file => d = e
    /\ \A d \in Standing : d.chunks
    /\ \A w \in Workers : Middle(w) => \A d \in Standing : d.file = worker[w].file => d.id = worker[w].old

(* The rows a pass remembers of a file it has yet to visit are still its rows. *)
Agrees(w) ==
    Scans(w) /\ HoldsLock(w) =>
        \A g \in worker[w].todo : \/ Middle(w) /\ g = worker[w].file
                                  \/ {d \in worker[w].snapshot : d.file = g} = DocsOf(g)

(* A job that is about to acknowledge its claim, and whose claim still counts. *)
Done(v)    == ~Scans(v) /\ worker[v].phase \in {"finished", "released"} /\ worker[v].result = "ok"
Current(v) == dirty[worker[v].file].stamp = worker[v].stamp

(* Something of the file is still to be done: its hook has yet to run, or the  *)
(* queue holds it and nobody is about to take it out.                         *)
Unsettled(f) ==
    \/ unmarked[f] > 0
    \/ /\ dirty[f].status # "absent"
       /\ \A v \in Workers : Done(v) /\ worker[v].file = f => ~Current(v)

(* Only the text of an unsettled file is replaced, and a claim is acknowledged *)
(* for the version that the process read.                                     *)
Tracked ==
    /\ \A f \in Files : Unsettled(f) \/ IsFresh(f)
    /\ \A w \in Workers : Middle(w) => Unsettled(worker[w].file)
    /\ \A w \in Workers :
          Middle(w) /\ ~Scans(w) /\ Current(w) =>
              unmarked[worker[w].file] > 0 \/ worker[w].content = disk[worker[w].file].content
    /\ \A w \in Workers : \A f \in worker[w].missing : disk[f].content # Gone => Unsettled(f)

Ready == Calm => OneRow /\ (\A w \in Workers : Agrees(w)) /\ Tracked

(* What these proofs know of every state. *)
Sound == IndexTyped /\ Shape /\ Alone /\ Unstopped

(* The steps of a calm index, sorted by what they do to the rows. *)
AtRest(w) ==
    \/ Settle(w) \/ RequestPass(w) \/ Begins(w) \/ AcquireLock(w) \/ ReleaseLock(w)
    \/ YieldsToChat(w) \/ ExtractionFails(w) \/ \E f \in Files : Claim(w, f) \/ Visit(w, f)
Drops(w) == FlushDeferred(w) \/ EmbeddingFails(w)
Ends(w)  == EndPeriodic(w) \/ EndRequested(w)

(* There are no others. *)
LEMMA CalmCases ==
    ASSUME Sound, Calm, [Next]_vars
    PROVE  \/ UNCHANGED <<docs, worker>>
           \/ \E w \in Workers : \/ AtRest(w) \/ Read(w) \/ Stage(w) \/ Embed(w) \/ Publish(w)
                                 \/ RemoveOld(w) \/ Drops(w) \/ Unchanged(w) \/ Purge(w) \/ Ends(w)
<1>1. "stop" \notin faults /\ "crash" \notin faults /\ "unembeddable" \notin faults
  BY DEF Calm
<1>2. \A w \in Workers : ~SeesStop(w)
  BY <1>1 DEF Sound, Unstopped, RowsFit, Alone, SeesStop
<1>3. \A w \in Workers : ~Discard(w) /\ ~Unembeddable(w) /\ ~Dies(w)
  BY <1>1, <1>2 DEF Discard, Unembeddable, Dies
<1>4. ASSUME NEW f \in Files, Write(f) \/ Mark(f) \/ MarkLost(f) \/ ClaimExpires(f)
      PROVE  UNCHANGED <<docs, worker>>
  BY <1>4 DEF Write, Mark, MarkLost, ClaimExpires
<1>5. ASSUME NEW w \in Workers, Queued(w)
      PROVE  UNCHANGED <<docs, worker>>
  BY <1>5 DEF Queued
<1>6. Stop \/ Recover \/ LockExpires \/ UNCHANGED vars => UNCHANGED <<docs, worker>>
  BY DEF Stop, Recover, LockExpires, vars
<1>7. ASSUME NEW w \in Workers, StartRequested(w) \/ StartPeriodic(w)
      PROVE  Begins(w)
  BY <1>7 DEF StartRequested, StartPeriodic, Begins
<1> QED
  BY <1>3, <1>4, <1>5, <1>6, <1>7 DEF Next, PassStep, JobStep, FileStep, Look, Setback, AtRest, Drops, Ends

(* A process that works on no file before and after its step. *)
LEMMA AtRestIs ==
    ASSUME Sound, NEW w \in Workers, AtRest(w)
    PROVE  /\ UNCHANGED docs /\ Alters(w)
           /\ ~Middle(w) /\ ~Middle(w)' /\ worker[w].new = 0 /\ worker'[w].new = 0
<1> USE DEF Sound, IndexTyped
<1>1. UNCHANGED docs /\ ~Middle(w)
  <2>1. CASE Settle(w) \/ RequestPass(w)
    BY <2>1 DEF Settle, RequestPass, Middle
  <2>2. CASE Begins(w)
    BY <2>2 DEF Begins, StartRequested, StartPeriodic, Middle
  <2>3. CASE AcquireLock(w) \/ ReleaseLock(w)
    BY <2>3 DEF AcquireLock, ReleaseLock, Middle
  <2>4. CASE YieldsToChat(w) \/ ExtractionFails(w)
    BY <2>4 DEF YieldsToChat, ExtractionFails, Looks, Middle
  <2>5. ASSUME NEW f \in Files, Claim(w, f) \/ Visit(w, f)
        PROVE  UNCHANGED docs /\ ~Middle(w)
    BY <2>5 DEF Claim, Visit, Middle
  <2> QED
    BY <2>1, <2>2, <2>3, <2>4, <2>5 DEF AtRest
<1>2. worker[w].new = 0
  BY <1>1 DEF WorkersTyped, Remembers, Middle, HasRow
<1>3. Alters(w) /\ ~Middle(w)' /\ worker'[w].new = 0
  <2>1. CASE Settle(w)
    <3>1. Alters(w) /\ worker'[w] = Idle
      BY <2>1, IdleTyped, FreshIs DEF Settle
    <3> QED
      BY <3>1 DEF Middle, Idle
  <2>2. CASE RequestPass(w)
    <3>1. Alters(w) /\ worker'[w] = [Idle EXCEPT !.kind = "request", !.phase = "waiting"]
      BY <2>2, RequestIs DEF RequestPass
    <3> QED
      BY <3>1 DEF Middle, Idle
  <2>3. CASE Begins(w)
    <3>1. PICK kind \in {"cron", "request"} : worker' = Started(w, kind)
      BY <2>3 DEF Begins
    <3>2. Alters(w) /\ worker'[w] = [Idle EXCEPT !.kind = kind, !.phase = "looking",
                                                 !.snapshot = Snapshot, !.todo = Files]
      BY <3>1, StartedIs
    <3> QED
      BY <3>2 DEF Middle, Idle
  <2>4. CASE AcquireLock(w)
    <3>1. Alters(w) /\ Same(w, {"phase", "result"}) /\ worker'[w].phase \in {"looking", "released"}
      BY <2>4, AcquireLockIs
    <3> QED
      BY <1>2, <3>1 DEF Middle, Same, Idle
  <2>5. CASE ReleaseLock(w)
    <3>1. Alters(w) /\ Same(w, {"phase"}) /\ worker'[w].phase = "released"
      BY <2>5, ReleaseLockIs
    <3> QED
      BY <1>2, <3>1 DEF Middle, Same, Idle
  <2>6. CASE YieldsToChat(w) \/ ExtractionFails(w)
    <3>1. PICK r \in Results : worker' = Finished(w, r)
      BY <2>6 DEF YieldsToChat, ExtractionFails, Results
    <3>2. Alters(w) /\ worker'[w].new = 0 /\ worker'[w].phase \in {"looking", "finished"}
      BY <3>1, FinishedIs DEF Alters
    <3> QED
      BY <3>2 DEF Middle
  <2>7. ASSUME NEW f \in Files, Claim(w, f)
        PROVE  Alters(w) /\ ~Middle(w)' /\ worker'[w].new = 0
    <3>1. /\ Alters(w)
          /\ worker'[w] = [Idle EXCEPT !.phase = "claimed", !.file = f, !.stamp = dirty[f].stamp]
      BY <2>7, ClaimIs
    <3> QED
      BY <3>1 DEF Middle, Idle
  <2>8. ASSUME NEW f \in Files, Visit(w, f)
        PROVE  Alters(w) /\ ~Middle(w)' /\ worker'[w].new = 0
    <3>1. Alters(w) /\ Same(w, {"todo", "missing", "stop", "file"})
      BY <2>8, VisitIs
    <3> QED
      BY <1>1, <1>2, <3>1 DEF Middle, Same, Idle
  <2> QED
    BY <2>1, <2>2, <2>3, <2>4, <2>5, <2>6, <2>7, <2>8 DEF AtRest
<1> QED
  BY <1>1, <1>2, <1>3

(* While one process holds the lock the others remember no rows. *)
LEMMA OthersRest ==
    ASSUME Sound, "stop" \notin faults, NEW w \in Workers, HoldsLock(w), NEW v \in Workers \ {w}
    PROVE  /\ ~HoldsLock(v) /\ ~Middle(v)
           /\ worker[v].new = 0 /\ worker[v].snapshot = {} /\ worker[v].missing = {}
<1>1. ~HoldsLock(v)
  BY HolderIsAlone DEF Sound
<1> QED
  BY <1>1 DEF Sound, IndexTyped, WorkersTyped, Remembers, HoldsLock, Middle, HasRow

(* Only its own row is in the making then. *)
LEMMA StandingIs ==
    ASSUME Sound, IndexTyped', "stop" \notin faults, NEW w \in Workers, HoldsLock(w), Alters(w)
    PROVE  /\ Standing = {d \in docs : d.id # worker[w].new}
           /\ Standing' = {d \in docs' : d.id # worker'[w].new}
<1>1. \A v \in Workers \ {w} : worker[v].new = 0 /\ worker'[v].new = 0
  BY OthersRest DEF Alters
<1>2. (\A d \in docs : d.id # 0) /\ \A d \in docs' : d.id # 0
  BY IndexAssumption DEF Sound, IndexTyped, DocsTyped, Doc, DocIds
<1> QED
  BY <1>1, <1>2 DEF Standing

(* A process that is done with its file, one way or the other. *)
Leaves(w) ==
    /\ Alters(w) /\ ~Middle(w)'
    /\ worker'[w].kind = worker[w].kind /\ worker'[w].new = 0
    /\ Scans(w) =>
         /\ worker'[w].phase = "looking" /\ worker'[w].file = Gone
         /\ worker'[w].snapshot = worker[w].snapshot
         /\ worker'[w].todo = worker[w].todo \ {worker[w].file}
    /\ ~Scans(w) =>
         /\ worker'[w].phase = "finished" /\ worker'[w].file = worker[w].file
         /\ worker'[w].stamp = worker[w].stamp /\ worker'[w].missing = {}

(* Its failures and its successes alike end like this. *)
LEMMA FinishedLeaves ==
    ASSUME WorkersTyped, NEW w \in Workers, NEW r \in Results, worker' = Finished(w, r)
    PROVE  /\ Leaves(w)
           /\ Scans(w) => worker'[w].missing = worker[w].missing
           /\ ~Scans(w) => worker'[w].result = r
BY FinishedIs DEF Leaves, Alters, Middle

(* A pass that purges a file remembers that it is missing. *)
LEMMA PurgeLeaves ==
    ASSUME WorkersTyped, NEW w \in Workers, Purge(w)
    PROVE  /\ Leaves(w)
           /\ Scans(w) => worker'[w].missing = worker[w].missing \cup {worker[w].file}
BY PurgeIs DEF Leaves, Middle

(* All of them held the lock. *)
LEMMA LeavesIs ==
    ASSUME Sound, NEW w \in Workers,
           RemoveOld(w) \/ Drops(w) \/ Unchanged(w) \/ Purge(w) \/ YieldsToChat(w) \/ ExtractionFails(w)
    PROVE  Leaves(w) /\ HoldsLock(w)
<1>1. HoldsLock(w)
  BY DEF RemoveOld, Drops, FlushDeferred, EmbeddingFails, Unchanged, Purge, YieldsToChat,
         ExtractionFails, Looks, HoldsLock
<1>2. Purge(w) => Leaves(w)
  BY PurgeLeaves DEF Sound, IndexTyped
<1>3. ~Purge(w) => \E r \in Results : worker' = Finished(w, r)
  BY DEF RemoveOld, Drops, FlushDeferred, EmbeddingFails, Unchanged, YieldsToChat, ExtractionFails, Results
<1> QED
  BY <1>1, <1>2, <1>3, FinishedLeaves DEF Sound, IndexTyped

(* A process that goes on with its file. *)
LEMMA GoesOn ==
    ASSUME Sound, NEW w \in Workers, Stage(w) \/ Embed(w) \/ Publish(w)
    PROVE  /\ Alters(w) /\ Same(w, {"phase", "new", "stop"}) /\ HoldsLock(w)
           /\ Middle(w) /\ Middle(w)' /\ worker'[w].phase \in {"staged", "embedded", "published"}
<1> USE DEF Sound, IndexTyped
<1>1. NextId \in Nat
  BY NextIdIsNew
<1>2. CASE Stage(w)
  BY <1>1, <1>2, StageIs DEF Stage, Middle, Same, HoldsLock
<1>3. CASE Embed(w)
  BY <1>3, EmbedIs DEF Embed, Middle, Same, HoldsLock
<1>4. CASE Publish(w)
  BY <1>4, PublishIs DEF Publish, Middle, Same, HoldsLock
<1> QED
  BY <1>2, <1>3, <1>4

(* It touches no row of another file. *)
LEMMA OtherRowsStay ==
    ASSUME Sound, "stop" \notin faults, NEW w \in Workers, NEW g, g # worker[w].file,
           Stage(w) \/ Publish(w) \/ RemoveOld(w) \/ Drops(w) \/ Unchanged(w) \/ Purge(w)
    PROVE  DocsOf(g)' = DocsOf(g)
<1> DEFINE f == worker[w].file
<1> USE DEF Sound, IndexTyped
<1>1. RowsFit(w)
  BY DEF Unstopped
<1>2. CASE Stage(w)
  BY <1>2 DEF Stage, DocsOf
<1>3. CASE Publish(w)
  <2> DEFINE pub(d) == IF d.id = worker[w].new THEN [d EXCEPT !.chunks = TRUE] ELSE d
  <2>1. docs' = {pub(d) : d \in docs}
    BY <1>3 DEF Publish
  <2>2. HasRow(w)
    BY <1>3 DEF Publish, HasRow
  <2>3. \A d \in docs : d.id = worker[w].new => d.file = f
    BY <1>1, <2>2 DEF RowsFit, DocsTyped
  <2>4. \A d \in docs : pub(d).file = d.file /\ (d.file # f => pub(d) = d)
    BY <2>3 DEF DocsTyped, Doc
  <2> HIDE DEF pub
  <2> QED
    BY <2>1, <2>4 DEF DocsOf
<1>4. CASE RemoveOld(w)
  <2>1. Middle(w) /\ (docs' = Freed(worker[w].old) \/ docs' = docs)
    BY <1>4 DEF RemoveOld, Middle
  <2>2. \A d \in docs : d.id = worker[w].old => d.file = f
    BY <1>1, <2>1 DEF RowsFit
  <2> QED
    BY <2>1, <2>2 DEF DocsOf, Freed
<1>5. CASE Drops(w)
  <2>1. HasRow(w) /\ docs' = Freed(worker[w].new)
    BY <1>5 DEF Drops, FlushDeferred, EmbeddingFails, HasRow
  <2>2. \A d \in docs : d.id = worker[w].new => d.file = f
    BY <1>1, <2>1 DEF RowsFit, DocsTyped
  <2> QED
    BY <2>1, <2>2 DEF DocsOf, Freed
<1>6. CASE Unchanged(w)
  <2>1. ASSUME NEW e \in DocsOf(f), NEW m, docs' = (docs \ {e}) \cup {[e EXCEPT !.mtime = m]}
        PROVE  DocsOf(g)' = DocsOf(g)
    <3>1. e \in Doc /\ e.file = f
      BY DEF DocsOf, DocsTyped
    <3>2. [e EXCEPT !.mtime = m].file = f
      BY <3>1 DEF Doc
    <3> QED
      BY <2>1, <3>1, <3>2 DEF DocsOf
  <2>2. CASE UNCHANGED docs
    BY <2>2 DEF DocsOf
  <2> QED
    BY <1>6, <2>1, <2>2 DEF Unchanged
<1>7. CASE Purge(w)
  BY <1>7 DEF Purge, DocsOf
<1> QED
  BY <1>2, <1>3, <1>4, <1>5, <1>6, <1>7

(* Rows that stand after a step stood before it, for the same file, and who    *)
(* replaces a text went on doing so.                                          *)
LEMMA StandingDescends ==
    ASSUME IndexTyped', OneRow,
           \A d \in Standing' : \E e \in Standing : e.id = d.id /\ e.file = d.file /\ e.chunks = d.chunks,
           \A v \in Workers : Middle(v)' => /\ Middle(v) /\ worker'[v].file = worker[v].file
                                            /\ worker'[v].old = worker[v].old
    PROVE  OneRow'
<1>1. \A d \in Standing' : d.chunks
  BY DEF OneRow
<1>2. ASSUME NEW d \in Standing', NEW e \in Standing', d.file = e.file
      PROVE  d = e
  <2>1. PICK x \in Standing : x.id = d.id /\ x.file = d.file
    OBVIOUS
  <2>2. PICK y \in Standing : y.id = e.id /\ y.file = e.file
    OBVIOUS
  <2>3. x = y
    BY <1>2, <2>1, <2>2 DEF OneRow
  <2>4. d \in docs' /\ e \in docs' /\ d.id = e.id
    BY <2>1, <2>2, <2>3 DEF Standing
  <2> QED
    BY <2>4 DEF IndexTyped, DocsTyped
<1>3. ASSUME NEW v \in Workers, Middle(v)', NEW d \in Standing', d.file = worker'[v].file
      PROVE  d.id = worker'[v].old
  <2>1. PICK x \in Standing : x.id = d.id /\ x.file = d.file
    OBVIOUS
  <2>2. Middle(v) /\ worker'[v].file = worker[v].file /\ worker'[v].old = worker[v].old
    BY <1>3
  <2> QED
    BY <1>3, <2>1, <2>2 DEF OneRow
<1> QED
  BY <1>1, <1>2, <1>3 DEF OneRow

(* Every calm step keeps one row for each file. *)
LEMMA OneRowStays ==
    ASSUME Sound, IndexTyped', Calm, OneRow, \A w \in Workers : Agrees(w), [Next]_vars
    PROVE  OneRow'
<1> USE DEF Sound, IndexTyped
<1>0. "stop" \notin faults /\ "leftover" \notin faults
  BY DEF Calm
<1>1. CASE UNCHANGED <<docs, worker>>
  BY <1>1 DEF OneRow, Standing, Middle
<1>2. ASSUME NEW w \in Workers, AtRest(w)
      PROVE  OneRow'
  <2>1. /\ UNCHANGED docs /\ Alters(w)
        /\ ~Middle(w)' /\ worker[w].new = 0 /\ worker'[w].new = 0
    BY <1>2, AtRestIs
  <2>2. \A v \in Workers : worker'[v].new = worker[v].new
    BY <2>1 DEF Alters
  <2>3. Standing' = Standing
    BY <2>1, <2>2 DEF Standing
  <2>4. \A v \in Workers : Middle(v)' => Middle(v) /\ worker'[v] = worker[v]
    BY <2>1 DEF Alters, Middle
  <2> QED
    BY <2>3, <2>4, StandingDescends
<1>3. ASSUME NEW w \in Workers, Alters(w), HoldsLock(w),
             Middle(w)' => Middle(w) /\ Same(w, {"phase", "new", "stop"}),
             \A d \in docs' : d.id # worker'[w].new =>
                \E e \in docs : /\ e.id # worker[w].new
                                /\ e.id = d.id /\ e.file = d.file /\ e.chunks = d.chunks
      PROVE  OneRow'
  <2>1. \A d \in Standing' : \E e \in Standing : e.id = d.id /\ e.file = d.file /\ e.chunks = d.chunks
    BY <1>0, <1>3, StandingIs
  <2>2. \A v \in Workers : Middle(v)' => /\ Middle(v) /\ worker'[v].file = worker[v].file
                                         /\ worker'[v].old = worker[v].old
    BY <1>3 DEF Alters, Middle, Same, Idle
  <2> QED
    BY <2>1, <2>2, StandingDescends
<1>4. ASSUME NEW w \in Workers, Stage(w)
      PROVE  OneRow'
  <2>1. Alters(w) /\ HoldsLock(w) /\ Middle(w) /\ Same(w, {"phase", "new", "stop"})
    BY <1>4, GoesOn
  <2>2. NextId \in Nat \ {0} /\ worker'[w].new = NextId
    BY <1>4, StageIs, NextIdIsNew
  <2>3. worker[w].new = 0
    BY <1>4 DEF Stage, WorkersTyped, Remembers, HasRow
  <2>4. \A d \in docs : d.id # 0
    BY IndexAssumption DEF DocsTyped, Doc, DocIds
  <2>5. \A d \in docs' : d \in docs \/ d.id = NextId
    BY <1>4 DEF Stage
  <2> QED
    BY <1>3, <2>1, <2>2, <2>3, <2>4, <2>5
<1>5. ASSUME NEW w \in Workers, Embed(w)
      PROVE  OneRow'
  <2>1. Alters(w) /\ HoldsLock(w) /\ Middle(w) /\ Same(w, {"phase", "new", "stop"})
    BY <1>5, GoesOn
  <2>2. worker'[w].new = worker[w].new /\ UNCHANGED docs
    BY <1>5, EmbedIs DEF Same, Idle, Embed
  <2> QED
    BY <1>3, <2>1, <2>2
<1>6. ASSUME NEW w \in Workers, Publish(w)
      PROVE  OneRow'
  <2>1. Alters(w) /\ HoldsLock(w) /\ Middle(w) /\ Same(w, {"phase", "new", "stop"})
    BY <1>6, GoesOn
  <2>2. worker'[w].new = worker[w].new
    BY <1>6, PublishIs DEF Same, Idle
  <2>3. \A d \in docs : [d EXCEPT !.chunks = TRUE].id = d.id
    BY DEF DocsTyped, Doc
  <2>4. \A d \in docs' : d.id # worker[w].new => d \in docs
    BY <1>6, <2>3 DEF Publish
  <2> QED
    BY <1>3, <2>1, <2>2, <2>4
<1>7. ASSUME NEW w \in Workers, Drops(w)
      PROVE  OneRow'
  <2>1. Alters(w) /\ HoldsLock(w) /\ ~Middle(w)'
    BY <1>7, LeavesIs DEF Leaves
  <2>2. docs' = Freed(worker[w].new)
    BY <1>7 DEF Drops, FlushDeferred, EmbeddingFails
  <2> QED
    BY <1>3, <2>1, <2>2 DEF Freed
<1>8. ASSUME NEW w \in Workers, Unchanged(w)
      PROVE  OneRow'
  <2>1. Alters(w) /\ HoldsLock(w) /\ ~Middle(w)' /\ worker'[w].new = 0
    BY <1>8, LeavesIs DEF Leaves
  <2>2. worker[w].new = 0 /\ \A d \in docs : d.id # 0
    BY <1>8, IndexAssumption DEF Unchanged, Looks, WorkersTyped, Remembers, HasRow, DocsTyped, Doc, DocIds
  <2>3. \A d \in docs' : \E e \in docs : e.id = d.id /\ e.file = d.file /\ e.chunks = d.chunks
    <3>1. ASSUME NEW e \in docs, NEW m, docs' = (docs \ {e}) \cup {[e EXCEPT !.mtime = m]}
          PROVE  \A d \in docs' : \E x \in docs : x.id = d.id /\ x.file = d.file /\ x.chunks = d.chunks
      <4>1. /\ [e EXCEPT !.mtime = m].id = e.id /\ [e EXCEPT !.mtime = m].file = e.file
            /\ [e EXCEPT !.mtime = m].chunks = e.chunks
        BY DEF DocsTyped, Doc
      <4> QED
        BY <3>1, <4>1
    <3> QED
      BY <1>8, <3>1 DEF Unchanged, DocsOf
  <2> QED
    BY <1>3, <2>1, <2>2, <2>3
<1>9. ASSUME NEW w \in Workers, Purge(w)
      PROVE  OneRow'
  <2>1. Alters(w) /\ HoldsLock(w) /\ ~Middle(w)' /\ worker'[w].new = 0
    BY <1>9, LeavesIs DEF Leaves
  <2>2. worker[w].new = 0
    BY <1>9 DEF Purge, Looks, WorkersTyped, Remembers, HasRow
  <2>3. docs' \subseteq docs
    BY <1>9 DEF Purge
  <2> QED
    BY <1>3, <2>1, <2>2, <2>3
<1>10. ASSUME NEW w \in Workers, Ends(w)
       PROVE  OneRow'
  <2>1. HoldsLock(w) /\ worker[w].phase \in {"waiting", "looking"}
    BY <1>0, <1>10 DEF Ends, EndPeriodic, EndRequested, HoldsLock, Alone
  <2>2. Alters(w) /\ ~Middle(w)' /\ worker'[w].new = 0
    <3>1. CASE worker' = [worker EXCEPT ![w] = Idle]
      <4>1. Alters(w) /\ worker'[w] = Idle
        BY <3>1, IdleTyped, FreshIs
      <4> QED
        BY <4>1 DEF Middle, Idle
    <3>2. CASE worker' = [worker EXCEPT ![w] = [Idle EXCEPT !.kind = "request", !.phase = "waiting"]]
      <4>1. Alters(w) /\ worker'[w] = [Idle EXCEPT !.kind = "request", !.phase = "waiting"]
        BY <3>2, RequestIs
      <4> QED
        BY <4>1 DEF Middle, Idle
    <3> QED
      BY <1>10, <3>1, <3>2 DEF Ends, EndPeriodic, EndRequested
  <2>3. worker[w].new = 0
    BY <2>1 DEF WorkersTyped, Remembers, HasRow
  <2>4. docs' \subseteq docs
    BY <1>10 DEF Ends, EndPeriodic, EndRequested
  <2> QED
    BY <1>3, <2>1, <2>2, <2>3, <2>4
<1>11. ASSUME NEW w \in Workers, Read(w)
       PROVE  OneRow'
  <2> DEFINE f == worker[w].file
  <2>1. /\ Alters(w) /\ Same(w, {"phase", "content", "mtime", "old"})
        /\ \/ KnownRows(w, f) = {}
           \/ \E d \in KnownRows(w, f) : worker'[w].old = d.id
    BY <1>11, ReadIs
  <2>2. UNCHANGED docs /\ HoldsLock(w) /\ ~Middle(w) /\ ~HasRow(w) /\ f # Gone
    BY <1>11 DEF Read, Looks, HoldsLock, Middle, HasRow
  <2>3. worker[w].new = 0 /\ worker'[w].new = 0 /\ worker'[w].file = f
    BY <2>1, <2>2 DEF WorkersTyped, Remembers, Same, Idle
  <2>4. Standing = docs /\ Standing' = docs
    <3>1. \A d \in docs : d.id # 0
      BY IndexAssumption DEF DocsTyped, Doc, DocIds
    <3> QED
      BY <1>0, <2>1, <2>2, <2>3, <3>1, StandingIs
  <2>5. KnownRows(w, f) = DocsOf(f)
    <3>1. CASE Scans(w)
      <4>1. f \in worker[w].todo
        BY <2>2, <3>1 DEF WorkersTyped, Remembers
      <4> QED
        BY <2>2, <3>1, <4>1 DEF Agrees, KnownRows
    <3>2. CASE ~Scans(w)
      BY <3>2 DEF KnownRows
    <3> QED
      BY <3>1, <3>2
  <2>6. \A d \in docs : d.file = f => d.id = worker'[w].old
    BY <2>1, <2>4, <2>5 DEF OneRow, DocsOf
  <2>7. \A v \in Workers \ {w} : ~Middle(v)'
    <3>1. \A v \in Workers \ {w} : ~Middle(v)
      BY <1>0, <2>2, OthersRest
    <3> QED
      BY <2>1, <3>1 DEF Alters, Middle
  <2> QED
    BY <2>3, <2>4, <2>6, <2>7 DEF OneRow
<1>12. ASSUME NEW w \in Workers, RemoveOld(w)
       PROVE  OneRow'
  <2> DEFINE f == worker[w].file
  <2>1. Alters(w) /\ HoldsLock(w) /\ ~Middle(w)' /\ worker'[w].new = 0
    BY <1>12, LeavesIs DEF Leaves
  <2>2. /\ Middle(w) /\ HasRow(w) /\ worker[w].phase = "published"
        /\ docs' = {d \in docs : d.id # worker[w].old}
    BY <1>0, <1>12 DEF RemoveOld, Middle, HasRow, Freed
  <2>3. PICK e \in docs : e.id = worker[w].new /\ e.file = f /\ e.chunks
    BY <1>0, <2>2 DEF Unstopped, RowsFit
  <2>4. Standing = {d \in docs : d.id # worker[w].new}
    BY <1>0, <2>1, StandingIs
  <2>5. \A d \in docs' : d = e \/ d \in Standing
    BY <2>2, <2>3, <2>4 DEF DocsTyped
  <2>6. \A d \in Standing : d \in docs' => d.file # f
    BY <2>2 DEF OneRow
  <2>7. Standing' \subseteq docs'
    BY DEF Standing
  <2>8. \A v \in Workers \ {w} : ~Middle(v)'
    <3>1. \A v \in Workers \ {w} : ~Middle(v)
      BY <1>0, <2>1, OthersRest
    <3> QED
      BY <2>1, <3>1 DEF Alters, Middle
  <2>9. \A d, x \in Standing' : d.file = x.file => d = x
    BY <2>3, <2>5, <2>6, <2>7 DEF OneRow
  <2>10. \A d \in Standing' : d.chunks
    BY <2>3, <2>5, <2>7 DEF OneRow
  <2> QED
    BY <2>1, <2>8, <2>9, <2>10 DEF OneRow
<1> QED
  BY <1>1, <1>2, <1>4, <1>5, <1>6, <1>7, <1>8, <1>9, <1>10, <1>11, <1>12, CalmCases

(* A pass that begins knows the rows there are. *)
LEMMA BeginsAgreeing ==
    ASSUME Sound, Calm, OneRow, NEW w \in Workers, Begins(w)
    PROVE  \A g : {d \in Snapshot : d.file = g} = DocsOf(g)
<1> USE DEF Sound, IndexTyped
<1>1. LockObtainable
  BY DEF Begins, StartRequested, StartPeriodic
<1>2. \A v \in Workers : ~HoldsLock(v)
  BY <1>1, ObtainableIsFree DEF Calm
<1>3. \A v \in Workers : worker[v].new = 0
  BY <1>2 DEF WorkersTyped, Remembers, HasRow, HoldsLock
<1>4. \A d \in docs : d.id # 0 /\ d.id \in Int
  BY IndexAssumption DEF DocsTyped, Doc, DocIds
<1>5. Standing = docs
  BY <1>3, <1>4 DEF Standing
<1>6. \A d \in docs : \A e \in DocsOf(d.file) : e = d
  BY <1>5 DEF OneRow, DocsOf
<1>7. Snapshot = docs
  BY <1>4, <1>6 DEF Snapshot
<1> QED
  BY <1>7 DEF DocsOf

(* Every calm step leaves the rows of files that a pass has yet to visit alone. *)
LEMMA AgreesStays ==
    ASSUME Sound, IndexTyped', Calm, OneRow, \A w \in Workers : Agrees(w), [Next]_vars
    PROVE  \A v \in Workers : Agrees(v)'
<1> USE DEF Sound, IndexTyped
<1>0. "stop" \notin faults
  BY DEF Calm
<1>1. ASSUME NEW v \in Workers, UNCHANGED docs, worker'[v] = worker[v]
      PROVE  Agrees(v)'
  BY <1>1 DEF Agrees, Scans, HoldsLock, Middle, DocsOf
<1>2. CASE UNCHANGED <<docs, worker>>
  BY <1>1, <1>2
<1>3. ASSUME NEW w \in Workers, Alters(w), HoldsLock(w) \/ UNCHANGED docs, Agrees(w)'
      PROVE  \A v \in Workers : Agrees(v)'
  <2>1. ASSUME NEW v \in Workers \ {w}, HoldsLock(w)
        PROVE  Agrees(v)'
    <3>1. ~HoldsLock(v) /\ worker'[v] = worker[v]
      BY <1>0, <1>3, <2>1, OthersRest DEF Alters
    <3> QED
      BY <3>1 DEF Agrees, HoldsLock
  <2>2. ASSUME NEW v \in Workers \ {w}, UNCHANGED docs
        PROVE  Agrees(v)'
    BY <1>1, <1>3, <2>2 DEF Alters
  <2> QED
    BY <1>3, <2>1, <2>2
<1>4. ASSUME NEW w \in Workers, HoldsLock(w), Leaves(w),
             \A g \in Files : g # worker[w].file => DocsOf(g)' = DocsOf(g)
      PROVE  \A v \in Workers : Agrees(v)'
  <2>1. Agrees(w)'
    <3>1. CASE ~Scans(w)
      BY <1>4, <3>1 DEF Leaves, Agrees, Scans
    <3>2. CASE Scans(w)
      <4>1. /\ worker'[w].snapshot = worker[w].snapshot
            /\ worker'[w].todo = worker[w].todo \ {worker[w].file}
        BY <1>4, <3>2 DEF Leaves
      <4>2. worker[w].todo \subseteq Files
        BY DEF WorkersTyped, Process
      <4>3. \A g \in worker'[w].todo : {d \in worker[w].snapshot : d.file = g} = DocsOf(g)
        BY <1>4, <3>2, <4>1 DEF Agrees
      <4>4. \A g \in worker'[w].todo : {d \in worker'[w].snapshot : d.file = g} = DocsOf(g)'
        BY <1>4, <4>1, <4>2, <4>3
      <4> QED
        BY <4>4 DEF Agrees
    <3> QED
      BY <3>1, <3>2
  <2> QED
    BY <1>3, <1>4, <2>1 DEF Leaves
<1>5. ASSUME NEW w \in Workers, RemoveOld(w) \/ Drops(w) \/ Unchanged(w) \/ Purge(w)
      PROVE  \A v \in Workers : Agrees(v)'
  <2>1. Leaves(w) /\ HoldsLock(w)
    BY <1>5, LeavesIs
  <2>2. \A g : g # worker[w].file => DocsOf(g)' = DocsOf(g)
    BY <1>0, <1>5, OtherRowsStay
  <2> QED
    BY <1>4, <2>1, <2>2
<1>6. ASSUME NEW w \in Workers, YieldsToChat(w) \/ ExtractionFails(w)
      PROVE  \A v \in Workers : Agrees(v)'
  <2>1. Leaves(w) /\ HoldsLock(w)
    BY <1>6, LeavesIs
  <2>2. \A g : DocsOf(g)' = DocsOf(g)
    BY <1>6 DEF YieldsToChat, ExtractionFails, DocsOf
  <2> QED
    BY <1>4, <2>1, <2>2
<1>7. ASSUME NEW w \in Workers, HoldsLock(w), Alters(w), Middle(w)', Scans(w)' <=> Scans(w),
             worker'[w].file = worker[w].file, worker'[w].todo = worker[w].todo,
             worker'[w].snapshot = worker[w].snapshot,
             \A g : g # worker[w].file => DocsOf(g)' = DocsOf(g)
      PROVE  \A v \in Workers : Agrees(v)'
  <2>1. Agrees(w)'
    BY <1>7 DEF Agrees
  <2> QED
    BY <1>3, <1>7, <2>1
<1>8. ASSUME NEW w \in Workers, Stage(w) \/ Embed(w) \/ Publish(w)
      PROVE  \A v \in Workers : Agrees(v)'
  <2>1. Alters(w) /\ Same(w, {"phase", "new", "stop"}) /\ HoldsLock(w) /\ Middle(w)'
    BY <1>8, GoesOn
  <2>2. \A g : g # worker[w].file => DocsOf(g)' = DocsOf(g)
    <3>1. Embed(w) => \A g : DocsOf(g)' = DocsOf(g)
      BY DEF Embed, DocsOf
    <3> QED
      BY <1>0, <1>8, <3>1, OtherRowsStay
  <2> QED
    BY <1>7, <2>1, <2>2 DEF Same, Idle, Scans
<1>9. ASSUME NEW w \in Workers, Read(w)
      PROVE  \A v \in Workers : Agrees(v)'
  <2>1. /\ Alters(w) /\ Same(w, {"phase", "content", "mtime", "old"}) /\ worker'[w].phase = "read"
    BY <1>9, ReadIs
  <2>2. HoldsLock(w) /\ UNCHANGED docs
    BY <1>9 DEF Read, Looks, HoldsLock
  <2> QED
    BY <1>7, <2>1, <2>2 DEF Same, Idle, Scans, Middle, DocsOf
<1>10. ASSUME NEW w \in Workers, UNCHANGED docs, Alters(w), ~Scans(w)' \/ ~HoldsLock(w)'
       PROVE  \A v \in Workers : Agrees(v)'
  BY <1>3, <1>10 DEF Agrees
<1>11. ASSUME NEW w \in Workers, Settle(w) \/ RequestPass(w) \/ AcquireLock(w) \/ ReleaseLock(w)
                                 \/ \E f \in Files : Claim(w, f)
       PROVE  \A v \in Workers : Agrees(v)'
  <2>1. UNCHANGED docs /\ Alters(w)
    BY <1>11, AtRestIs DEF AtRest
  <2>2. CASE Settle(w)
    <3>1. worker'[w] = Idle
      BY <2>2, IdleTyped, FreshIs DEF Settle
    <3> QED
      BY <1>10, <2>1, <3>1 DEF HoldsLock, Idle
  <2>3. CASE RequestPass(w)
    <3>1. worker'[w] = [Idle EXCEPT !.kind = "request", !.phase = "waiting"]
      BY <2>3, RequestIs DEF RequestPass
    <3> QED
      BY <1>10, <2>1, <3>1 DEF HoldsLock, Idle
  <2>4. CASE AcquireLock(w)
    <3>1. ~Scans(w)
      BY <2>4 DEF AcquireLock, WorkersTyped, Remembers
    <3>2. Same(w, {"phase", "result"})
      BY <2>4, AcquireLockIs
    <3> QED
      BY <1>10, <2>1, <3>1, <3>2 DEF Scans, Same, Idle
  <2>5. CASE ReleaseLock(w)
    <3>1. worker'[w].phase = "released"
      BY <2>5, ReleaseLockIs
    <3> QED
      BY <1>10, <2>1, <3>1 DEF HoldsLock
  <2>6. ASSUME NEW f \in Files, Claim(w, f)
        PROVE  ~HoldsLock(w)'
    <3>1. worker'[w] = [Idle EXCEPT !.phase = "claimed", !.file = f, !.stamp = dirty[f].stamp]
      BY <2>6, ClaimIs
    <3> QED
      BY <3>1 DEF HoldsLock, Idle
  <2> QED
    BY <1>10, <1>11, <2>1, <2>2, <2>3, <2>4, <2>5, <2>6
<1>12. ASSUME NEW w \in Workers, Begins(w)
       PROVE  \A v \in Workers : Agrees(v)'
  <2>1. UNCHANGED docs /\ Alters(w)
    BY <1>12, AtRestIs DEF AtRest
  <2>2. PICK kind \in {"cron", "request"} : worker' = Started(w, kind)
    BY <1>12 DEF Begins
  <2>3. worker'[w].snapshot = Snapshot
    BY ZenonT(60), <2>2, StartedIs DEF Idle
  <2>4. \A g : {d \in Snapshot : d.file = g} = DocsOf(g)'
    BY <1>12, <2>1, BeginsAgreeing DEF DocsOf
  <2>5. Agrees(w)'
    BY <2>3, <2>4 DEF Agrees
  <2> QED
    BY <1>3, <2>1, <2>5
<1>13. ASSUME NEW w \in Workers, NEW f \in Files, Visit(w, f)
       PROVE  \A v \in Workers : Agrees(v)'
  <2>1. UNCHANGED docs /\ Alters(w) /\ ~Middle(w)
    BY <1>13, AtRestIs DEF AtRest
  <2>2. Same(w, {"todo", "missing", "stop", "file"}) /\ worker'[w].todo \subseteq worker[w].todo
    BY <1>13, VisitIs
  <2>3. Scans(w) /\ HoldsLock(w)
    BY <1>13 DEF Visit, HoldsLock
  <2>4. \A g \in worker[w].todo : {d \in worker[w].snapshot : d.file = g} = DocsOf(g)
    BY <2>1, <2>3 DEF Agrees
  <2>5. \A g \in worker'[w].todo : {d \in worker'[w].snapshot : d.file = g} = DocsOf(g)'
    BY <2>1, <2>2, <2>4 DEF Same, Idle, DocsOf
  <2>6. Agrees(w)'
    BY <2>5 DEF Agrees
  <2> QED
    BY <1>3, <2>1, <2>6
<1>14. ASSUME NEW w \in Workers, Ends(w)
       PROVE  \A v \in Workers : Agrees(v)'
  <2>1. HoldsLock(w)
    BY <1>0, <1>14 DEF Ends, EndPeriodic, EndRequested, HoldsLock, Alone
  <2>2. Alters(w) /\ ~HoldsLock(w)'
    <3>1. CASE worker' = [worker EXCEPT ![w] = Idle]
      <4>1. Alters(w) /\ worker'[w] = Idle
        BY <3>1, IdleTyped, FreshIs
      <4> QED
        BY <4>1 DEF HoldsLock, Idle
    <3>2. CASE worker' = [worker EXCEPT ![w] = [Idle EXCEPT !.kind = "request", !.phase = "waiting"]]
      <4>1. Alters(w) /\ worker'[w] = [Idle EXCEPT !.kind = "request", !.phase = "waiting"]
        BY <3>2, RequestIs
      <4> QED
        BY <4>1 DEF HoldsLock, Idle
    <3> QED
      BY <1>14, <3>1, <3>2 DEF Ends, EndPeriodic, EndRequested
  <2> QED
    BY <1>3, <2>1, <2>2 DEF Agrees
<1> QED
  BY <1>2, <1>5, <1>6, <1>8, <1>9, <1>11, <1>12, <1>13, <1>14, CalmCases DEF AtRest

(* Who looks at a file, and has no row of its own yet, sees the one row there   *)
(* is.                                                                        *)
LEMMA AllStand ==
    ASSUME Sound, Calm, OneRow, NEW w \in Workers, HoldsLock(w), ~HasRow(w)
    PROVE  \A d, e \in docs : d.chunks /\ (d.file = e.file => d = e)
<1> USE DEF Sound, IndexTyped
<1>1. "stop" \notin faults
  BY DEF Calm
<1>2. \A v \in Workers : worker[v].new = 0
  BY <1>1, OthersRest DEF WorkersTyped, Remembers
<1>3. \A d \in docs : d.id # 0
  BY IndexAssumption DEF DocsTyped, Doc, DocIds
<1>4. Standing = docs
  BY <1>2, <1>3 DEF Standing
<1> QED
  BY <1>4 DEF OneRow

(* What it compares the file with are the rows of the file. *)
LEMMA KnownRowsAre ==
    ASSUME Sound, NEW w \in Workers, Agrees(w), Looks(w)
    PROVE  /\ worker[w].file \in Files /\ HoldsLock(w) /\ ~Middle(w) /\ ~HasRow(w)
           /\ KnownRows(w, worker[w].file) = DocsOf(worker[w].file)
<1> DEFINE f == worker[w].file
<1> USE DEF Sound, IndexTyped
<1>1. f \in Files /\ HoldsLock(w) /\ ~Middle(w) /\ ~HasRow(w) /\ f # Gone
  BY DEF Looks, HoldsLock, Middle, HasRow, WorkersTyped, Process
<1>2. CASE Scans(w)
  <2>1. f \in worker[w].todo
    BY <1>1, <1>2 DEF WorkersTyped, Remembers
  <2>2. {d \in worker[w].snapshot : d.file = f} = DocsOf(f)
    BY <1>1, <1>2, <2>1 DEF Agrees
  <2> QED
    BY <1>1, <1>2, <2>2 DEF KnownRows
<1>3. CASE ~Scans(w)
  BY <1>1, <1>3 DEF KnownRows
<1> QED
  BY <1>2, <1>3

(* A file whose one row has its content is fresh. *)
LEMMA OneRowIsFresh ==
    ASSUME NEW f \in Files, NEW d, DocsOf(f) = {d}, d.chunks, d.content = disk[f].content,
           d.content # Gone
    PROVE  IsFresh(f)
BY DEF IsFresh, Searchable

(* So is a file that is gone, without a row. *)
LEMMA NoRowIsFresh ==
    ASSUME NEW f \in Files, DocsOf(f) = {}, disk[f].content = Gone
    PROVE  IsFresh(f)
BY DEF IsFresh, Searchable

(* Where the content is that of the row, the file is fresh. *)
LEMMA FreshIfUnchanged ==
    ASSUME Sound, Calm, OneRow, NEW w \in Workers, Agrees(w), Unchanged(w),
           NEW f \in Files, f = worker[w].file
    PROVE  IsFresh(f)'
<1> USE DEF Sound, IndexTyped
<1>1. Looks(w) /\ UNCHANGED disk
  BY DEF Unchanged, fileVars
<1>2. /\ f \in Files /\ HoldsLock(w) /\ ~HasRow(w)
      /\ KnownRows(w, f) = DocsOf(f)
  BY <1>1, KnownRowsAre
<1>3. PICK d \in DocsOf(f) : d.content = disk[f].content
  BY <1>2 DEF Unchanged
<1>4. \A e \in docs : e.chunks /\ (e.file = f => e = d)
  BY <1>2, <1>3, AllStand DEF DocsOf
<1>5. d \in docs /\ d \in Doc /\ d.file = f /\ d.chunks
  BY <1>3, <1>4 DEF DocsOf, DocsTyped
<1>6. d.content # Gone
  BY <1>5, IndexAssumption DEF Doc
<1>7. PICK m : docs' = (docs \ {d}) \cup {[d EXCEPT !.mtime = m]}
  <2>1. DocsOf(f) # {}
    BY <1>3
  <2>2. PICK e \in DocsOf(f) : docs' = (docs \ {e}) \cup {[e EXCEPT !.mtime = disk[f].mtime]}
    BY <2>1 DEF Unchanged
  <2>3. e = d
    BY <1>4 DEF DocsOf
  <2> QED
    BY <2>2, <2>3
<1> DEFINE n == [d EXCEPT !.mtime = m]
<1>8. n.file = f /\ n.chunks /\ n.content = d.content
  BY <1>5 DEF Doc
<1> HIDE DEF n
<1>9. docs' = (docs \ {d}) \cup {n}
  BY <1>7 DEF n
<1>10. {x \in docs' : x.file = f} = {n}
  BY <1>4, <1>8, <1>9
<1>11. {x \in docs' : x.file = f /\ x.chunks} = {n}
  BY <1>8, <1>10
<1>12. {x.content : x \in {n}} = {disk'[f].content} \ {Gone}
  BY <1>1, <1>3, <1>6, <1>8
<1> QED
  BY <1>10, <1>11, <1>12 DEF IsFresh, Searchable, DocsOf

(* Where the file is gone, its one row goes too. *)
LEMMA FreshIfPurged ==
    ASSUME Sound, Calm, OneRow, NEW w \in Workers, Purge(w), ~Scans(w),
           NEW f \in Files, f = worker[w].file
    PROVE  IsFresh(f)'
<1>1. HoldsLock(w) /\ ~HasRow(w) /\ UNCHANGED disk /\ disk[f].content = Gone
  BY DEF Purge, Looks, HoldsLock, HasRow, fileVars
<1>2. \A d, e \in docs : d.file = e.file => d = e
  BY <1>1, AllStand
<1>3. DocsOf(f)' = {}
  <2>1. CASE DocsOf(f) = {}
    BY <2>1 DEF Purge, DocsOf
  <2>2. CASE DocsOf(f) # {}
    <3>1. PICK d \in DocsOf(f) : docs' = docs \ {d}
      BY <2>2 DEF Purge
    <3> QED
      BY <1>2, <3>1 DEF DocsOf
  <2> QED
    BY <2>1, <2>2
<1> QED
  BY <1>1, <1>3 DEF IsFresh, Searchable

(* Where the text was replaced by the present one, only that is left. *)
LEMMA FreshIfReplaced ==
    ASSUME Sound, Calm, OneRow, NEW w \in Workers, RemoveOld(w),
           NEW f \in Files, f = worker[w].file, worker[w].content = disk[f].content
    PROVE  IsFresh(f)'
<1> USE DEF Sound, IndexTyped
<1>0. "stop" \notin faults /\ "leftover" \notin faults
  BY DEF Calm
<1>1. /\ Middle(w) /\ HasRow(w) /\ worker[w].phase = "published" /\ UNCHANGED disk
      /\ docs' = {d \in docs : d.id # worker[w].old}
  BY <1>0 DEF RemoveOld, Middle, HasRow, Freed, fileVars
<1>2. RowsFit(w) /\ worker[w].content # Gone
  BY <1>0, <1>1, IndexAssumption DEF Unstopped, WorkersTyped, Remembers
<1>3. PICK e \in docs : /\ e.id = worker[w].new /\ e.file = f /\ e.chunks
                        /\ e.content = worker[w].content
  BY <1>1, <1>2 DEF RowsFit
<1>4. \A v \in Workers \ {w} : worker[v].new = 0
  BY <1>0, <1>1, OthersRest DEF HoldsLock, Middle
<1>5. \A d \in docs : d.id # 0
  BY IndexAssumption DEF DocsTyped, Doc, DocIds
<1>6. \A d \in docs : d = e \/ d \in Standing
  BY <1>3, <1>4, <1>5 DEF Standing, DocsTyped
<1>7. \A d \in docs' : d.file = f => d = e
  BY <1>1, <1>6 DEF OneRow
<1>8. e \in docs'
  BY <1>1, <1>2, <1>3 DEF RowsFit
<1>9. {d \in docs' : d.file = f} = {e} /\ {d \in {e} : d.chunks} = {e}
  BY <1>3, <1>7, <1>8
<1>10. {d.content : d \in {e}} = {disk'[f].content} \ {Gone}
  BY <1>1, <1>2, <1>3
<1> QED
  BY <1>9, <1>10 DEF IsFresh, Searchable, DocsOf

(* Only a file that is not settled is found to differ from its row. *)
LEMMA ReadIsUnsettled ==
    ASSUME Sound, Calm, OneRow, NEW w \in Workers, Agrees(w), Read(w),
           NEW f \in Files, f = worker[w].file
    PROVE  ~IsFresh(f)
<1> USE DEF Sound, IndexTyped
<1> SUFFICES ASSUME IsFresh(f)
             PROVE  FALSE
  OBVIOUS
<1>1. Looks(w) /\ disk[f].content # Gone
  BY DEF Read
<1>2. HoldsLock(w) /\ ~HasRow(w) /\ KnownRows(w, f) = DocsOf(f)
  BY <1>1, KnownRowsAre
<1>3. PICK d \in Searchable(f) : d.content = disk[f].content
  BY <1>1 DEF IsFresh
<1>4. d \in docs /\ d \in DocsOf(f)
  BY DEF Searchable, DocsOf
<1>5. \A e \in DocsOf(f) : e = d
  BY <1>2, <1>4, AllStand DEF DocsOf
<1> QED
  BY <1>2, <1>3, <1>4, <1>5 DEF Read

(* The end of a pass. *)
LEMMA EndsIs ==
    ASSUME Sound, "stop" \notin faults, NEW w \in Workers, Ends(w)
    PROVE  /\ HoldsLock(w) /\ ~HasRow(w) /\ Alters(w)
           /\ worker'[w].phase \in {"idle", "waiting"} /\ worker'[w].missing = {}
           /\ \E removed \in SUBSET docs : CleanedUp(w, removed) /\ docs' = docs \ removed
<1> USE DEF Sound, IndexTyped
<1>1. HoldsLock(w) /\ ~HasRow(w)
  BY DEF Ends, EndPeriodic, EndRequested, HoldsLock, HasRow, Alone
<1>2. Alters(w) /\ worker'[w].phase \in {"idle", "waiting"} /\ worker'[w].missing = {}
  <2>1. CASE worker' = [worker EXCEPT ![w] = Idle]
    <3>1. Alters(w) /\ worker'[w] = Idle
      BY <2>1, IdleTyped, FreshIs
    <3> QED
      BY <3>1 DEF Idle
  <2>2. CASE worker' = [worker EXCEPT ![w] = [Idle EXCEPT !.kind = "request", !.phase = "waiting"]]
    <3>1. Alters(w) /\ worker'[w] = [Idle EXCEPT !.kind = "request", !.phase = "waiting"]
      BY <2>2, RequestIs
    <3> QED
      BY <3>1 DEF Idle
  <2> QED
    BY <2>1, <2>2 DEF Ends, EndPeriodic, EndRequested
<1> QED
  BY <1>1, <1>2 DEF Ends, EndPeriodic, EndRequested

(* It takes the one row of a file that it did not find, or none. *)
LEMMA CleanedUpRows ==
    ASSUME Sound, Calm, OneRow, NEW w \in Workers, Ends(w), NEW f \in Files
    PROVE  DocsOf(f)' = DocsOf(f) \/ (f \in worker[w].missing /\ DocsOf(f)' = {})
<1> USE DEF Sound, IndexTyped
<1>1. "stop" \notin faults
  BY DEF Calm
<1>2. HoldsLock(w) /\ ~HasRow(w)
  BY <1>1, EndsIs
<1>3. PICK removed \in SUBSET docs : CleanedUp(w, removed) /\ docs' = docs \ removed
  BY <1>1, EndsIs
<1>4. \A d, e \in docs : d.file = e.file => d = e
  BY <1>2, AllStand
<1>5. CASE f \notin worker[w].missing
  <2>1. \A d \in removed : d.file # f
    BY <1>3, <1>5, FoundFilesStay
  <2> QED
    BY <1>3, <2>1 DEF DocsOf
<1>6. CASE f \in worker[w].missing
  <2>1. CASE \E d \in removed : d.file = f
    BY <1>3, <1>4, <1>6, <2>1 DEF DocsOf
  <2>2. CASE ~\E d \in removed : d.file = f
    BY <1>3, <2>2 DEF DocsOf
  <2> QED
    BY <2>1, <2>2
<1> QED
  BY <1>5, <1>6

(* A step that leaves the queue and the files alone, and lets no job finish,    *)
(* leaves unsettled what was so.                                              *)
LEMMA StaysUnsettled ==
    ASSUME UNCHANGED <<dirty, unmarked>>, NEW f \in Files, Unsettled(f),
           \A v \in Workers : Done(v)' =>
               /\ Done(v) /\ worker'[v].file = worker[v].file /\ worker'[v].stamp = worker[v].stamp
    PROVE  Unsettled(f)'
BY DEF Unsettled, Current

(* Such a step keeps every file fresh or unsettled, provided that it does so   *)
(* with the files whose rows it touches.                                      *)
LEMMA TrackedKept ==
    ASSUME Sound, Tracked, UNCHANGED <<dirty, unmarked, disk>>, NEW w \in Workers, Alters(w),
           Done(w)' => /\ Done(w) /\ worker'[w].file = worker[w].file
                       /\ worker'[w].stamp = worker[w].stamp,
           \A f \in Files : Unsettled(f) \/ IsFresh(f)' \/ DocsOf(f)' = DocsOf(f),
           Middle(w)' => /\ worker'[w].file \in Files /\ Unsettled(worker'[w].file)
                         /\ ~Scans(w)' /\ Current(w)' =>
                              \/ unmarked[worker'[w].file] > 0
                              \/ worker'[w].content = disk[worker'[w].file].content,
           \A f \in worker'[w].missing : f \in worker[w].missing \/ disk[f].content = Gone
    PROVE  Tracked'
<1>1. \A v \in Workers \ {w} : worker'[v] = worker[v]
  BY DEF Alters
<1>2. \A v \in Workers : Done(v)' =>
               /\ Done(v) /\ worker'[v].file = worker[v].file /\ worker'[v].stamp = worker[v].stamp
  BY <1>1 DEF Done, Scans
<1>3. \A f \in Files : Unsettled(f) => Unsettled(f)'
  BY <1>2, StaysUnsettled
<1>4. ASSUME NEW f \in Files
      PROVE  Unsettled(f)' \/ IsFresh(f)'
  <2>1. DocsOf(f)' = DocsOf(f) => (IsFresh(f) => IsFresh(f)')
    BY DEF IsFresh, Searchable
  <2> QED
    BY <1>3, <2>1 DEF Tracked
<1>5. ASSUME NEW v \in Workers, Middle(v)'
      PROVE  /\ Unsettled(worker[v].file)'
             /\ ~Scans(v)' /\ Current(v)' =>
                  unmarked'[worker'[v].file] > 0 \/ worker'[v].content = disk'[worker'[v].file].content
  <2>1. /\ worker'[v].file \in Files /\ Unsettled(worker'[v].file)
        /\ ~Scans(v)' /\ Current(v)' =>
             unmarked[worker'[v].file] > 0 \/ worker'[v].content = disk[worker'[v].file].content
    <3>1. CASE v = w
      BY <1>5, <3>1
    <3>2. CASE v # w
      <4>1. worker'[v] = worker[v] /\ Middle(v)
        BY <1>1, <1>5, <3>2 DEF Middle
      <4>2. worker[v].file \in Files
        BY <4>1 DEF Sound, IndexTyped, WorkersTyped, Remembers
      <4> QED
        BY <4>1, <4>2 DEF Tracked, Scans, Current
    <3> QED
      BY <3>1, <3>2
  <2>2. PICK f \in Files : f = worker'[v].file
    BY <2>1
  <2>3. Unsettled(f)'
    BY <1>3, <2>1, <2>2
  <2> QED
    BY <2>1, <2>2, <2>3 DEF Unsettled
<1>6. ASSUME NEW v \in Workers, NEW f \in worker'[v].missing, disk'[f].content # Gone
      PROVE  Unsettled(f)'
  <2>1. f \in worker[v].missing
    BY <1>1, <1>6
  <2>2. f \in Files
    BY <2>1 DEF Sound, IndexTyped, WorkersTyped, Process
  <2> QED
    BY <1>3, <1>6, <2>1, <2>2 DEF Tracked
<1> QED
  BY <1>4, <1>5, <1>6 DEF Tracked

(* A job is done with its file: it is fresh, or still unsettled. *)
LEMMA JobDone ==
    ASSUME Sound, Calm, Tracked, NEW w \in Workers, HoldsLock(w), Leaves(w), ~Scans(w),
           NEW f \in Files, f = worker[w].file, UNCHANGED <<dirty, unmarked, disk>>,
           \A g \in Files \ {f} : DocsOf(g)' = DocsOf(g),
           IsFresh(f)' \/ unmarked[f] > 0 \/ (Unsettled(f) /\ ~Current(w))
    PROVE  Tracked'
<1>1. "stop" \notin faults
  BY DEF Calm
<1>2. /\ \A v \in Workers \ {w} : worker'[v] = worker[v]
      /\ worker'[w].file = f /\ worker'[w].stamp = worker[w].stamp
      /\ worker'[w].missing = {} /\ ~Middle(w)'
  BY DEF Leaves, Alters
<1>3. \A v \in Workers \ {w} : ~Middle(v) /\ worker[v].missing = {}
  BY <1>1, OthersRest
<1>4. \A v \in Workers : ~Middle(v)' /\ worker'[v].missing = {}
  BY <1>2, <1>3 DEF Middle
<1>5. ASSUME NEW g \in Files \ {f}
      PROVE  Unsettled(g)' \/ IsFresh(g)'
  <2>1. IsFresh(g) => IsFresh(g)'
    <3>1. DocsOf(g)' = DocsOf(g)
      OBVIOUS
    <3> QED
      BY <3>1 DEF IsFresh, Searchable
  <2>2. Unsettled(g) => Unsettled(g)'
    BY <1>2 DEF Unsettled, Done, Scans, Current
  <2> QED
    BY <2>1, <2>2 DEF Tracked
<1>6. unmarked[f] > 0 \/ (Unsettled(f) /\ ~Current(w)) => Unsettled(f)'
  BY <1>2 DEF Unsettled, Done, Scans, Current
<1>7. \A g \in Files : Unsettled(g)' \/ IsFresh(g)'
  BY <1>5, <1>6
<1> QED
  BY <1>4, <1>7 DEF Tracked

(* A step on one file that leaves every process and every row alone. *)
LEMMA ElsewhereTracked ==
    ASSUME Sound, Tracked, UNCHANGED <<docs, worker>>, NEW f \in Files,
           \A g \in Files \ {f} : /\ dirty'[g] = dirty[g] /\ unmarked'[g] = unmarked[g]
                                  /\ disk'[g] = disk[g],
           Unsettled(f)',
           unmarked'[f] > 0 \/ \A v \in Workers : ~Scans(v) /\ Middle(v) /\ worker[v].file = f => ~Current(v)'
    PROVE  Tracked'
<1>1. ASSUME NEW g \in Files, g # f
      PROVE  /\ Unsettled(g)' <=> Unsettled(g)
             /\ IsFresh(g)' <=> IsFresh(g)
  BY <1>1 DEF Unsettled, Done, Scans, Current, IsFresh, Searchable, DocsOf
<1>2. \A v \in Workers : Middle(v) => worker[v].file \in Files
  BY DEF Sound, IndexTyped, WorkersTyped, Remembers
<1>3. \A v \in Workers : worker[v].missing \subseteq Files
  BY DEF Sound, IndexTyped, WorkersTyped, Process
<1>4. \A g \in Files : Unsettled(g)' \/ IsFresh(g)'
  BY <1>1 DEF Tracked
<1>5. ASSUME NEW v \in Workers, Middle(v)
      PROVE  /\ Unsettled(worker[v].file)'
             /\ ~Scans(v) /\ Current(v)' =>
                  unmarked'[worker[v].file] > 0 \/ worker[v].content = disk'[worker[v].file].content
  <2>1. CASE worker[v].file = f
    BY <1>5, <2>1
  <2>2. CASE worker[v].file # f
    <3>1. Unsettled(worker[v].file)
      BY <1>5 DEF Tracked
    <3>2. PICK g \in Files : g = worker[v].file /\ g # f
      BY <1>2, <1>5, <2>2
    <3>3. Unsettled(g)'
      BY <1>1, <3>1, <3>2
    <3>4. /\ Current(v)' <=> Current(v)
          /\ unmarked'[worker[v].file] = unmarked[worker[v].file]
          /\ disk'[worker[v].file] = disk[worker[v].file]
      BY <3>2 DEF Current
    <3> QED
      BY <1>5, <3>2, <3>3, <3>4 DEF Tracked
  <2> QED
    BY <2>1, <2>2
<1>6. ASSUME NEW v \in Workers, NEW g \in worker[v].missing, disk'[g].content # Gone
      PROVE  Unsettled(g)'
  BY <1>1, <1>3, <1>6 DEF Tracked
<1> QED
  BY <1>4, <1>5, <1>6 DEF Tracked, Middle, Scans

(* A write makes its file unsettled, and the mark that follows keeps it so. *)
LEMMA WriteTracked ==
    ASSUME Sound, Tracked, NEW f \in Files, Write(f)
    PROVE  Tracked'
<1>1. unmarked[f] \in Nat
  BY IndexAssumption DEF Sound, IndexTyped, FilesTyped
<1>2. unmarked'[f] > 0 /\ UNCHANGED <<docs, worker>>
  BY <1>1 DEF Write, Sound, IndexTyped, FilesTyped
<1>3. \A g \in Files \ {f} : dirty'[g] = dirty[g] /\ unmarked'[g] = unmarked[g] /\ disk'[g] = disk[g]
  BY DEF Write, dirtyVars, Sound, IndexTyped, FilesTyped
<1>4. Unsettled(f)'
  BY <1>2 DEF Unsettled
<1> QED
  BY <1>2, <1>3, <1>4, ElsewhereTracked

(* A mark makes a revision that no process has claimed yet. *)
LEMMA MarkTracked ==
    ASSUME Sound, Tracked, NEW f \in Files, Mark(f)
    PROVE  Tracked'
<1> USE DEF Sound, IndexTyped
<1>1. /\ UNCHANGED <<docs, worker>>
      /\ \A g \in Files \ {f} : dirty'[g] = dirty[g] /\ unmarked'[g] = unmarked[g] /\ disk'[g] = disk[g]
      /\ dirty'[f].status = "pending" /\ dirty'[f].stamp = marks + 1
  BY DEF Mark, MarkFile, QueueTyped, DirtyTypeOK, FilesTyped
<1>2. marks \in Nat
  BY DirtyAssumption DEF QueueTyped, DirtyTypeOK
<1>3. ASSUME NEW v \in Workers, ~Scans(v), worker[v].phase # "idle", worker[v].file = f
      PROVE  ~Current(v)'
  <2>1. worker[v].stamp \in 1..marks
    BY <1>3 DEF WorkersTyped, Remembers
  <2>2. worker[v].stamp # marks + 1
    BY <1>2, <2>1
  <2> QED
    BY <1>1, <1>3, <2>2 DEF Current
<1>4. Unsettled(f)'
  BY <1>1, <1>3 DEF Unsettled, Done, Scans
<1> QED
  BY <1>1, <1>3, <1>4, ElsewhereTracked DEF Middle

(* A step that changes neither what is queued nor which revision of it.        *)
LEMMA SameRevisionsTracked ==
    ASSUME Sound, Tracked, UNCHANGED <<docs, unmarked, disk>>,
           \A g \in Files : /\ dirty'[g].stamp = dirty[g].stamp
                            /\ dirty'[g].status = "absent" <=> dirty[g].status = "absent",
           \A v \in Workers : \/ worker'[v] = worker[v]
                              \/ ~Middle(v)' /\ ~Done(v)' /\ worker'[v].missing = {}
    PROVE  Tracked'
<1> USE DEF Sound, IndexTyped
<1>1. \A v \in Workers : ~Scans(v) /\ worker[v].phase # "idle" => worker[v].file \in Files
  BY DEF WorkersTyped, Remembers
<1>2. ASSUME NEW v \in Workers, ~Scans(v), worker[v].phase # "idle", worker'[v] = worker[v]
      PROVE  Current(v)' <=> Current(v)
  BY <1>1, <1>2 DEF Current
<1>3. \A v \in Workers : Done(v)' => worker'[v] = worker[v] /\ Done(v) /\ (Current(v)' <=> Current(v))
  BY <1>2 DEF Done, Scans
<1>4. ASSUME NEW g \in Files
      PROVE  (Unsettled(g) => Unsettled(g)') /\ (IsFresh(g) => IsFresh(g)')
  BY <1>3 DEF Unsettled, IsFresh, Searchable, DocsOf
<1>5. ASSUME NEW v \in Workers, Middle(v)'
      PROVE  /\ Unsettled(worker[v].file)'
             /\ ~Scans(v)' /\ Current(v)' =>
                  unmarked'[worker'[v].file] > 0 \/ worker'[v].content = disk'[worker'[v].file].content
  <2>1. worker'[v] = worker[v] /\ Middle(v)
    BY <1>5 DEF Middle
  <2>2. PICK g \in Files : g = worker[v].file
    BY <2>1 DEF WorkersTyped, Remembers
  <2>3. Unsettled(g)'
    BY <1>4, <2>1, <2>2 DEF Tracked
  <2>4. ~Scans(v) => (Current(v)' <=> Current(v))
    BY <1>2, <2>1 DEF Middle
  <2> QED
    BY <2>1, <2>2, <2>3, <2>4 DEF Tracked, Scans
<1>6. ASSUME NEW v \in Workers, NEW g \in worker'[v].missing, disk'[g].content # Gone
      PROVE  Unsettled(g)'
  <2>1. worker'[v] = worker[v]
    BY <1>6
  <2>2. g \in worker[v].missing /\ g \in Files
    BY <1>6, <2>1 DEF WorkersTyped, Process
  <2> QED
    BY <1>4, <1>6, <2>1, <2>2 DEF Tracked
<1> QED
  BY <1>4, <1>5, <1>6 DEF Tracked

(* A claim that is made or expires changes neither what is queued nor which     *)
(* revision of it.                                                            *)
LEMMA ClaimTracked ==
    ASSUME Sound, Tracked, NEW f \in Files, ClaimExpires(f) \/ \E w \in Workers : Claim(w, f)
    PROVE  Tracked'
<1> USE DEF Sound, IndexTyped
<1>1. UNCHANGED <<docs, unmarked, disk>>
  BY DEF ClaimExpires, Claim, fileVars
<1>2. \A g \in Files : /\ dirty'[g].stamp = dirty[g].stamp
                       /\ dirty'[g].status = "absent" <=> dirty[g].status = "absent"
  BY DEF ClaimExpires, LeaseExpires, Claim, Claimed, Due, QueueTyped, DirtyTypeOK, Entry
<1>3. \A v \in Workers : \/ worker'[v] = worker[v]
                         \/ ~Middle(v)' /\ ~Done(v)' /\ worker'[v].missing = {}
  <2>1. CASE ClaimExpires(f)
    BY <2>1 DEF ClaimExpires
  <2>2. ASSUME NEW w \in Workers, Claim(w, f)
        PROVE  \A v \in Workers : \/ worker'[v] = worker[v]
                                  \/ ~Middle(v)' /\ ~Done(v)' /\ worker'[v].missing = {}
    <3>1. /\ Alters(w) /\ worker[w].phase = "idle"
          /\ worker'[w] = [Idle EXCEPT !.phase = "claimed", !.file = f, !.stamp = dirty[f].stamp]
      BY <2>2, ClaimIs DEF Claim
    <3> QED
      BY <3>1 DEF Alters, Middle, Done, Idle
  <2> QED
    BY <2>1, <2>2
<1> QED
  BY <1>1, <1>2, <1>3, SameRevisionsTracked

(* A claim is acknowledged only for a file that is fresh, or whose next hook    *)
(* has yet to run.                                                            *)
LEMMA SettleTracked ==
    ASSUME Sound, Tracked, NEW w \in Workers, Settle(w)
    PROVE  Tracked'
<1> DEFINE f == worker[w].file
           s == worker[w].stamp
<1> USE DEF Sound, IndexTyped
<1>1. /\ ~Scans(w) /\ worker[w].phase = "released" /\ f \in Files /\ s \in 1..marks
      /\ worker[w].result \in Results
  BY DEF Settle, WorkersTyped, Remembers, Process
<1>2. Alters(w) /\ worker'[w] = Idle
  BY IdleTyped, FreshIs DEF Settle
<1>3. UNCHANGED <<docs, unmarked, disk>>
  BY DEF Settle, fileVars
<1>4. \A v \in Workers : \/ worker'[v] = worker[v]
                         \/ ~Middle(v)' /\ ~Done(v)' /\ worker'[v].missing = {}
  BY <1>2 DEF Alters, Middle, Done, Idle
<1>5. CASE worker[w].result = "ok" /\ Owns(f, s)
  <2>1. dirty' = [dirty EXCEPT ![f] = NoEntry]
    BY <1>5 DEF Settle, Acknowledged
  <2>2. /\ dirty'[f].stamp = 0 /\ dirty'[f].status = "absent"
        /\ \A g \in Files \ {f} : dirty'[g] = dirty[g]
    BY <1>1, <2>1 DEF NoEntry, QueueTyped, DirtyTypeOK
  <2>3. Unsettled(f) => unmarked[f] > 0
    BY <1>1, <1>5 DEF Unsettled, Done, Current, Owns
  <2>4. \A v \in Workers : ~Scans(v) /\ worker[v].phase # "idle" =>
              worker[v].file \in Files /\ worker[v].stamp # 0
    BY DEF WorkersTyped, Remembers
  <2>5. \A v \in Workers : Done(v)' => worker'[v] = worker[v] /\ Done(v) /\ worker[v].file \in Files
    BY <1>4, <2>4 DEF Done, Scans
  <2>6. ASSUME NEW g \in Files
        PROVE  (Unsettled(g) => Unsettled(g)') /\ (IsFresh(g) => IsFresh(g)')
    <3>1. IsFresh(g) => IsFresh(g)'
      BY <1>3 DEF IsFresh, Searchable, DocsOf
    <3>2. CASE g = f
      BY <1>3, <2>3, <3>1, <3>2 DEF Unsettled
    <3>3. CASE g # f
      BY <1>3, <2>2, <2>5, <3>1, <3>3 DEF Unsettled, Current
    <3> QED
      BY <3>2, <3>3
  <2>7. ASSUME NEW v \in Workers, Middle(v)'
        PROVE  /\ Unsettled(worker[v].file)'
               /\ ~Scans(v)' /\ Current(v)' =>
                    unmarked'[worker'[v].file] > 0 \/ worker'[v].content = disk'[worker'[v].file].content
    <3>1. worker'[v] = worker[v] /\ Middle(v)
      BY <1>4, <2>7 DEF Middle
    <3>2. PICK g \in Files : g = worker[v].file
      BY <3>1 DEF WorkersTyped, Remembers
    <3>3. Unsettled(g)'
      BY <2>6, <3>1, <3>2 DEF Tracked
    <3>4. ~Scans(v) /\ g # f => (Current(v)' <=> Current(v))
      BY <2>2, <3>1, <3>2 DEF Current
    <3>5. ~Scans(v) /\ g = f => ~Current(v)'
      BY <2>2, <2>4, <3>1, <3>2 DEF Current, Middle
    <3> QED
      BY <1>3, <3>1, <3>2, <3>3, <3>4, <3>5 DEF Tracked, Scans
  <2>8. ASSUME NEW v \in Workers, NEW g \in worker'[v].missing, disk'[g].content # Gone
        PROVE  Unsettled(g)'
    <3>1. worker'[v] = worker[v]
      BY <1>4, <2>8
    <3>2. g \in worker[v].missing /\ g \in Files
      BY <2>8, <3>1 DEF WorkersTyped, Process
    <3> QED
      BY <1>3, <2>6, <2>8, <3>1, <3>2 DEF Tracked
  <2> QED
    BY <2>6, <2>7, <2>8 DEF Tracked
<1>6. CASE ~(worker[w].result = "ok" /\ Owns(f, s))
  <2>1. \A g \in Files : /\ dirty'[g].stamp = dirty[g].stamp
                         /\ dirty'[g].status = "absent" <=> dirty[g].status = "absent"
    <3>1. CASE dirty' = dirty
      BY <3>1
    <3>2. CASE Owns(f, s) /\ dirty' = Requeued(f, s)
      BY <1>1, <3>2 DEF Requeued, Owns, QueueTyped, DirtyTypeOK, Entry
    <3>3. CASE Owns(f, s) /\ dirty' = Deferred(f, s)
      BY <1>1, <3>3 DEF Deferred, Owns, QueueTyped, DirtyTypeOK, Entry
    <3>4. CASE ~Owns(f, s)
      <4>1. dirty' = dirty
        BY <1>1, <3>4 DEF Settle, Acknowledged, Requeued, Deferred, Results
      <4> QED
        BY <4>1
    <3>5. CASE Owns(f, s) /\ worker[w].result # "ok"
      <4>1. dirty' = Requeued(f, s) \/ dirty' = Deferred(f, s)
        BY <1>1, <3>5 DEF Settle, Results
      <4> QED
        BY <3>2, <3>3, <3>5, <4>1
    <3> QED
      BY <1>6, <3>4, <3>5
  <2> QED
    BY <1>3, <1>4, <2>1, SameRevisionsTracked
<1> QED
  BY <1>5, <1>6

(* A process that works on no file settles nothing. *)
LEMMA AtRestTracked ==
    ASSUME Sound, Tracked, UNCHANGED <<dirty, unmarked, disk>>, NEW w \in Workers,
           \/ RequestPass(w) \/ Begins(w) \/ AcquireLock(w) \/ ReleaseLock(w)
           \/ YieldsToChat(w) \/ ExtractionFails(w) \/ \E f \in Files : Visit(w, f)
    PROVE  Tracked'
<1> USE DEF Sound, IndexTyped
<1>1. UNCHANGED docs /\ Alters(w) /\ ~Middle(w)'
  BY AtRestIs DEF AtRest
<1>2. \A f \in Files : DocsOf(f)' = DocsOf(f)
  BY <1>1 DEF DocsOf
<1>3. SUFFICES /\ Done(w)' => /\ Done(w) /\ worker'[w].file = worker[w].file
                              /\ worker'[w].stamp = worker[w].stamp
               /\ \A f \in worker'[w].missing : f \in worker[w].missing \/ disk[f].content = Gone
  BY <1>1, <1>2, TrackedKept
<1>4. CASE RequestPass(w)
  <2>1. worker'[w] = [Idle EXCEPT !.kind = "request", !.phase = "waiting"]
    BY <1>4, RequestIs DEF RequestPass
  <2> QED
    BY <2>1 DEF Done, Idle
<1>5. CASE Begins(w)
  <2>1. PICK kind \in {"cron", "request"} : worker' = Started(w, kind)
    BY <1>5 DEF Begins
  <2>2. worker'[w] = [Idle EXCEPT !.kind = kind, !.phase = "looking",
                                  !.snapshot = Snapshot, !.todo = Files]
    BY <2>1, StartedIs
  <2> QED
    BY <2>2 DEF Done, Idle
<1>6. CASE AcquireLock(w)
  <2>1. /\ Same(w, {"phase", "result"})
        /\ worker'[w].phase = "looking" \/ worker'[w].result = "error"
    BY <1>6, AcquireLockIs
  <2> QED
    BY <2>1 DEF Done, Same, Idle
<1>7. CASE ReleaseLock(w)
  <2>1. Same(w, {"phase"}) /\ worker[w].phase = "finished"
    BY <1>7, ReleaseLockIs DEF ReleaseLock
  <2> QED
    BY <2>1 DEF Done, Scans, Same, Idle
<1>8. CASE YieldsToChat(w) \/ ExtractionFails(w)
  <2>1. PICK r \in {"deferred", "error"} : worker' = Finished(w, r)
    BY <1>8 DEF YieldsToChat, ExtractionFails
  <2>2. /\ Leaves(w)
        /\ Scans(w) => worker'[w].missing = worker[w].missing
        /\ ~Scans(w) => worker'[w].result = r
    BY <2>1, FinishedLeaves DEF Results
  <2> QED
    BY <2>2 DEF Leaves, Done, Scans
<1>9. ASSUME NEW f \in Files, Visit(w, f)
      PROVE  /\ ~Done(w)'
             /\ \A g \in worker'[w].missing : g \in worker[w].missing \/ disk[g].content = Gone
  <2>1. /\ Same(w, {"todo", "missing", "stop", "file"}) /\ Scans(w)
        /\ \/ worker'[w].missing = worker[w].missing
           \/ disk[f].content = Gone /\ worker'[w].missing = worker[w].missing \cup {f}
    BY <1>9, VisitIs DEF Visit
  <2> QED
    BY <2>1 DEF Done, Scans, Same, Idle
<1> QED
  BY <1>4, <1>5, <1>6, <1>7, <1>8, <1>9

(* Every calm step keeps track of what is still to be done. *)
LEMMA TrackedStays ==
    ASSUME Sound, Calm, OneRow, \A w \in Workers : Agrees(w), Tracked, [Next]_vars
    PROVE  Tracked'
<1> USE DEF Sound, IndexTyped
<1>0. "stop" \notin faults /\ "lostmark" \notin faults
  BY DEF Calm
<1>1. ASSUME NEW f \in Files, Write(f) \/ Mark(f) \/ ClaimExpires(f) \/ \E w \in Workers : Claim(w, f)
      PROVE  Tracked'
  BY <1>1, WriteTracked, MarkTracked, ClaimTracked
<1>2. CASE UNCHANGED <<dirty, unmarked, disk>>
  <2>1. CASE UNCHANGED <<docs, worker>>
    BY <1>2, <2>1 DEF Tracked, Unsettled, IsFresh, Searchable, DocsOf, Middle, Scans, Current, Done
  <2>2. ASSUME NEW w \in Workers, AtRest(w), \A f \in Files : ~Claim(w, f), ~Settle(w)
        PROVE  Tracked'
    BY <1>2, <2>2, AtRestTracked DEF AtRest
  <2>3. ASSUME NEW w \in Workers, Read(w)
        PROVE  Tracked'
    <3> DEFINE f == worker[w].file
    <3>1. /\ Alters(w) /\ Same(w, {"phase", "content", "mtime", "old"})
          /\ worker'[w].phase = "read" /\ worker'[w].content = disk[f].content
      BY <2>3, ReadIs
    <3>2. /\ \A g \in Files : DocsOf(g)' = DocsOf(g)
          /\ f \in Files
      BY <2>3 DEF Read, DocsOf, Looks, WorkersTyped, Process
    <3>3. Unsettled(f)
      BY <1>2, <2>3, <3>2, ReadIsUnsettled DEF Tracked
    <3> QED
      BY <1>2, <3>1, <3>2, <3>3, TrackedKept DEF Same, Idle, Done
  <2>4. ASSUME NEW w \in Workers, Stage(w) \/ Embed(w) \/ Publish(w)
        PROVE  Tracked'
    <3> DEFINE f == worker[w].file
    <3>1. /\ Alters(w) /\ Same(w, {"phase", "new", "stop"}) /\ Middle(w)
          /\ worker'[w].phase \in {"staged", "embedded", "published"}
      BY <2>4, GoesOn
    <3>2. f \in Files /\ Unsettled(f)
      BY <3>1 DEF Tracked, WorkersTyped, Remembers
    <3>3. \A g \in Files : g # f => DocsOf(g)' = DocsOf(g)
      <4>1. Embed(w) => \A g \in Files : DocsOf(g)' = DocsOf(g)
        BY DEF Embed, DocsOf
      <4> QED
        BY <1>0, <2>4, <4>1, OtherRowsStay
    <3>4. ~Scans(w) /\ Current(w) => unmarked[f] > 0 \/ worker[w].content = disk[f].content
      BY <3>1 DEF Tracked
    <3>5. /\ worker'[w].file = f /\ worker'[w].content = worker[w].content /\ ~Done(w)'
          /\ worker'[w].missing = worker[w].missing
          /\ Scans(w)' <=> Scans(w)
          /\ Current(w)' <=> Current(w)
      BY <1>2, <3>1 DEF Same, Idle, Done, Scans, Current
    <3> QED
      BY <1>2, <3>1, <3>2, <3>3, <3>4, <3>5, TrackedKept
  <2>5. ASSUME NEW w \in Workers, Drops(w)
        PROVE  Tracked'
    <3> DEFINE f == worker[w].file
    <3>1. PICK r \in {"deferred", "error"} : worker' = Finished(w, r)
      BY <2>5 DEF Drops, FlushDeferred, EmbeddingFails
    <3>2. /\ Leaves(w)
          /\ Scans(w) => worker'[w].missing = worker[w].missing
          /\ ~Scans(w) => worker'[w].result = r
      BY <3>1, FinishedLeaves DEF Results
    <3>3. /\ ~Done(w)' /\ Alters(w) /\ ~Middle(w)'
          /\ worker'[w].missing \in {worker[w].missing, {}}
      BY <3>2 DEF Leaves, Done, Scans
    <3>4. Unsettled(f)
      BY <2>5 DEF Drops, FlushDeferred, EmbeddingFails, Middle, Tracked
    <3>5. \A g \in Files : g # f => DocsOf(g)' = DocsOf(g)
      BY <1>0, <2>5, OtherRowsStay
    <3> QED
      BY <1>2, <3>3, <3>4, <3>5, TrackedKept
  <2>6. ASSUME NEW w \in Workers, RemoveOld(w) \/ Unchanged(w) \/ Purge(w), Scans(w)
        PROVE  Tracked'
    <3> DEFINE f == worker[w].file
    <3>1. /\ Leaves(w)
          /\ \A g \in worker'[w].missing : g \in worker[w].missing \/ disk[g].content = Gone
      <4>1. CASE Purge(w)
        <5>1. /\ Leaves(w) /\ worker'[w].missing = worker[w].missing \cup {f}
              /\ disk[f].content = Gone
          BY <2>6, <4>1, PurgeLeaves DEF Purge
        <5> QED
          BY <5>1
      <4>2. CASE RemoveOld(w) \/ Unchanged(w)
        <5>1. worker' = Finished(w, "ok")
          BY <4>2 DEF RemoveOld, Unchanged
        <5>2. Leaves(w) /\ worker'[w].missing = worker[w].missing
          BY <2>6, <5>1, FinishedLeaves DEF Results
        <5> QED
          BY <5>2
      <4> QED
        BY <2>6, <4>1, <4>2
    <3>2. ~Done(w)' /\ Alters(w) /\ ~Middle(w)'
      BY <2>6, <3>1 DEF Leaves, Done, Scans
    <3>3. \A g \in Files : g # f => DocsOf(g)' = DocsOf(g)
      BY <1>0, <2>6, OtherRowsStay
    <3>4. ASSUME NEW g \in Files, g = f
          PROVE  Unsettled(g) \/ IsFresh(g)' \/ DocsOf(g)' = DocsOf(g)
      <4>1. Purge(w) => DocsOf(g)' = DocsOf(g)
        BY <2>6 DEF Purge, DocsOf
      <4>2. Unchanged(w) => IsFresh(g)'
        BY <3>4, FreshIfUnchanged
      <4>3. RemoveOld(w) => Unsettled(g)
        BY <3>4 DEF RemoveOld, Middle, Tracked
      <4> QED
        BY <2>6, <4>1, <4>2, <4>3
    <3> QED
      BY <1>2, <3>1, <3>2, <3>3, <3>4, TrackedKept
  <2>7. ASSUME NEW w \in Workers, RemoveOld(w) \/ Unchanged(w) \/ Purge(w), ~Scans(w)
        PROVE  Tracked'
    <3>1. Leaves(w) /\ HoldsLock(w)
      BY <2>7, LeavesIs
    <3>2. PICK f \in Files : f = worker[w].file
      BY <2>7 DEF RemoveOld, Unchanged, Purge, Looks, WorkersTyped, Remembers
    <3>3. \A g \in Files \ {f} : DocsOf(g)' = DocsOf(g)
      BY <1>0, <2>7, <3>2, OtherRowsStay
    <3>4. Purge(w) => IsFresh(f)'
      BY <2>7, <3>2, FreshIfPurged
    <3>5. Unchanged(w) => IsFresh(f)'
      BY <3>2, FreshIfUnchanged
    <3>6. RemoveOld(w) => IsFresh(f)' \/ unmarked[f] > 0 \/ (Unsettled(f) /\ ~Current(w))
      <4>1. RemoveOld(w) => Middle(w)
        BY DEF RemoveOld, Middle
      <4>2. RemoveOld(w) /\ worker[w].content = disk[f].content => IsFresh(f)'
        BY <3>2, FreshIfReplaced
      <4> QED
        BY <2>7, <3>2, <4>1, <4>2 DEF Tracked
    <3>7. IsFresh(f)' \/ unmarked[f] > 0 \/ (Unsettled(f) /\ ~Current(w))
      BY <2>7, <3>4, <3>5, <3>6
    <3> QED
      BY <1>2, <2>7, <3>1, <3>2, <3>3, <3>7, JobDone
  <2>8. ASSUME NEW w \in Workers, Ends(w)
        PROVE  Tracked'
    <3>1. /\ Alters(w) /\ worker'[w].phase \in {"idle", "waiting"} /\ worker'[w].missing = {}
      BY <1>0, <2>8, EndsIs
    <3>2. ASSUME NEW f \in Files
          PROVE  Unsettled(f) \/ IsFresh(f)' \/ DocsOf(f)' = DocsOf(f)
      <4>1. CASE f \in worker[w].missing /\ DocsOf(f)' = {}
        <5>1. disk'[f].content = Gone => IsFresh(f)'
          BY <4>1 DEF IsFresh, Searchable
        <5> QED
          BY <1>2, <4>1, <5>1 DEF Tracked
      <4> QED
        BY <2>8, <4>1, CleanedUpRows
    <3> QED
      BY <1>2, <3>1, <3>2, TrackedKept DEF Done, Middle
  <2>9. ASSUME NEW w \in Workers, AtRest(w)
        PROVE  Tracked'
    BY <1>1, <2>2, <2>9, SettleTracked
  <2> QED
    BY <2>1, <2>3, <2>4, <2>5, <2>6, <2>7, <2>8, <2>9, CalmCases
<1>3. \/ UNCHANGED fileVars
      \/ \E f \in Files : Write(f) \/ Mark(f)
  BY <1>0, FilesChange DEF MarkLost
<1>4. \/ UNCHANGED dirtyVars
      \/ \E f \in Files : Mark(f) \/ ClaimExpires(f)
      \/ \E w \in Workers : Settle(w) \/ \E f \in Files : Claim(w, f)
  BY QueueChanges
<1>5. ASSUME NEW w \in Workers, Settle(w)
      PROVE  Tracked'
  BY <1>5, SettleTracked
<1> QED
  BY <1>1, <1>2, <1>3, <1>4, <1>5 DEF fileVars, dirtyVars

(* An empty index is as fresh as an account without files. *)
LEMMA ReadyInit == Init => Ready
<1> SUFFICES ASSUME Init
             PROVE  OneRow /\ (\A w \in Workers : Agrees(w)) /\ Tracked
  BY DEF Ready
<1>1. \A w \in Workers : worker[w] = Idle
  BY DEF Init
<1>2. OneRow /\ \A w \in Workers : Agrees(w)
  BY <1>1 DEF Init, OneRow, Standing, Middle, Agrees, Scans, Idle
<1>3. \A f \in Files : IsFresh(f)
  BY DEF Init, IsFresh, Searchable, DocsOf
<1>4. \A w \in Workers : ~Middle(w) /\ worker[w].missing = {}
  BY <1>1 DEF Middle, Idle
<1> QED
  BY <1>2, <1>3, <1>4 DEF Tracked

(* As long as nobody stops a pass, what can be found of a file is what it       *)
(* contains whenever nothing about it is queued, however jobs, passes, writes   *)
(* and failures of the embedding service interleave: a claim is acknowledged    *)
(* only for the version that was read (DirtyIndexService::complete()), a text   *)
(* is replaced only while its file is queued, and the rows a pass found at its  *)
(* start are still the rows when it comes to them.  Stopping a pass breaks      *)
(* this, which the run index_stop shows.                                       *)
THEOREM CleanShowsContents == Spec => []("stop" \notin faults => CleanIsFresh)
<1> DEFINE Inv == Sound /\ Ready
<1>1. Init => Inv
  <2>1. Init => Shape /\ Alone
    BY DEF Init, Shape, Alone, Idle, Phases, Kinds, HoldsLock, LockIsExclusive
  <2> QED
    BY <2>1, IndexInit, UnstoppedInit, ReadyInit DEF Sound
<1>2. Inv /\ [Next]_vars => Inv'
  <2> SUFFICES ASSUME Inv, [Next]_vars
               PROVE  Inv'
    OBVIOUS
  <2>1. Sound'
    BY IndexStaysTyped, LockKept, UnstoppedStays DEF Sound
  <2>2. Ready'
    <3> SUFFICES ASSUME Calm'
                 PROVE  (OneRow /\ (\A w \in Workers : Agrees(w)) /\ Tracked)'
      BY DEF Ready
    <3>1. Calm
      BY FaultsStay DEF Calm
    <3>2. OneRow /\ (\A w \in Workers : Agrees(w)) /\ Tracked
      BY <3>1 DEF Ready
    <3> QED
      BY <2>1, <3>1, <3>2, OneRowStays, AgreesStays, TrackedStays DEF Sound
  <2> QED
    BY <2>1, <2>2
<1>3. Inv => ("stop" \notin faults => CleanIsFresh)
  <2> SUFFICES ASSUME Inv, faults \subseteq {"embedding"}, NEW f \in Files,
                      dirty[f].status = "absent", unmarked[f] = 0
               PROVE  IsFresh(f)
    BY DEF CleanIsFresh
  <2> QED
    BY DEF Ready, Calm, Tracked, Unsettled
<1> QED
  BY <1>1, <1>2, <1>3, PTL DEF Spec

=============================================================================
