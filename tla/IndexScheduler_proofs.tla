------------------------ MODULE IndexScheduler_proofs -----------------------
(***************************************************************************)
(* Proofs about IndexScheduler, for any number of users and any limit: the  *)
(* instance never runs more passes than its limit, as long as passes keep   *)
(* their heartbeats fresh and release their slots; nobody waits twice, or   *)
(* while running; who waits is not overtaken; the state has its type.       *)
(***************************************************************************)
EXTENDS IndexScheduler, FiniteSetTheorems, SequenceTheorems, WellFoundedInduction, TLAPS

(* The parts of the type invariant that the bound depends on. *)
Typed ==
    /\ active \in Slots
    /\ running \in SUBSET Users
    /\ view \in [Users -> Slots \cup {NoView}]
    /\ lossy \in BOOLEAN

(* Without losses the slots are exactly the passes that run, no heartbeat is   *)
(* old, and no process works from slots it remembers: every operation of a     *)
(* pass writes the slots, which is what makes the next one read them afresh.   *)
SlotsAreExact ==
    ~lossy => /\ Holders(active) = running
              /\ \A u \in Users : active[u] # "stale" /\ view[u] = NoView
              /\ IsFiniteSet(running)
              /\ Cardinality(running) <= MaxConcurrent

(* What the helpers return is a set of slots. *)
LEMMA SlotsTypes ==
    ASSUME Typed
    PROVE  /\ \A a \in Slots : Reclaimed(a) \in Slots
           /\ \A u \in Users : Read(u) \in Slots
           /\ \A a \in Slots, u \in Users, h \in Heartbeats : [a EXCEPT ![u] = h] \in Slots
<1>1. \A a \in Slots : Reclaimed(a) \in Slots
  BY DEF Slots, Reclaimed, Heartbeats
<1>2. \A u \in Users : Read(u) \in Slots
  BY DEF Typed, Read
<1>3. \A a \in Slots, u \in Users, h \in Heartbeats : [a EXCEPT ![u] = h] \in Slots
  BY DEF Slots
<1> QED
  BY <1>1, <1>2, <1>3

(* A pass that is admitted or turned away keeps the types. *)
LEMMA AcquireTypes ==
    ASSUME Typed, NEW u \in Users, Acquire(u), UNCHANGED lossy
    PROVE  Typed'
<1> DEFINE slots == Reclaimed(active)
<1>1. slots \in Slots
  BY SlotsTypes DEF Typed
<1>2. "fresh" \in Heartbeats
  BY DEF Heartbeats
<1>3. [slots EXCEPT ![u] = IF @ = "none" THEN "fresh" ELSE @] \in Slots
  BY <1>1, <1>2, SlotsTypes DEF Slots
<1> QED
  BY <1>1, <1>3 DEF Acquire, Typed

(* One more user changes a finite set's size by at most one. *)
LEMMA OneMore ==
    ASSUME NEW S, IsFiniteSet(S), NEW x, NEW n \in Nat, Cardinality(S) < n
    PROVE  IsFiniteSet(S \cup {x}) /\ Cardinality(S \cup {x}) <= n
<1>1. Cardinality(S) \in Nat
  BY FS_CardinalityType
<1>2. /\ IsFiniteSet(S \cup {x})
      /\ Cardinality(S \cup {x}) = IF x \in S THEN Cardinality(S) ELSE Cardinality(S) + 1
  BY FS_AddElement
<1> QED
  BY <1>1, <1>2

(* Admission takes a free slot. *)
LEMMA AcquireExact ==
    ASSUME Typed, SlotsAreExact, NEW u \in Users, Acquire(u), UNCHANGED lossy
    PROVE  SlotsAreExact'
<1> SUFFICES ASSUME ~lossy
             PROVE  /\ Holders(active') = running'
                    /\ \A v \in Users : active'[v] # "stale" /\ view'[v] = NoView
                    /\ IsFiniteSet(running')
                    /\ Cardinality(running') <= MaxConcurrent
  BY DEF SlotsAreExact
<1>1. Reclaimed(active) = active
  BY DEF SlotsAreExact, Reclaimed, Typed, Slots
<1>2. u \notin running /\ active[u] = "none"
  BY DEF Acquire, SlotsAreExact, Holders
<1>3. CASE HasRoom(active)
  <2>1. active' = [active EXCEPT ![u] = "fresh"] /\ running' = running \cup {u}
        /\ view' = [view EXCEPT ![u] = IF active' = active THEN Reclaimed(active) ELSE NoView]
    BY <1>1, <1>2, <1>3 DEF Acquire, Typed, Slots
  <2>2. active'[u] = "fresh" /\ active' # active
    BY <1>2, <2>1 DEF Typed, Slots
  <2>3. Holders(active') = running'
    BY <2>1 DEF Holders, SlotsAreExact, Typed, Slots
  <2>4. \A v \in Users : active'[v] # "stale" /\ view'[v] = NoView
    BY <2>1, <2>2 DEF SlotsAreExact, Typed, Slots
  <2>5. Cardinality(running) < MaxConcurrent /\ MaxConcurrent \in Nat
    BY <1>3, SchedulerAssumption DEF HasRoom, SlotsAreExact
  <2>6. IsFiniteSet(running') /\ Cardinality(running') <= MaxConcurrent
    BY <2>1, <2>5, OneMore DEF SlotsAreExact
  <2> QED
    BY <2>3, <2>4, <2>6
<1>4. CASE ~HasRoom(active)
  <2>1. active' = active /\ running' = running /\ view' = view
    BY <1>1, <1>2, <1>4 DEF Acquire
  <2> QED
    BY <2>1 DEF SlotsAreExact, Holders
<1> QED
  BY <1>3, <1>4

(* Every step keeps the types and, without losses, the exactness of the slots. *)
LEMMA StepKeeps ==
    ASSUME Typed, SlotsAreExact, [Next]_vars
    PROVE  Typed' /\ SlotsAreExact'
<1>1. ASSUME NEW u \in Users, Start(u)
      PROVE  Typed' /\ SlotsAreExact'
  BY <1>1, AcquireTypes, AcquireExact DEF Start
<1>2. ASSUME NEW u \in Users, StartQueued(u)
      PROVE  Typed' /\ SlotsAreExact'
  <2>1. CASE Acquire(u)
    BY <1>2, <2>1, AcquireTypes, AcquireExact DEF StartQueued
  <2>2. CASE UNCHANGED <<active, queue, running, view>>
    BY <1>2, <2>2 DEF StartQueued, Typed, SlotsAreExact, Holders
  <2> QED
    BY <1>2, <2>1, <2>2 DEF StartQueued
<1>3. ASSUME NEW u \in Users, Touch(u)
      PROVE  Typed' /\ SlotsAreExact'
  <2>1. Typed'
    BY ZenonT(60), <1>3, SlotsTypes DEF Touch, Typed, Heartbeats
  <2>2. ASSUME ~lossy
        PROVE  active' = active /\ view' = view
    <3>1. Read(u) = active /\ active[u] = "fresh" /\ view[u] = NoView
      BY <1>3, <2>2 DEF Read, SlotsAreExact, Touch, Holders, Typed, Slots, Heartbeats
    <3> QED
      BY <1>3, <3>1 DEF Touch, Typed, Slots
  <2>3. running' = running /\ lossy' = lossy
    BY <1>3 DEF Touch
  <2> QED
    BY <2>1, <2>2, <2>3 DEF SlotsAreExact, Holders
<1>4. ASSUME NEW u \in Users, Release(u)
      PROVE  Typed' /\ SlotsAreExact'
  <2>1. Typed'
    BY <1>4, SlotsTypes DEF Release, Typed, Heartbeats
  <2>2. ASSUME ~lossy
        PROVE  /\ Holders(active') = running'
               /\ \A v \in Users : active'[v] # "stale" /\ view'[v] = NoView
               /\ IsFiniteSet(running')
               /\ Cardinality(running') <= MaxConcurrent
    <3>1. active' = [active EXCEPT ![u] = "none"] /\ running' = running \ {u}
      BY <1>4, <2>2 DEF Release, Read, SlotsAreExact
    <3>2. Holders(active') = running'
      BY <2>2, <3>1 DEF SlotsAreExact, Holders, Typed, Slots
    <3>3. \A v \in Users : active'[v] # "stale" /\ view'[v] = NoView
      BY <1>4, <2>2, <3>1 DEF Release, SlotsAreExact, Typed, Slots
    <3>4. IsFiniteSet(running') /\ Cardinality(running') <= Cardinality(running)
      BY <2>2, <3>1, FS_Subset DEF SlotsAreExact
    <3>5. /\ Cardinality(running) \in Nat /\ Cardinality(running') \in Nat
          /\ MaxConcurrent \in Nat
      BY <2>2, <3>4, FS_CardinalityType, SchedulerAssumption DEF SlotsAreExact
    <3> QED
      BY <2>2, <3>2, <3>3, <3>4, <3>5 DEF SlotsAreExact
  <2>3. lossy' = lossy
    BY <1>4 DEF Release
  <2> QED
    BY <2>1, <2>2, <2>3 DEF SlotsAreExact
<1>5. ASSUME NEW u \in Users, LeavesSlot(u)
      PROVE  Typed' /\ SlotsAreExact'
  BY <1>5 DEF LeavesSlot, Typed, SlotsAreExact
<1>6. ASSUME NEW u \in Users, GoesStale(u)
      PROVE  Typed' /\ SlotsAreExact'
  <2>1. lossy /\ lossy' = lossy
    BY <1>6 DEF GoesStale, SlotsAreExact, Holders, Typed
  <2>2. active' \in Slots
    BY <1>6, SlotsTypes DEF GoesStale, Typed, Heartbeats
  <2>3. view' \in [Users -> Slots \cup {NoView}]
    <3>1. \A v \in Users : view[v] # NoView => [view[v] EXCEPT ![u] = "stale"] \in Slots
      BY SlotsTypes DEF Typed, Heartbeats
    <3> QED
      BY <1>6, <3>1 DEF GoesStale, Typed
  <2> QED
    BY <1>6, <2>1, <2>2, <2>3 DEF GoesStale, Typed, SlotsAreExact
<1>7. CASE RecoverStale \/ PickQueued
  <2>1. active' = Reclaimed(active) /\ running' = running /\ view' = view /\ lossy' = lossy
    BY <1>7 DEF RecoverStale, PickQueued
  <2>2. Typed'
    BY <2>1, SlotsTypes DEF Typed
  <2>3. ~lossy => active' = active
    BY <2>1 DEF SlotsAreExact, Reclaimed, Typed, Slots
  <2> QED
    BY <2>1, <2>2, <2>3 DEF SlotsAreExact, Holders
<1>8. CASE (\E u \in Users : Dequeue(u)) \/ StopDraining \/ UNCHANGED vars
  <2>1. UNCHANGED <<active, running, view, lossy>>
    BY <1>8 DEF Dequeue, StopDraining, vars
  <2> QED
    BY <2>1 DEF Typed, SlotsAreExact, Holders
<1> QED
  BY <1>1, <1>2, <1>3, <1>4, <1>5, <1>6, <1>7, <1>8 DEF Next

(* Initially no slot is taken. *)
LEMMA SlotsInit == Init => Typed /\ SlotsAreExact
<1>1. IsFiniteSet({}) /\ Cardinality({}) = 0
  BY FS_EmptySet
<1> QED
  BY <1>1, SchedulerAssumption DEF Init, Typed, SlotsAreExact, Holders, Slots, Heartbeats

(* Across all users at most index_max_concurrent passes run, whatever users,   *)
(* the queue and the periodic job do (acquireSlot(), releaseSlot(),            *)
(* touchHeartbeat()), if no pass leaves its slot behind or loses its heartbeat. *)
THEOREM PassesStayBounded == Spec => []PassesAreBounded
<1>1. Init => Typed /\ SlotsAreExact
  BY SlotsInit
<1>2. Typed /\ SlotsAreExact /\ [Next]_vars => (Typed /\ SlotsAreExact)'
  BY StepKeeps
<1>3. SlotsAreExact => PassesAreBounded
  BY DEF SlotsAreExact, PassesAreBounded
<1> QED
  BY <1>1, <1>2, <1>3, PTL DEF Spec

-----------------------------------------------------------------------------
(* The queue: what dropping a user and adding one do to it. *)

(* A set of numbers that is not empty has a least member. *)
LEMMA LeastExists ==
    ASSUME NEW S \in SUBSET Nat, S # {}
    PROVE  \E x \in S : \A y \in S : x <= y
<1> DEFINE R == {ss \in Nat \X Nat : ss[1] < ss[2]}
<1>1. IsWellFoundedOn(R, Nat)
  BY NatLessThanWellFounded DEF OpToRel
<1>2. PICK x \in S : \A y \in S : <<y, x>> \notin R
  <2> HIDE DEF R
  <2> QED BY <1>1, WFMin
<1>3. ASSUME NEW y \in S
      PROVE  x <= y
  <2>1. y < x => <<y, x>> \in R
    OBVIOUS
  <2> QED
    BY <1>2, <2>1
<1> QED
  BY <1>3

(* What Kept() computes for the prefixes of a queue. *)
KeptPrefixes(q, S, k) ==
    k = [n \in 0..Len(q) |->
            IF n = 0 THEN <<>>
            ELSE IF q[n] \in S THEN Append(k[n - 1], q[n]) ELSE k[n - 1]]

(* The recursion in Kept() has a solution. *)
LEMMA PrefixesExist ==
    ASSUME NEW T, NEW q \in Seq(T), NEW S
    PROVE  \E k : KeptPrefixes(q, S, k)
<1> DEFINE Part(n, k) ==
        k = [m \in 0..n |-> IF m = 0 THEN <<>>
                            ELSE IF q[m] \in S THEN Append(k[m - 1], q[m]) ELSE k[m - 1]]
           Bad == {n \in Nat : ~\E k : Part(n, k)}
<1>1. Len(q) \in Nat
  BY LenProperties
<1>2. CASE Bad = {}
  <2>1. \E k : Part(Len(q), k)
    BY <1>1, <1>2
  <2> QED
    BY <2>1 DEF KeptPrefixes
<1>3. CASE Bad # {}
  <2>1. Bad \in SUBSET Nat
    OBVIOUS
  <2>2. PICK n \in Bad : \A m \in Bad : n <= m
    <3> HIDE DEF Bad
    <3> QED BY <1>3, <2>1, LeastExists
  <2>3. n \in Nat /\ ~\E k : Part(n, k)
    OBVIOUS
  <2>4. n # 0
    <3>1. Part(0, [m \in 0..0 |-> <<>>])
      OBVIOUS
    <3> QED
      BY <2>3, <3>1
  <2>5. n - 1 \in Nat /\ n - 1 \notin Bad
    <3>1. n - 1 \in Nat /\ ~(n <= n - 1)
      BY <2>3, <2>4
    <3> HIDE DEF Bad
    <3> QED BY <2>2, <3>1
  <2>6. PICK g : Part(n - 1, g)
    BY <2>5
  <2> DEFINE h == [m \in 0..n |-> IF m < n THEN g[m]
                                  ELSE IF q[n] \in S THEN Append(g[n - 1], q[n]) ELSE g[n - 1]]
  <2>7. ASSUME NEW m \in 0..n
        PROVE  h[m] = IF m = 0 THEN <<>>
                      ELSE IF q[m] \in S THEN Append(h[m - 1], q[m]) ELSE h[m - 1]
    <3>1. CASE m = n
      BY <2>3, <2>4, <3>1
    <3>2. CASE m < n
      <4>1. m \in 0..n - 1
        BY <2>3, <3>2
      <4>2. g[m] = IF m = 0 THEN <<>>
                   ELSE IF q[m] \in S THEN Append(g[m - 1], q[m]) ELSE g[m - 1]
        BY <2>6, <4>1
      <4> QED
        BY <2>3, <3>2, <4>2
    <3> QED
      BY <2>3, <3>1, <3>2
  <2>8. Part(n, h)
    <3>1. h = [m \in 0..n |-> h[m]]
      OBVIOUS
    <3> HIDE DEF h
    <3> QED BY <2>7, <3>1
  <2> QED
    BY <2>3, <2>8
<1> QED
  BY <1>2, <1>3

(* Kept() returns the last of the prefixes. *)
LEMMA KeptIsLast ==
    ASSUME NEW T, NEW q \in Seq(T), NEW S
    PROVE  \E k : KeptPrefixes(q, S, k) /\ Kept(q, S) = k[Len(q)]
<1> DEFINE c == CHOOSE k : KeptPrefixes(q, S, k)
<1>1. KeptPrefixes(q, S, c)
  BY PrefixesExist
<1>2. Kept(q, S) = c[Len(q)]
  BY DEF Kept, KeptPrefixes
<1> QED
  BY <1>1, <1>2

(* A sequence s holds the entries of the first n of q that are in S, in order. *)
KeepsFirst(q, S, T, n, s) ==
    /\ s \in Seq(T)
    /\ \A a \in 1..Len(s) : s[a] \in S /\ \E i \in 1..n : s[a] = q[i]
    /\ \A i \in 1..n : q[i] \in S => \E a \in 1..Len(s) : s[a] = q[i]
    /\ \A i, j \in 1..n : i < j /\ q[i] \in S /\ q[j] \in S
                          => \E a, b \in 1..Len(s) : a < b /\ s[a] = q[i] /\ s[b] = q[j]
    /\ IsInjective(q) => \A a, b \in 1..Len(s) : s[a] = s[b] => a = b

(* One more entry of the queue: it is appended or left out. *)
LEMMA KeepsOneMore ==
    ASSUME NEW T, NEW q \in Seq(T), NEW S, NEW n \in 1..Len(q), NEW s,
           KeepsFirst(q, S, T, n - 1, s)
    PROVE  KeepsFirst(q, S, T, n, IF q[n] \in S THEN Append(s, q[n]) ELSE s)
<1>1. n \in Nat /\ n >= 1 /\ Len(q) \in Nat /\ s \in Seq(T) /\ Len(s) \in Nat /\ DOMAIN q = 1..Len(q)
  BY LenProperties DEF KeepsFirst
<1>2. CASE q[n] \notin S
  <2>1. \A i \in 1..n : q[i] \in S => i \in 1..n - 1
    BY <1>1, <1>2
  <2>2. 1..n - 1 \subseteq 1..n
    BY <1>1
  <2> QED
    BY <1>2, <2>1, <2>2 DEF KeepsFirst
<1>3. CASE q[n] \in S
  <2> DEFINE t == Append(s, q[n])
  <2>0. q[n] \in T
    BY ElementOfSeq
  <2>1. /\ t \in Seq(T) /\ Len(t) = Len(s) + 1
        /\ \A a \in 1..Len(s) : t[a] = s[a]
        /\ t[Len(s) + 1] = q[n]
    BY <1>1, <2>0, AppendProperties
  <2> HIDE DEF t
  <2>2. \A a \in 1..Len(t) : a \in 1..Len(s) \/ a = Len(s) + 1
    BY <1>1, <2>1
  <2>3. \A i \in 1..n : i \in 1..n - 1 \/ i = n
    BY <1>1
  <2>4. 1..Len(s) \subseteq 1..Len(t) /\ Len(s) + 1 \in 1..Len(t)
    BY <1>1, <2>1
  <2>5. \A a \in 1..Len(t) : t[a] \in S /\ \E i \in 1..n : t[a] = q[i]
    <3>1. SUFFICES ASSUME NEW a \in 1..Len(t)
                   PROVE  t[a] \in S /\ \E i \in 1..n : t[a] = q[i]
      OBVIOUS
    <3>2. CASE a \in 1..Len(s)
      <4>1. PICK i \in 1..n - 1 : s[a] = q[i]
        BY <3>2 DEF KeepsFirst
      <4>2. i \in 1..n
        BY <1>1
      <4> QED
        BY <2>1, <3>2, <4>1, <4>2 DEF KeepsFirst
    <3>3. CASE a = Len(s) + 1
      BY <1>3, <2>1, <3>3
    <3> QED
      BY <2>2, <3>2, <3>3
  <2>6. \A i \in 1..n : q[i] \in S => \E a \in 1..Len(t) : t[a] = q[i]
    <3>1. SUFFICES ASSUME NEW i \in 1..n, q[i] \in S
                   PROVE  \E a \in 1..Len(t) : t[a] = q[i]
      OBVIOUS
    <3>2. CASE i \in 1..n - 1
      <4>1. PICK a \in 1..Len(s) : s[a] = q[i]
        BY <3>1, <3>2 DEF KeepsFirst
      <4> QED
        BY <2>1, <2>4, <4>1
    <3>3. CASE i = n
      BY <2>1, <2>4, <3>3
    <3> QED
      BY <2>3, <3>2, <3>3
  <2>7. \A i, j \in 1..n : i < j /\ q[i] \in S /\ q[j] \in S
                           => \E a, b \in 1..Len(t) : a < b /\ t[a] = q[i] /\ t[b] = q[j]
    <3>1. SUFFICES ASSUME NEW i \in 1..n, NEW j \in 1..n, i < j, q[i] \in S, q[j] \in S
                   PROVE  \E a, b \in 1..Len(t) : a < b /\ t[a] = q[i] /\ t[b] = q[j]
      OBVIOUS
    <3>2. i \in 1..n - 1
      BY <1>1, <3>1
    <3>3. CASE j \in 1..n - 1
      <4>1. PICK a \in 1..Len(s), b \in 1..Len(s) : a < b /\ s[a] = q[i] /\ s[b] = q[j]
        BY <3>1, <3>2, <3>3 DEF KeepsFirst
      <4> QED
        BY <2>1, <2>4, <4>1
    <3>4. CASE j = n
      <4>1. PICK a \in 1..Len(s) : s[a] = q[i]
        BY <3>1, <3>2 DEF KeepsFirst
      <4>2. a < Len(s) + 1
        BY <1>1
      <4> QED
        BY <2>1, <2>4, <3>4, <4>1, <4>2
    <3> QED
      BY <2>3, <3>3, <3>4
  <2>8. IsInjective(q) => \A a, b \in 1..Len(t) : t[a] = t[b] => a = b
    <3>1. SUFFICES ASSUME IsInjective(q), NEW a \in 1..Len(t), NEW b \in 1..Len(t), t[a] = t[b]
                   PROVE  a = b
      OBVIOUS
    <3>2. \A c \in 1..Len(s) : s[c] # q[n]
      <4>1. SUFFICES ASSUME NEW c \in 1..Len(s), s[c] = q[n]
                     PROVE  FALSE
        OBVIOUS
      <4>2. PICK i \in 1..n - 1 : s[c] = q[i]
        BY DEF KeepsFirst
      <4>3. i \in DOMAIN q /\ n \in DOMAIN q /\ i # n
        BY <1>1
      <4> QED
        BY <3>1, <4>1, <4>2, <4>3 DEF IsInjective
    <3>3. CASE a \in 1..Len(s) /\ b \in 1..Len(s)
      BY <2>1, <3>1, <3>3 DEF KeepsFirst
    <3> QED
      BY <2>1, <2>2, <3>1, <3>2, <3>3
  <2>9. KeepsFirst(q, S, T, n, t)
    BY <2>1, <2>5, <2>6, <2>7, <2>8 DEF KeepsFirst
  <2> QED
    BY <1>3, <2>9 DEF t
<1> QED
  BY <1>2, <1>3

(* Kept() keeps the entries in S, in their order and as often as they occur.   *)
LEMMA KeptKeeps ==
    ASSUME NEW T, NEW q \in Seq(T), NEW S
    PROVE  KeepsFirst(q, S, T, Len(q), Kept(q, S))
<1>1. PICK k : KeptPrefixes(q, S, k) /\ Kept(q, S) = k[Len(q)]
  BY KeptIsLast
<1>2. Len(q) \in Nat
  BY LenProperties
<1> DEFINE Bad == {n \in 0..Len(q) : ~KeepsFirst(q, S, T, n, k[n])}
<1>3. CASE Bad # {}
  <2>1. Bad \in SUBSET Nat
    BY <1>2
  <2>2. PICK n \in Bad : \A m \in Bad : n <= m
    <3> HIDE DEF Bad
    <3> QED BY <1>3, <2>1, LeastExists
  <2>3. n \in 0..Len(q) /\ ~KeepsFirst(q, S, T, n, k[n])
    OBVIOUS
  <2>4. k[n] = IF n = 0 THEN <<>>
               ELSE IF q[n] \in S THEN Append(k[n - 1], q[n]) ELSE k[n - 1]
    BY <1>1, <2>3 DEF KeptPrefixes
  <2>5. n # 0
    <3>1. KeepsFirst(q, S, T, 0, <<>>)
      <4>1. <<>> \in Seq(T) /\ Len(<<>>) = 0
        BY EmptySeq
      <4> QED
        BY <4>1 DEF KeepsFirst
    <3> QED
      BY <2>3, <2>4, <3>1
  <2>6. n \in 1..Len(q) /\ n - 1 \in 0..Len(q)
    BY <1>2, <2>3, <2>5
  <2>7. KeepsFirst(q, S, T, n - 1, k[n - 1])
    BY <1>2, <2>2, <2>6
  <2>8. KeepsFirst(q, S, T, n, IF q[n] \in S THEN Append(k[n - 1], q[n]) ELSE k[n - 1])
    BY <2>6, <2>7, KeepsOneMore
  <2> QED
    BY <2>3, <2>4, <2>5, <2>8
<1>4. CASE Bad = {}
  BY <1>1, <1>2, <1>4
<1> QED
  BY <1>3, <1>4

(* How a step changes the queue: it stays and no pass begins, one user leaves  *)
(* it and may begin a pass, or a user who is neither queued nor served joins.  *)
QueueStays    == queue' = queue /\ running' \subseteq running
QueueLoses(u) == queue' = DropUser(u) /\ running' \subseteq running \cup {u}
QueueGains(u) ==
    /\ ~Contains(queue, u) /\ u \notin running
    /\ queue' = Append(queue, u) /\ running' = running

(* There are no other steps. *)
LEMMA QueueMoves ==
    ASSUME [Next]_vars
    PROVE  QueueStays \/ \E u \in Users : QueueLoses(u) \/ QueueGains(u)
<1>1. ASSUME NEW u \in Users, Acquire(u)
      PROVE  QueueStays \/ QueueLoses(u) \/ QueueGains(u)
  BY <1>1 DEF Acquire, Enqueue, QueueStays, QueueLoses, QueueGains
<1>2. ASSUME NEW u \in Users, Touch(u) \/ Release(u) \/ LeavesSlot(u) \/ GoesStale(u)
      PROVE  QueueStays
  BY <1>2 DEF Touch, Release, LeavesSlot, GoesStale, QueueStays
<1>3. ASSUME NEW u \in Users, Dequeue(u)
      PROVE  QueueLoses(u)
  BY <1>3 DEF Dequeue, QueueLoses
<1>4. ASSUME NEW u \in Users, StartQueued(u)
      PROVE  Acquire(u) \/ QueueStays
  BY <1>4 DEF StartQueued, QueueStays
<1>5. CASE RecoverStale \/ PickQueued \/ StopDraining \/ UNCHANGED vars
  BY <1>5 DEF RecoverStale, PickQueued, StopDraining, vars, QueueStays
<1> QED
  BY <1>1, <1>2, <1>3, <1>4, <1>5 DEF Next, Start

(* What Typed leaves out of the type invariant. *)
QueuesTyped == queue \in Seq(Users) /\ drain \in Seq(Users)

(* Dropping a user takes out its entries and nothing else. *)
LEMMA DropUserDrops ==
    ASSUME QueuesTyped, NEW u \in Users
    PROVE  KeepsFirst(queue, Users \ {u}, Users, Len(queue), DropUser(u))
BY KeptKeeps DEF QueuesTyped, DropUser

(* The smaller and the larger of two numbers. *)
LEMMA SmallerOfTwo ==
    ASSUME NEW a \in Int, NEW b \in Int
    PROVE  Min({a, b}) \in Int /\ Min({a, b}) <= a /\ Min({a, b}) <= b
<1>1. \E x \in {a, b} : \A y \in {a, b} : x =< y
  OBVIOUS
<1>2. Min({a, b}) \in {a, b} /\ \A y \in {a, b} : Min({a, b}) =< y
  BY <1>1 DEF Min
<1> QED
  BY <1>2

(* Likewise. *)
LEMMA LargerOfTwo ==
    ASSUME NEW a \in Int, NEW b \in Int
    PROVE  Max({a, b}) \in Int /\ Max({a, b}) >= a /\ Max({a, b}) >= b
<1>1. \E x \in {a, b} : \A y \in {a, b} : x >= y
  OBVIOUS
<1>2. Max({a, b}) \in {a, b} /\ \A y \in {a, b} : Max({a, b}) >= y
  BY <1>1 DEF Max
<1> QED
  BY <1>2

(* What the periodic job takes is a part of the queue. *)
LEMMA DrainableTypes ==
    ASSUME QueuesTyped, NEW a
    PROVE  Drainable(a) \in Seq(Users)
<1> DEFINE waiting == Kept(queue, Users \ Holders(a))
           free    == Max({0, MaxConcurrent - Cardinality(Holders(a))})
           n       == Min({Len(waiting), Max({1, Min({free, 10})})})
<1>1. waiting \in Seq(Users) /\ Len(waiting) \in Nat
  BY KeptKeeps, LenProperties DEF QueuesTyped, KeepsFirst
<1>2. Drainable(a) = SubSeq(waiting, 1, n)
  BY DEF Drainable
<1>3. n \in Int /\ n <= Len(waiting)
  <2>1. IsFiniteSet(Holders(a))
    BY UsersAssumption, FS_Subset DEF Holders
  <2>2. Cardinality(Holders(a)) \in Nat /\ MaxConcurrent \in Nat
    BY <2>1, FS_CardinalityType, SchedulerAssumption
  <2>3. free \in Int
    <3>1. 0 \in Int /\ MaxConcurrent - Cardinality(Holders(a)) \in Int
      BY <2>2
    <3> QED
      BY <3>1, LargerOfTwo
  <2> HIDE DEF free, waiting
  <2>4. Min({free, 10}) \in Int
    <3>1. 10 \in Int
      OBVIOUS
    <3> QED
      BY <2>3, <3>1, SmallerOfTwo
  <2>5. Max({1, Min({free, 10})}) \in Int
    <3>1. 1 \in Int
      OBVIOUS
    <3> QED
      BY <2>4, <3>1, LargerOfTwo
  <2>6. Len(waiting) \in Int
    BY <1>1
  <2> QED
    BY <2>5, <2>6, SmallerOfTwo
<1> HIDE DEF n, waiting
<1>4. \A i \in 1..n : waiting[i] \in Users
  BY <1>1, <1>3, ElementOfSeq
<1> QED
  BY <1>2, <1>3, <1>4, SubSeqProperties

(* Every step keeps the types of the queue and of what the job took from it.   *)
LEMMA QueuesStayTyped ==
    ASSUME QueuesTyped, [Next]_vars
    PROVE  QueuesTyped'
<1>1. queue' \in Seq(Users)
  <2>1. CASE QueueStays
    BY <2>1 DEF QueueStays, QueuesTyped
  <2>2. ASSUME NEW u \in Users, QueueLoses(u)
        PROVE  queue' \in Seq(Users)
    BY <2>2, DropUserDrops DEF QueueLoses, KeepsFirst
  <2>3. ASSUME NEW u \in Users, QueueGains(u)
        PROVE  queue' \in Seq(Users)
    BY <2>3, AppendProperties DEF QueueGains, QueuesTyped
  <2> QED
    BY <2>1, <2>2, <2>3, QueueMoves
<1>2. drain' \in Seq(Users)
  <2>1. ASSUME NEW u \in Users, StartQueued(u)
        PROVE  drain' \in Seq(Users)
    BY <2>1, HeadTailProperties DEF StartQueued, QueuesTyped
  <2>2. ASSUME PickQueued
        PROVE  drain' \in Seq(Users)
    BY <2>2, DrainableTypes DEF PickQueued
  <2>3. ASSUME StopDraining
        PROVE  drain' \in Seq(Users)
    BY <2>3, EmptySeq DEF StopDraining
  <2>4. ASSUME UNCHANGED drain
        PROVE  drain' \in Seq(Users)
    BY <2>4 DEF QueuesTyped
  <2>5. ASSUME NEW u \in Users,
               Start(u) \/ Touch(u) \/ Release(u) \/ LeavesSlot(u) \/ Dequeue(u) \/ GoesStale(u)
        PROVE  UNCHANGED drain
    BY <2>5 DEF Start, Touch, Release, LeavesSlot, Dequeue, GoesStale
  <2>6. RecoverStale \/ UNCHANGED vars => UNCHANGED drain
    BY DEF RecoverStale, vars
  <2> QED
    BY <2>1, <2>2, <2>3, <2>4, <2>5, <2>6 DEF Next
<1> QED
  BY <1>1, <1>2 DEF QueuesTyped

(* Every step keeps the queue to users who wait, once each. *)
LEMMA QueueStaysProper ==
    ASSUME QueuesTyped, QueueHoldsWaiting, [Next]_vars
    PROVE  QueueHoldsWaiting'
<1>1. DOMAIN queue = 1..Len(queue) /\ Len(queue) \in Nat
  BY LenProperties DEF QueuesTyped
<1>2. CASE QueueStays
  BY <1>2 DEF QueueStays, QueueHoldsWaiting
<1>3. ASSUME NEW u \in Users, QueueLoses(u)
      PROVE  QueueHoldsWaiting'
  <2> DEFINE new == DropUser(u)
  <2>1. KeepsFirst(queue, Users \ {u}, Users, Len(queue), new)
    BY DropUserDrops
  <2> HIDE DEF new
  <2>2. DOMAIN new = 1..Len(new)
    BY <2>1, LenProperties DEF KeepsFirst
  <2>3. IsInjective(new)
    BY <2>1, <2>2 DEF KeepsFirst, QueueHoldsWaiting, IsInjective
  <2>4. ASSUME NEW a \in 1..Len(new)
        PROVE  new[a] \notin running \cup {u}
    <3>1. new[a] # u
      BY <2>1 DEF KeepsFirst
    <3>2. PICK i \in 1..Len(queue) : new[a] = queue[i]
      BY <2>1 DEF KeepsFirst
    <3> QED
      BY <1>1, <3>1, <3>2 DEF QueueHoldsWaiting, ToSet
  <2>5. queue' = new /\ running' \subseteq running \cup {u}
    BY <1>3 DEF QueueLoses, new
  <2>6. ToSet(new) \cap running' = {}
    BY <2>2, <2>4, <2>5 DEF ToSet
  <2> QED
    BY <2>3, <2>5, <2>6 DEF QueueHoldsWaiting
<1>4. ASSUME NEW u \in Users, QueueGains(u)
      PROVE  QueueHoldsWaiting'
  <2>1. /\ queue' \in Seq(Users) /\ Len(queue') = Len(queue) + 1
        /\ \A i \in 1..Len(queue) : queue'[i] = queue[i]
        /\ queue'[Len(queue) + 1] = u
    BY <1>4, AppendProperties DEF QueueGains, QueuesTyped
  <2>2. DOMAIN queue' = 1..Len(queue) + 1
    BY <2>1, LenProperties
  <2>3. \A i \in DOMAIN queue' : i \in 1..Len(queue) \/ i = Len(queue) + 1
    BY <1>1, <2>2
  <2>4. \A i \in 1..Len(queue) : queue[i] # u
    BY <1>4 DEF QueueGains, Contains
  <2>5. IsInjective(queue')
    <3>1. \A i, j \in 1..Len(queue) : queue[i] = queue[j] => i = j
      BY <1>1 DEF QueueHoldsWaiting, IsInjective
    <3> QED
      BY <2>1, <2>3, <2>4, <3>1 DEF IsInjective
  <2>6. ToSet(queue') \cap running' = {}
    <3>1. \A i \in 1..Len(queue) : queue[i] \notin running
      BY <1>1 DEF QueueHoldsWaiting, ToSet
    <3>2. u \notin running /\ running' = running
      BY <1>4 DEF QueueGains
    <3> QED
      BY <2>1, <2>3, <3>1, <3>2 DEF ToSet
  <2> QED
    BY <2>5, <2>6 DEF QueueHoldsWaiting
<1> QED
  BY <1>2, <1>3, <1>4, QueueMoves

(* No step lets a waiting user overtake another. *)
LEMMA PlaceKept ==
    ASSUME QueuesTyped, [Next]_vars, NEW u, NEW v, Contains(queue', u), Contains(queue', v),
           \E i, j \in DOMAIN queue : i < j /\ queue[i] = u /\ queue[j] = v
    PROVE  \E i, j \in DOMAIN queue' : i < j /\ queue'[i] = u /\ queue'[j] = v
<1>1. DOMAIN queue = 1..Len(queue) /\ Len(queue) \in Nat
  BY LenProperties DEF QueuesTyped
<1>2. CASE QueueStays
  BY <1>2 DEF QueueStays
<1>3. ASSUME NEW x \in Users, QueueLoses(x)
      PROVE  \E i, j \in DOMAIN queue' : i < j /\ queue'[i] = u /\ queue'[j] = v
  <2> DEFINE new == DropUser(x)
  <2>1. KeepsFirst(queue, Users \ {x}, Users, Len(queue), new)
    BY DropUserDrops
  <2> HIDE DEF new
  <2>2. DOMAIN new = 1..Len(new) /\ queue' = new
    BY <1>3, <2>1, LenProperties DEF KeepsFirst, QueueLoses, new
  <2>3. u \in Users \ {x} /\ v \in Users \ {x}
    BY <2>1, <2>2 DEF KeepsFirst, Contains
  <2>4. PICK i \in 1..Len(queue), j \in 1..Len(queue) : i < j /\ queue[i] = u /\ queue[j] = v
    BY <1>1
  <2>5. \E a, b \in 1..Len(new) : a < b /\ new[a] = queue[i] /\ new[b] = queue[j]
    BY <2>1, <2>3, <2>4 DEF KeepsFirst
  <2> QED
    BY <2>2, <2>4, <2>5
<1>4. ASSUME NEW x \in Users, QueueGains(x)
      PROVE  \E i, j \in DOMAIN queue' : i < j /\ queue'[i] = u /\ queue'[j] = v
  <2>1. /\ queue' \in Seq(Users) /\ Len(queue') = Len(queue) + 1
        /\ \A i \in 1..Len(queue) : queue'[i] = queue[i]
    BY <1>4, AppendProperties DEF QueueGains, QueuesTyped
  <2>2. DOMAIN queue \subseteq DOMAIN queue'
    BY <1>1, <2>1, LenProperties
  <2> QED
    BY <1>1, <2>1, <2>2
<1> QED
  BY <1>2, <1>3, <1>4, QueueMoves

(* A queue that holds each user at most once is no longer than there are users. *)
LEMMA QueueIsShort ==
    ASSUME QueuesTyped, QueueHoldsWaiting
    PROVE  Len(queue) <= Cardinality(Users)
<1>1. queue \in [1..Len(queue) -> Users] /\ Len(queue) \in Nat
  BY LenProperties DEF QueuesTyped
<1>2. queue \in Injection(1..Len(queue), Users)
  BY <1>1 DEF QueueHoldsWaiting, IsInjective, Injection
<1>3. Cardinality(1..Len(queue)) <= Cardinality(Users)
  BY <1>2, UsersAssumption, FS_Injection
<1>4. Cardinality(1..Len(queue)) = Len(queue)
  <2>1. 1 \in Int /\ Len(queue) \in Int
    BY <1>1
  <2>2. Cardinality(1..Len(queue)) = IF 1 > Len(queue) THEN 0 ELSE Len(queue) - 1 + 1
    BY <2>1, FS_Interval
  <2> QED
    BY <1>1, <2>2
<1> QED
  BY <1>3, <1>4

(* Initially. *)
LEMMA QueuesInit == Init => QueuesTyped /\ QueueHoldsWaiting
<1>1. <<>> \in Seq(Users) /\ DOMAIN <<>> = {}
  BY EmptySeq, LenProperties
<1> QED
  BY <1>1 DEF Init, QueuesTyped, QueueHoldsWaiting, IsInjective, ToSet

(* No user is queued twice and nobody whose pass runs is queued, whatever      *)
(* requests, drains, heartbeats and losses do (acquireSlot(), dequeue()).      *)
THEOREM QueueStaysClean == Spec => []QueueHoldsWaiting
<1>1. QueuesTyped /\ QueueHoldsWaiting /\ [Next]_vars => (QueuesTyped /\ QueueHoldsWaiting)'
  BY QueuesStayTyped, QueueStaysProper
<1> QED
  BY <1>1, QueuesInit, PTL DEF Spec

(* The state of the scheduler has its type: in particular the queue cannot     *)
(* grow beyond the number of users.                                           *)
THEOREM SchedulerTypes == Spec => []TypeOK
<1>1. Typed /\ QueuesTyped /\ QueueHoldsWaiting => TypeOK
  BY QueueIsShort DEF Typed, QueuesTyped, TypeOK
<1>2. Typed /\ SlotsAreExact /\ QueuesTyped /\ QueueHoldsWaiting /\ [Next]_vars
      => (Typed /\ SlotsAreExact /\ QueuesTyped /\ QueueHoldsWaiting)'
  BY QueuesStayTyped, QueueStaysProper, StepKeeps
<1> QED
  BY <1>1, <1>2, SlotsInit, QueuesInit, PTL DEF Spec

(* The queue is first in, first out: nobody who waits is overtaken by somebody *)
(* who came later, also when a request is repeated or others give up.         *)
THEOREM QueueIsFair == Spec => PlaceIsKept
<1>1. QueuesTyped /\ [Next]_vars => QueuesTyped'
  BY QueuesStayTyped
<1>2. QueuesTyped /\ [Next]_vars =>
        [\A u, v \in Users :
          /\ Contains(queue, u) /\ Contains(queue', u)
          /\ Contains(queue, v) /\ Contains(queue', v)
          /\ \E i, j \in DOMAIN queue : i < j /\ queue[i] = u /\ queue[j] = v
          => \E i, j \in DOMAIN queue' : i < j /\ queue'[i] = u /\ queue'[j] = v]_vars
  BY PlaceKept
<1> QED
  BY <1>1, <1>2, QueuesInit, PTL DEF Spec, PlaceIsKept

=============================================================================
