------------------------ MODULE FrontendPages_proofs ------------------------
(***************************************************************************)
(* Facts about PageRequests, for any number of requests: the least member  *)
(* of a set of numbers, sets in order and selections, numbers that no      *)
(* request has, and what sending, serving, answering and failing leave.    *)
(* Then the invariants of the pages that show what the server lists        *)
(* (navigation, chat about files, usage, administration, storage,          *)
(* documents), and                                                         *)
(* that every action of a page, and every attempt that fails, keeps them.  *)
(***************************************************************************)
EXTENDS FrontendViews, FiniteSetTheorems, SequenceTheorems, WellFoundedInduction, TLAPS

-----------------------------------------------------------------------------
(* Numbers in order. *)

(* A set of numbers that is not empty has a least member. *)
LEMMA LeastMember ==
    ASSUME NEW S \in SUBSET Nat, S # {}
    PROVE  \E x \in S : \A y \in S : x <= y
<1> DEFINE R == {ss \in Nat \X Nat : ss[1] < ss[2]}
<1>1. IsWellFoundedOn(R, Nat)
  BY NatLessThanWellFounded DEF OpToRel
<1>2. PICK x \in S : \A y \in S : <<y, x>> \notin R
  <2> HIDE DEF R
  <2> QED BY <1>1, WFMin
<1>3. ASSUME NEW y \in S
      PROVE  x <= y
  <2>1. x \in Nat /\ y \in Nat
    OBVIOUS
  <2>2. y < x => <<y, x>> \in R
    BY <2>1
  <2> QED
    BY <1>2, <2>1, <2>2
<1> QED
  BY <1>3

(* The numbers of a finite set that are less than one of them are as many    *)
(* as their place in the order says: each place is taken once.               *)
LEMMA PlacesAreTaken ==
    ASSUME NEW S \in SUBSET Nat, IsFiniteSet(S), NEW n \in 1..Cardinality(S)
    PROVE  \E x \in S : Cardinality({y \in S : y < x}) = n - 1
<1> DEFINE Below(x) == {y \in S : y < x}
           rank == [x \in S |-> Cardinality(Below(x))]
           T == 0..(Cardinality(S) - 1)
<1>0. Cardinality(S) \in Nat
  BY FS_CardinalityType
<1>1. ASSUME NEW x \in S
      PROVE  /\ IsFiniteSet(Below(x)) /\ Cardinality(Below(x)) \in Nat
             /\ Cardinality(Below(x)) < Cardinality(S)
  <2>1. Below(x) \in SUBSET S /\ x \notin Below(x)
    OBVIOUS
  <2> HIDE DEF Below
  <2>2. Below(x) # S
    BY <2>1
  <2>3. IsFiniteSet(Below(x)) /\ Cardinality(Below(x)) <= Cardinality(S) /\ Cardinality(S) # Cardinality(Below(x))
    BY <2>1, <2>2, FS_Subset
  <2>4. Cardinality(Below(x)) \in Nat
    BY <2>3, FS_CardinalityType
  <2> QED
    BY <1>0, <2>3, <2>4
<1>2. ASSUME NEW x \in S, NEW y \in S, x < y
      PROVE  Cardinality(Below(x)) < Cardinality(Below(y))
  <2>0. x \in Nat /\ y \in Nat /\ \A z \in S : z \in Nat
    OBVIOUS
  <2>a. \A z \in S : z < x => z < y
    BY <1>2, <2>0
  <2>b. ~(x < x)
    BY <2>0
  <2>1. Below(x) \in SUBSET Below(y) /\ x \in Below(y) /\ x \notin Below(x)
    BY <1>2, <2>a, <2>b
  <2>2. IsFiniteSet(Below(y)) /\ Cardinality(Below(x)) \in Nat /\ Cardinality(Below(y)) \in Nat
    BY <1>1
  <2> HIDE DEF Below
  <2>3. Cardinality(Below(x)) <= Cardinality(Below(y)) /\ Cardinality(Below(y)) # Cardinality(Below(x))
    BY <2>1, <2>2, FS_Subset
  <2> QED
    BY <2>2, <2>3
<1>3. rank \in [S -> T]
  BY <1>0, <1>1
<1>4. ASSUME NEW x \in S, NEW y \in S, rank[x] = rank[y]
      PROVE  x = y
  <2>1. x \in Nat /\ y \in Nat /\ Cardinality(Below(x)) \in Nat /\ Cardinality(Below(y)) \in Nat
    BY <1>1
  <2>2. Cardinality(Below(x)) = Cardinality(Below(y))
    BY <1>4
  <2>3. ~(x < y) /\ ~(y < x)
    BY <1>2, <2>1, <2>2
  <2> QED
    BY <2>1, <2>3
<1>5. rank \in Injection(S, T)
  BY <1>3, <1>4 DEF Injection, IsInjective
<1>6. IsFiniteSet(T) /\ Cardinality(T) = Cardinality(S)
  <2>1. 0 \in Int /\ Cardinality(S) - 1 \in Int /\ (0 > Cardinality(S) - 1 => Cardinality(S) = 0)
    BY <1>0
  <2>2. IsFiniteSet(T) /\ Cardinality(T) = IF 0 > Cardinality(S) - 1 THEN 0 ELSE Cardinality(S) - 1 - 0 + 1
    BY <2>1, FS_Interval
  <2> QED
    BY <1>0, <2>1, <2>2
<1>7. rank \in Surjection(S, T)
  <2> HIDE DEF rank, T
  <2> QED
    BY <1>5, <1>6, FS_Injection
<1>8. n - 1 \in T
  BY <1>0
<1>9. PICK x \in S : rank[x] = n - 1
  BY <1>7, <1>8 DEF Surjection
<1> QED
  BY <1>9

(* Ascending() lists the numbers of a finite set, each once and in order.    *)
LEMMA InOrder ==
    ASSUME NEW S \in SUBSET Nat, IsFiniteSet(S)
    PROVE  /\ Cardinality(S) \in Nat
           /\ Ascending(S) \in [1..Cardinality(S) -> S]
           /\ \A i, j \in 1..Cardinality(S) : i < j => Ascending(S)[i] < Ascending(S)[j]
           /\ \A x \in S : \E i \in 1..Cardinality(S) : Ascending(S)[i] = x
<1> DEFINE Below(x) == {y \in S : y < x}
           At(n) == CHOOSE x \in S : Cardinality(Below(x)) = n - 1
<1>0. Cardinality(S) \in Nat
  BY FS_CardinalityType
<1>1. ASSUME NEW n \in 1..Cardinality(S)
      PROVE  At(n) \in S /\ Cardinality(Below(At(n))) = n - 1 /\ Ascending(S)[n] = At(n)
  BY PlacesAreTaken DEF Ascending
<1>2. ASSUME NEW x \in S, NEW y \in S, x <= y
      PROVE  /\ Cardinality(Below(x)) \in Nat /\ Cardinality(Below(y)) \in Nat
             /\ Cardinality(Below(x)) <= Cardinality(Below(y))
  <2>0. x \in Nat /\ y \in Nat /\ \A z \in S : z \in Nat
    OBVIOUS
  <2>a. \A z \in S : z < x => z < y
    BY <1>2, <2>0
  <2>1. Below(x) \in SUBSET Below(y) /\ Below(y) \in SUBSET S
    BY <2>a
  <2>2. IsFiniteSet(Below(y))
    <3> HIDE DEF Below
    <3> QED BY <2>1, FS_Subset
  <2> HIDE DEF Below
  <2> QED
    BY <2>1, <2>2, FS_Subset, FS_CardinalityType
<1>3. Ascending(S) \in [1..Cardinality(S) -> S]
  BY <1>1 DEF Ascending
<1>4. ASSUME NEW i \in 1..Cardinality(S), NEW j \in 1..Cardinality(S), i < j
      PROVE  Ascending(S)[i] < Ascending(S)[j]
  <2>1. At(i) \in S /\ At(j) \in S /\ Cardinality(Below(At(i))) = i - 1 /\ Cardinality(Below(At(j))) = j - 1
    BY <1>1
  <2>2. At(i) \in Nat /\ At(j) \in Nat /\ i \in Nat /\ j \in Nat
    <3>1. \A z \in S : z \in Nat
      OBVIOUS
    <3>2. At(i) \in Nat /\ At(j) \in Nat
      <4> HIDE DEF At, Below
      <4> QED BY <2>1, <3>1
    <3> QED BY <1>0, <3>2
  <2>3. ~(At(j) <= At(i))
    <3> HIDE DEF Below, At
    <3> QED BY <1>2, <1>4, <2>1, <2>2
  <2>4. At(i) < At(j)
    BY <2>2, <2>3
  <2> QED
    BY <1>1, <2>4
<1>5. ASSUME NEW x \in S
      PROVE  \E i \in 1..Cardinality(S) : Ascending(S)[i] = x
  <2> DEFINE f == Ascending(S)
  <2>1. f \in Injection(1..Cardinality(S), S)
    <3>1. \A i, j \in 1..Cardinality(S) : f[i] = f[j] => i = j
      <4> SUFFICES ASSUME NEW i \in 1..Cardinality(S), NEW j \in 1..Cardinality(S), f[i] = f[j], i # j
                   PROVE  FALSE
        OBVIOUS
      <4>1. i < j \/ j < i
        BY <1>0
      <4>2. f[i] \in Nat /\ f[j] \in Nat
        BY <1>3
      <4> QED
        BY <1>4, <4>1, <4>2
    <3> QED
      BY <1>3, <3>1 DEF Injection, IsInjective
  <2>2. Cardinality(1..Cardinality(S)) = Cardinality(S) /\ IsFiniteSet(1..Cardinality(S))
    BY <1>0, FS_Interval
  <2>3. f \in Surjection(1..Cardinality(S), S)
    <3> HIDE DEF f
    <3> QED BY <2>1, <2>2, FS_Injection
  <2> QED
    BY <2>3 DEF Surjection
<1> QED
  BY <1>0, <1>3, <1>4, <1>5

(* The members of a sequence at a set of places keep their order.            *)
LEMMA TakenInOrder ==
    ASSUME NEW A, NEW s \in Seq(A), NEW places \in SUBSET DOMAIN s
    PROVE  /\ IsFiniteSet(places) /\ Cardinality(places) \in Nat
           /\ Taken(s, places) \in Seq(A)
           /\ Len(Taken(s, places)) = Cardinality(places)
           /\ \A n \in 1..Cardinality(places) :
                 Ascending(places)[n] \in places /\ Taken(s, places)[n] = s[Ascending(places)[n]]
           /\ \A i, j \in 1..Cardinality(places) : i < j => Ascending(places)[i] < Ascending(places)[j]
           /\ \A i \in places : \E n \in 1..Cardinality(places) : Ascending(places)[n] = i
<1>1. DOMAIN s = 1..Len(s) /\ Len(s) \in Nat
  OBVIOUS
<1>2. places \in SUBSET Nat
  BY <1>1
<1>3. IsFiniteSet(places)
  <2>1. IsFiniteSet(1..Len(s))
    BY <1>1, FS_Interval
  <2> QED
    BY <1>1, <2>1, FS_Subset
<1>4. /\ Cardinality(places) \in Nat
      /\ Ascending(places) \in [1..Cardinality(places) -> places]
      /\ \A i, j \in 1..Cardinality(places) : i < j => Ascending(places)[i] < Ascending(places)[j]
      /\ \A x \in places : \E i \in 1..Cardinality(places) : Ascending(places)[i] = x
  BY <1>2, <1>3, InOrder
<1>5. Taken(s, places) = [n \in 1..Cardinality(places) |-> s[Ascending(places)[n]]]
  BY DEF Taken
<1>6. ASSUME NEW n \in 1..Cardinality(places)
      PROVE  Ascending(places)[n] \in places /\ s[Ascending(places)[n]] \in A
  BY <1>1, <1>4
<1>7. Taken(s, places) \in [1..Cardinality(places) -> A]
  BY <1>5, <1>6
<1>8. Taken(s, places) \in Seq(A) /\ Len(Taken(s, places)) = Cardinality(places)
  BY <1>4, <1>7
<1> QED
  BY <1>3, <1>4, <1>5, <1>6, <1>8

(* A finite set of numbers has a largest. *)
LEMMA LargestMember ==
    ASSUME NEW S \in SUBSET Nat, IsFiniteSet(S), S # {}
    PROVE  \E x \in S : \A y \in S : y <= x
<1> DEFINE m == Cardinality(S)
<1>1. /\ m \in Nat /\ Ascending(S) \in [1..m -> S]
      /\ \A i, j \in 1..m : i < j => Ascending(S)[i] < Ascending(S)[j]
      /\ \A x \in S : \E i \in 1..m : Ascending(S)[i] = x
  BY InOrder
<1> HIDE DEF m
<1>2. m \in 1..m
  <2>1. PICK x \in S : TRUE
    OBVIOUS
  <2> QED
    BY <1>1, <2>1
<1>3. \A i \in 1..m : Ascending(S)[i] <= Ascending(S)[m]
  <2> SUFFICES ASSUME NEW i \in 1..m
               PROVE  Ascending(S)[i] <= Ascending(S)[m]
    OBVIOUS
  <2>1. Ascending(S)[i] \in Nat /\ Ascending(S)[m] \in Nat
    BY <1>1, <1>2
  <2> QED
    BY <1>1, <1>2, <2>1
<1> QED
  BY <1>1, <1>2, <1>3

-----------------------------------------------------------------------------
(* Requests. *)

AsksFor(N, A) == [op: N, get: BOOLEAN, arg: A]
RequestsFor(N, A) ==
    [op: N, get: BOOLEAN, arg: A, id: Nat \ {0}, tries: 0..MaxRetries,
     state: {"sent", "answered", "failed"}, got: A]

(* The requests under way, whose parameters and answers are in A: finitely   *)
(* many, each with a number of its own.                                      *)
UnderWay(N, A) ==
    /\ task \in Tasks /\ clicks \in 0..task.clicks /\ faults \in 0..task.faults
    /\ IsFiniteSet(net)
    /\ net \subseteq RequestsFor(N, A)
    /\ \A r, q \in net : r.id = q.id => r = q

(* r was just sent for ask. *)
SentFor(r, ask) ==
    /\ r.op = ask.op /\ r.get = ask.get /\ r.arg = ask.arg
    /\ r.state = "sent" /\ r.tries = 0 /\ r.got = ask.arg

LEMMA FieldsOfRequests ==
    ASSUME NEW N, NEW A, NEW r \in RequestsFor(N, A)
    PROVE  /\ r.op \in N /\ r.get \in BOOLEAN /\ r.arg \in A /\ r.id \in Nat \ {0}
           /\ r.tries \in 0..MaxRetries /\ r.state \in {"sent", "answered", "failed"} /\ r.got \in A
BY DEF RequestsFor

LEMMA Interval ==
    ASSUME NEW m \in Nat
    PROVE  IsFiniteSet(1..m) /\ Cardinality(1..m) = m
<1>1. 1 \in Int /\ m \in Int /\ (1 > m => m = 0)
  OBVIOUS
<1>2. IsFiniteSet(1..m) /\ Cardinality(1..m) = IF 1 > m THEN 0 ELSE m - 1 + 1
  BY <1>1, FS_Interval
<1> QED
  BY <1>1, <1>2

(* The task of a behaviour bounds what is done in it. *)
LEMMA TaskFields ==
    ASSUME task \in Tasks
    PROVE  /\ task.view \in Views /\ task.acts \in SUBSET Acts /\ task.clicks \in Nat /\ task.faults \in Nat
BY TaskAssumption

(* There is a number for every new request that no request under way has.    *)
LEMMA IdsAreFree ==
    ASSUME NEW N, NEW A, UnderWay(N, A), NEW n \in Nat
    PROVE  /\ FreeIds(n) \in [1..n -> Nat \ {0}]
           /\ \A i \in 1..n, r \in net : FreeIds(n)[i] # r.id
           /\ \A i, j \in 1..n : FreeIds(n)[i] = FreeIds(n)[j] => i = j
<1> DEFINE used == {r.id : r \in net}
           all == 1..(Cardinality(net) + n)
           free == all \ used
<1>0. IsFiniteSet(net) /\ Cardinality(net) \in Nat /\ \A r \in net : r.id \in Nat \ {0}
  BY FS_CardinalityType, FieldsOfRequests DEF UnderWay
<1>1. IsFiniteSet(used) /\ Cardinality(used) <= Cardinality(net)
  <2> DEFINE f == [r \in net |-> r.id]
  <2>1. f \in Surjection(net, used)
    BY DEF Surjection
  <2> HIDE DEF f, used
  <2> QED
    BY <1>0, <2>1, FS_Surjection
<1>2. IsFiniteSet(all) /\ Cardinality(all) = Cardinality(net) + n
  <2>1. Cardinality(net) + n \in Nat
    BY <1>0
  <2> HIDE DEF used
  <2> QED
    BY <2>1, Interval
<1>3. IsFiniteSet(free) /\ Cardinality(free) \in Nat /\ n <= Cardinality(free)
  <2> HIDE DEF used, all
  <2>1. IsFiniteSet(free) /\ Cardinality(free) = Cardinality(all) - Cardinality(all \cap used)
    BY <1>1, <1>2, FS_Difference
  <2>2. Cardinality(all \cap used) <= Cardinality(used)
    BY <1>1, FS_Subset
  <2>3. Cardinality(all \cap used) \in Nat /\ Cardinality(used) \in Nat /\ Cardinality(free) \in Nat
    <3>1. IsFiniteSet(all \cap used)
      BY <1>1, FS_Subset
    <3> QED
      BY <1>1, <2>1, <3>1, FS_CardinalityType
  <2> QED
    BY <1>0, <1>1, <1>2, <2>1, <2>2, <2>3
<1>4. free \in SUBSET Nat
  BY <1>0
<1>5. /\ Ascending(free) \in [1..Cardinality(free) -> free]
      /\ \A i, j \in 1..Cardinality(free) : i < j => Ascending(free)[i] < Ascending(free)[j]
  <2> HIDE DEF free
  <2> QED BY <1>3, <1>4, InOrder
<1> DEFINE ids == [i \in 1..n |-> Ascending(free)[i]]
           Fit(f) == \A i, j \in 1..n : i < j => f[i] < f[j]
<1>6. ids \in [1..n -> free] /\ Fit(ids)
  <2> HIDE DEF free
  <2>1. \A i \in 1..n : i \in 1..Cardinality(free)
    BY <1>3
  <2> QED
    BY <1>5, <2>1
<1>7. FreeIds(n) = CHOOSE f \in [1..n -> free] : Fit(f)
  BY DEF FreeIds
<1>8. FreeIds(n) \in [1..n -> free] /\ Fit(FreeIds(n))
  <2> HIDE DEF free, ids, Fit
  <2> QED BY <1>6, <1>7
<1>9. \A i \in 1..n : FreeIds(n)[i] \in Nat \ {0} /\ FreeIds(n)[i] \notin used
  <2> SUFFICES ASSUME NEW i \in 1..n
               PROVE  FreeIds(n)[i] \in Nat \ {0} /\ FreeIds(n)[i] \notin used
    OBVIOUS
  <2>1. FreeIds(n)[i] \in free
    BY <1>8
  <2>2. \A x \in all : x \in Nat \ {0}
    BY <1>0
  <2> QED
    BY <2>1, <2>2
<1>a. \A i, j \in 1..n : FreeIds(n)[i] = FreeIds(n)[j] => i = j
  <2> SUFFICES ASSUME NEW i \in 1..n, NEW j \in 1..n, FreeIds(n)[i] = FreeIds(n)[j], i # j
               PROVE  FALSE
    OBVIOUS
  <2>1. i < j \/ j < i
    OBVIOUS
  <2>2. FreeIds(n)[i] \in Nat /\ FreeIds(n)[j] \in Nat
    BY <1>9
  <2> HIDE DEF free, ids
  <2> QED
    BY <1>8, <2>1, <2>2
<1>b. FreeIds(n) \in [1..n -> Nat \ {0}]
  <2> HIDE DEF free, ids, Fit
  <2> QED BY <1>8, <1>9
<1> QED
  BY <1>9, <1>a, <1>b

(* What an exchange leaves: the requests that stay, and one for every ask.   *)
LEMMA Exchanged ==
    ASSUME NEW N, NEW A, UnderWay(N, A), NEW done, NEW asks \in Seq(AsksFor(N, A)), Exchange(done, asks),
           task' = task, clicks' \in 0..task.clicks, faults' = faults
    PROVE  /\ UnderWay(N, A)'
           /\ \A r \in net' : (r \in net /\ r \notin done) \/ (r \notin net /\ \E i \in DOMAIN asks : SentFor(r, asks[i]))
           /\ \A r \in net \ done : r \in net'
           /\ \A i \in DOMAIN asks : \E r \in net' : SentFor(r, asks[i])
           /\ Len(asks) = 1 => \A r, q \in net' \ net : r = q
<1> DEFINE n == Len(asks)
           ids == FreeIds(n)
           NewOf(i) == [op |-> asks[i].op, get |-> asks[i].get, arg |-> asks[i].arg, id |-> ids[i],
                      tries |-> 0, state |-> "sent", got |-> asks[i].arg]
           new == {NewOf(i) : i \in 1..n}
<1>0. n \in Nat /\ DOMAIN asks = 1..n /\ \A i \in 1..n : asks[i] \in AsksFor(N, A)
  OBVIOUS
<1>1. /\ ids \in [1..n -> Nat \ {0}]
      /\ \A i \in 1..n, r \in net : ids[i] # r.id
      /\ \A i, j \in 1..n : ids[i] = ids[j] => i = j
  BY <1>0, IdsAreFree
<1>2. net' = (net \ done) \cup new
  BY <1>0 DEF Exchange, Sent
<1> HIDE DEF ids
<1>3. \A i \in 1..n : NewOf(i) \in RequestsFor(N, A) /\ SentFor(NewOf(i), asks[i]) /\ NewOf(i).id = ids[i]
  BY <1>0, <1>1 DEF AsksFor, RequestsFor, MaxRetries, SentFor
<1>4. IsFiniteSet(new)
  <2> DEFINE f == [i \in 1..n |-> NewOf(i)]
  <2>1. f \in Surjection(1..n, new)
    BY DEF Surjection
  <2>2. IsFiniteSet(1..n)
    BY <1>0, FS_Interval
  <2> HIDE DEF f, new
  <2> QED
    BY <2>1, <2>2, FS_Surjection
<1>5. IsFiniteSet(net')
  <2>1. IsFiniteSet(net \ done)
    BY FS_Subset DEF UnderWay
  <2> HIDE DEF new
  <2> QED
    BY <1>2, <1>4, <2>1, FS_Union
<1>6. \A r \in new : \E i \in 1..n : r = NewOf(i)
  OBVIOUS
<1>7. \A r \in new : r \notin net /\ \E i \in 1..n : SentFor(r, asks[i])
  <2> HIDE DEF new, NewOf
  <2> QED BY <1>1, <1>3, <1>6
<1>8. net' \subseteq RequestsFor(N, A)
  <2> HIDE DEF new, NewOf
  <2> QED BY <1>2, <1>3, <1>6 DEF UnderWay
<1>9. \A r, q \in net' : r.id = q.id => r = q
  <2>1. \A r \in new, q \in net : r.id # q.id
    <3> HIDE DEF new, NewOf
    <3> QED BY <1>1, <1>3, <1>6
  <2>2. \A r, q \in new : r.id = q.id => r = q
    <3> HIDE DEF new, NewOf
    <3> QED BY <1>1, <1>3, <1>6
  <2> HIDE DEF new
  <2> QED
    BY <1>2, <2>1, <2>2 DEF UnderWay
<1>a. UnderWay(N, A)'
  BY <1>5, <1>8, <1>9 DEF UnderWay
<1>b. \A i \in 1..n : NewOf(i) \in net'
  BY <1>2
<1>c. Len(asks) = 1 => \A r, q \in net' \ net : r = q
  <2> SUFFICES ASSUME n = 1, NEW r \in net' \ net, NEW q \in net' \ net
               PROVE  r = q
    OBVIOUS
  <2>1. (\E i \in 1..n : r = NewOf(i)) /\ (\E i \in 1..n : q = NewOf(i))
    <3> HIDE DEF new
    <3> QED BY <1>2, <1>6
  <2>2. r = NewOf(1) /\ q = NewOf(1)
    <3> HIDE DEF NewOf
    <3> QED BY <2>1
  <2> QED
    BY <2>2
<1> HIDE DEF new, NewOf
<1> QED
  BY <1>0, <1>2, <1>3, <1>7, <1>a, <1>b, <1>c

(* A request is replaced by itself in another state. *)
LEMMA Replaced1 ==
    ASSUME NEW N, NEW A, UnderWay(N, A), NEW r \in net, NEW q \in RequestsFor(N, A), q.id = r.id,
           net' = (net \ {r}) \cup {q}, task' = task, clicks' = clicks, faults' \in 0..task.faults
    PROVE  /\ UnderWay(N, A)'
           /\ \A s \in net' : s = q \/ (s \in net /\ s # r)
           /\ \A s \in net : s = r \/ s \in net'
           /\ q \in net'
<1>1. IsFiniteSet(net')
  BY FS_RemoveElement, FS_AddElement DEF UnderWay
<1>2. net' \subseteq RequestsFor(N, A) /\ \A s, t \in net' : s.id = t.id => s = t
  BY DEF UnderWay
<1> QED
  BY <1>1, <1>2 DEF UnderWay

(* A request is served: only its state and its answer change. *)
LEMMA Served ==
    ASSUME NEW N, NEW A, UnderWay(N, A), NEW r \in net, r.state = "sent", NEW got \in A,
           Answered(r, got) \/ Refused(r),
           task' = task, clicks' = clicks, faults' = faults
    PROVE  /\ UnderWay(N, A)'
           /\ \A s \in net' :
                 \/ s \in net
                 \/ /\ s.op = r.op /\ s.get = r.get /\ s.arg = r.arg /\ s.id = r.id /\ s.tries = r.tries
                    /\ s.state \in {"answered", "failed"}
                    /\ s.got = IF s.state = "answered" THEN got ELSE r.got
                    /\ s.state = "answered" => Answered(r, got)
           /\ \A s \in net : s \in net' \/ (s = r /\ \E q \in net' : q.op = r.op /\ q.get = r.get /\ q.arg = r.arg /\ q.id = r.id)
<1>0. r \in RequestsFor(N, A) /\ faults' \in 0..task.faults
  BY DEF UnderWay
<1>1. CASE Answered(r, got)
  <2> DEFINE q == [r EXCEPT !.state = "answered", !.got = got]
  <2>1. /\ q \in RequestsFor(N, A) /\ q.op = r.op /\ q.get = r.get /\ q.arg = r.arg /\ q.id = r.id /\ q.tries = r.tries
        /\ q.state = "answered" /\ q.got = got
    BY <1>0 DEF RequestsFor
  <2>2. net' = (net \ {r}) \cup {q}
    BY <1>1 DEF Answered
  <2> HIDE DEF q
  <2>3. /\ UnderWay(N, A)' /\ q \in net'
        /\ \A s \in net' : s = q \/ (s \in net /\ s # r)
        /\ \A s \in net : s = r \/ s \in net'
    BY <1>0, <2>1, <2>2, Replaced1
  <2> QED
    BY <1>1, <2>1, <2>3
<1>2. CASE Refused(r)
  <2> DEFINE q == [r EXCEPT !.state = "failed"]
  <2>1. /\ q \in RequestsFor(N, A) /\ q.op = r.op /\ q.get = r.get /\ q.arg = r.arg /\ q.id = r.id /\ q.tries = r.tries
        /\ q.state = "failed" /\ q.got = r.got
    BY <1>0 DEF RequestsFor
  <2>2. net' = (net \ {r}) \cup {q}
    BY <1>2 DEF Refused
  <2> HIDE DEF q
  <2>3. /\ UnderWay(N, A)' /\ q \in net'
        /\ \A s \in net' : s = q \/ (s \in net /\ s # r)
        /\ \A s \in net : s = r \/ s \in net'
    BY <1>0, <2>1, <2>2, Replaced1
  <2> QED
    BY <2>1, <2>3
<1> QED
  BY <1>1, <1>2

(* An attempt that fails leaves the request to be sent again, or failed. *)
LEMMA AttemptFailed ==
    ASSUME NEW N, NEW A, UnderWay(N, A), FailAttempt
    PROVE  /\ UnderWay(N, A)' /\ task' = task /\ clicks' = clicks /\ faults' = faults + 1
           /\ \A s \in net' :
                 \/ s \in net
                 \/ /\ s.state \in {"sent", "failed"} /\ s.got = s.arg
                    /\ \E r \in net : /\ s.op = r.op /\ s.get = r.get /\ s.arg = r.arg /\ s.id = r.id
                                      /\ r.state # "failed"
           /\ \A s \in net : s \in net' \/ \E q \in net' : q.op = s.op /\ q.get = s.get /\ q.arg = s.arg /\ q.id = s.id
<1>1. PICK r \in net, passing \in BOOLEAN :
         /\ r.state # "failed"
         /\ net' = (net \ {r}) \cup
                {IF Retries(r, passing) THEN [r EXCEPT !.tries = @ + 1, !.state = "sent", !.got = r.arg]
                                        ELSE [r EXCEPT !.state = "failed", !.got = r.arg]}
  BY DEF FailAttempt
<1> DEFINE q == IF Retries(r, passing) THEN [r EXCEPT !.tries = @ + 1, !.state = "sent", !.got = r.arg]
                                       ELSE [r EXCEPT !.state = "failed", !.got = r.arg]
<1>2. r \in RequestsFor(N, A) /\ task' = task /\ clicks' = clicks /\ faults' = faults + 1 /\ faults' \in 0..task.faults
  BY TaskFields DEF UnderWay, FailAttempt
<1>3. /\ q \in RequestsFor(N, A) /\ q.op = r.op /\ q.get = r.get /\ q.arg = r.arg /\ q.id = r.id
      /\ q.state \in {"sent", "failed"} /\ q.got = q.arg
  <2>0. r.tries \in 0..2 /\ r.arg \in A
    BY <1>2 DEF RequestsFor, MaxRetries
  <2>1. CASE Retries(r, passing)
    <3>1. r.tries + 1 \in 0..2
      BY <2>0, <2>1 DEF Retries, MaxRetries
    <3>2. q = [r EXCEPT !.tries = @ + 1, !.state = "sent", !.got = r.arg]
      BY <2>1
    <3> HIDE DEF q
    <3> QED
      BY <1>2, <2>0, <3>1, <3>2 DEF RequestsFor, MaxRetries
  <2>2. CASE ~Retries(r, passing)
    <3>2. q = [r EXCEPT !.state = "failed", !.got = r.arg]
      BY <2>2
    <3> HIDE DEF q
    <3> QED
      BY <1>2, <2>0, <3>2 DEF RequestsFor
  <2> QED
    BY <2>1, <2>2
<1>4. net' = (net \ {r}) \cup {q}
  BY <1>1
<1> HIDE DEF q
<1>5. /\ UnderWay(N, A)' /\ q \in net'
      /\ \A s \in net' : s = q \/ (s \in net /\ s # r)
      /\ \A s \in net : s = r \/ s \in net'
  BY <1>2, <1>3, <1>4, Replaced1
<1> QED
  BY <1>1, <1>2, <1>3, <1>5

LEMMA Clicked1 ==
    ASSUME NEW N, NEW A, UnderWay(N, A), NEW act, NEW asks, Click(act, asks)
    PROVE  Exchange({}, asks) /\ task' = task /\ clicks' \in 0..task.clicks /\ faults' = faults
BY TaskFields DEF UnderWay, Click

LEMMA Reacted ==
    ASSUME NEW N, NEW A, UnderWay(N, A), NEW done, NEW asks, React(done, asks)
    PROVE  Exchange(done, asks) /\ task' = task /\ clicks' \in 0..task.clicks /\ faults' = faults /\ clicks' = clicks
BY TaskFields DEF UnderWay, React

(* The requests that a page begins with. *)
LEMMA FirstRequests ==
    ASSUME NEW N, NEW A, task \in Tasks, clicks = 0, faults = 0, NEW asks \in Seq(AsksFor(N, A)),
           NEW ids \in Seq(Nat \ {0}), Len(ids) = Len(asks), \A i, j \in DOMAIN ids : ids[i] = ids[j] => i = j,
           net = Sent(asks, ids)
    PROVE  /\ UnderWay(N, A)
           /\ \A r \in net : \E i \in DOMAIN asks : SentFor(r, asks[i]) /\ r.id = ids[i]
           /\ Len(asks) = 1 => \A r, q \in net : r = q
<1> DEFINE n == Len(asks)
           NewOf(i) == [op |-> asks[i].op, get |-> asks[i].get, arg |-> asks[i].arg, id |-> ids[i],
                      tries |-> 0, state |-> "sent", got |-> asks[i].arg]
<1>0. n \in Nat /\ DOMAIN asks = 1..n /\ (\A i \in 1..n : asks[i] \in AsksFor(N, A)) /\ DOMAIN ids = 1..n
      /\ \A i \in 1..n : ids[i] \in Nat \ {0}
  OBVIOUS
<1>1. net = {NewOf(i) : i \in 1..n}
  BY <1>0 DEF Sent
<1>2. \A i \in 1..n : NewOf(i) \in RequestsFor(N, A) /\ SentFor(NewOf(i), asks[i]) /\ NewOf(i).id = ids[i]
  BY <1>0 DEF AsksFor, RequestsFor, MaxRetries, SentFor
<1>3. IsFiniteSet(net)
  <2> DEFINE f == [i \in 1..n |-> NewOf(i)]
  <2>1. f \in Surjection(1..n, net)
    BY <1>1 DEF Surjection
  <2>2. IsFiniteSet(1..n)
    BY <1>0, FS_Interval
  <2> HIDE DEF f
  <2> QED
    BY <2>1, <2>2, FS_Surjection
<1> HIDE DEF NewOf
<1>4. \A r \in net : \E i \in 1..n : r = NewOf(i)
  BY <1>1
<1>5. net \subseteq RequestsFor(N, A) /\ \A r, q \in net : r.id = q.id => r = q
  BY <1>0, <1>2, <1>4
<1>6. clicks \in 0..task.clicks /\ faults \in 0..task.faults
  BY TaskFields
<1>7. \A r \in net : \E i \in DOMAIN asks : SentFor(r, asks[i]) /\ r.id = ids[i]
  BY <1>0, <1>2, <1>4
<1>8. n = 1 => \A r, q \in net : r = q
  BY <1>4
<1> QED
  BY <1>3, <1>5, <1>6, <1>7, <1>8 DEF UnderWay

\* asks asks for op with arg, and for nothing else.
Single(asks, op, arg) == \A i \in DOMAIN asks : asks[i].op = op /\ asks[i].arg = arg

LEMMA OneAsk ==
    ASSUME NEW N, NEW A, NEW op \in N, NEW arg \in A, NEW asks,
           asks = <<Ask(op, TRUE, arg)>> \/ asks = <<Ask(op, FALSE, arg)>>
    PROVE  asks \in Seq(AsksFor(N, A)) /\ Len(asks) = 1 /\ Single(asks, op, arg)
<1>1. /\ Ask(op, TRUE, arg) \in AsksFor(N, A) /\ Ask(op, TRUE, arg).op = op /\ Ask(op, TRUE, arg).arg = arg
      /\ Ask(op, FALSE, arg) \in AsksFor(N, A) /\ Ask(op, FALSE, arg).op = op /\ Ask(op, FALSE, arg).arg = arg
  BY DEF Ask, AsksFor
<1>2. PICK a \in AsksFor(N, A) : a.op = op /\ a.arg = arg /\ asks = <<a>>
  BY <1>1
<1>3. asks \in Seq(AsksFor(N, A)) /\ Len(asks) = 1 /\ DOMAIN asks = {1} /\ asks[1] = a
  BY <1>2
<1> QED
  BY <1>2, <1>3 DEF Single

LEMMA FirstRequest ==
    ASSUME NEW N, NEW A, task \in Tasks, clicks = 0, faults = 0, NEW op \in N, NEW arg \in A,
           NEW asks \in Seq(AsksFor(N, A)), Len(asks) = 1, Single(asks, op, arg), net = Sent(asks, << 1 >>)
    PROVE  /\ UnderWay(N, A)
           /\ \A r \in net : r.op = op /\ r.arg = arg /\ r.got = arg /\ r.state = "sent"
           /\ \A r, q \in net : r = q
<1> DEFINE ids == <<1>>
<1>1. ids \in Seq(Nat \ {0}) /\ Len(ids) = 1 /\ \A i, j \in DOMAIN ids : ids[i] = ids[j] => i = j
  OBVIOUS
<1>2. net = Sent(asks, ids)
  OBVIOUS
<1> HIDE DEF ids
<1>3. /\ UnderWay(N, A)
      /\ \A r \in net : \E i \in DOMAIN asks : SentFor(r, asks[i]) /\ r.id = ids[i]
      /\ \A r, q \in net : r = q
  BY <1>1, <1>2, FirstRequests
<1> QED
  BY <1>3 DEF Single, SentFor

-----------------------------------------------------------------------------
(* Navigation. *)

MaybeChat == ListedChats \cup {NoListed}
MaybeQuery == Queries \cup {NoQuery}
NavNames == {"page", "more", "search", "create", "meta", "rename", "delete", "clear"}
NavParams ==
    [chat: MaybeChat, cursor: Nat, query: MaybeQuery, then: {"nothing", "first", "leave", "clear"}, prompt: Nat,
     list: Seq(ListedChats), next: Nat, found: SUBSET ListedChats]
Dialogs == {NoDialog} \cup [mode: {"rename", "delete"}, chat: MaybeChat, busy: BOOLEAN]
Shells ==
    [deep: {"no", "fresh", "link"}, view: Routes, current: MaybeChat, made: MaybeChat, prompt: Nat, typed: Nat,
     sent: Seq(Nat), list: Seq(ListedChats), next: Nat, loading: BOOLEAN, more: BOOLEAN, error: BOOLEAN, busy: BOOLEAN,
     filter: MaybeQuery, results: [query: MaybeQuery, chats: SUBSET ListedChats], timer: BOOLEAN,
     dialog: Dialogs,
     pane: [chat: MaybeChat, state: {"none", "loading", "ready", "failed"}]]

\* No member of s stands in it twice.
Once(s) == \A i, j \in DOMAIN s : s[i] = s[j] => i = j

(* The prompts that are sent or wait for a composer. *)
Spent(n) == ToSet(n.sent) \cup ({n.prompt} \ {0})

ShellOK(n) ==
    /\ n \in Shells
    /\ Once(n.list)
    /\ Once(n.sent) /\ n.prompt \notin ToSet(n.sent) /\ Spent(n) \subseteq 1..n.typed
    /\ n.results.query # NoQuery => n.results.query = n.filter \/ n.timer

\* The prompt that a chat is created for is neither sent nor waiting.
FreshPrompt(r, n) == n.busy /\ r.arg.prompt \in 0..n.typed /\ r.arg.prompt \notin Spent(n)

TimesDiffer == \A c, d \in ListedChats : changed[c] = changed[d] /\ changed[c] > 0 => c = d

StoredOK == changed \in [ListedChats -> Nat] /\ blank \subseteq ListedChats /\ TimesDiffer
NavServerOK == StoredOK /\ visited \subseteq ListedChats

NavInv ==
    /\ UnderWay(NavNames, NavParams)
    /\ ShellOK(nav)
    /\ NavServerOK
    /\ \A r \in net : r.arg.list = <<>> /\ Once(r.got.list)
    /\ \A r \in net : r.op = "create" => FreshPrompt(r, nav)
    /\ \A r, q \in net : r.op = "create" /\ q.op = "create" => r = q

LEMMA ShellFields ==
    ASSUME NEW n \in Shells
    PROVE  /\ n.deep \in {"no", "fresh", "link"} /\ n.view \in Routes /\ n.current \in MaybeChat /\ n.made \in MaybeChat
           /\ n.prompt \in Nat /\ n.typed \in Nat /\ n.sent \in Seq(Nat) /\ n.list \in Seq(ListedChats) /\ n.next \in Nat
           /\ n.loading \in BOOLEAN /\ n.more \in BOOLEAN /\ n.error \in BOOLEAN /\ n.busy \in BOOLEAN
           /\ n.filter \in MaybeQuery /\ n.results \in [query: MaybeQuery, chats: SUBSET ListedChats] /\ n.timer \in BOOLEAN
           /\ n.dialog \in Dialogs
           /\ n.pane \in [chat: MaybeChat, state: {"none", "loading", "ready", "failed"}]
BY DEF Shells

LEMMA ParamTyped ==
    /\ Param \in NavParams /\ Param.list = <<>> /\ Param.prompt = 0 /\ Once(<<>>)
    /\ \A then \in {"nothing", "first", "leave", "clear"} :
          /\ [Param EXCEPT !.then = then] \in NavParams /\ [Param EXCEPT !.then = then].list = <<>>
          /\ ListOf(then) \in AsksFor(NavNames, NavParams) /\ ListOf(then).arg.list = <<>> /\ ListOf(then).op = "page"
<1>1. Param \in NavParams /\ Param.list = <<>> /\ Param.prompt = 0 /\ Once(<<>>)
  BY DEF Param, NavParams, MaybeChat, MaybeQuery, Once
<1>2. ASSUME NEW then \in {"nothing", "first", "leave", "clear"}
      PROVE  /\ [Param EXCEPT !.then = then] \in NavParams /\ [Param EXCEPT !.then = then].list = <<>>
             /\ ListOf(then) \in AsksFor(NavNames, NavParams) /\ ListOf(then).arg.list = <<>> /\ ListOf(then).op = "page"
  <2> DEFINE P == [Param EXCEPT !.then = then]
  <2>1. P \in NavParams /\ P.list = <<>>
    BY <1>1 DEF NavParams, Param
  <2>2. ListOf(then) = [op |-> "page", get |-> TRUE, arg |-> P]
    BY DEF ListOf, Ask
  <2> HIDE DEF P
  <2>3. ListOf(then) \in AsksFor(NavNames, NavParams) /\ ListOf(then).arg = P /\ ListOf(then).op = "page"
    BY <2>1, <2>2 DEF AsksFor, NavNames
  <2> QED
    BY <2>1, <2>3 DEF P
<1> QED
  BY <1>1, <1>2

(* Showing a chat mounts it and may send the prompt that waits: nothing else *)
(* of the shell changes.                                                     *)
LEMMA ShownOK ==
    ASSUME NEW n, ShellOK(n), Show(n), visited \subseteq ListedChats
    PROVE  /\ ShellOK(nav') /\ visited' \subseteq ListedChats
           /\ Spent(nav') = Spent(n) /\ nav'.typed = n.typed /\ nav'.busy = n.busy
<1> DEFINE m == [n EXCEPT !.pane = Mounted(n)]
<1>0. n \in Shells
  BY DEF ShellOK
<1>1. Mounted(n) \in [chat: MaybeChat, state: {"none", "loading", "ready", "failed"}]
  BY <1>0, ShellFields DEF Mounted, NoPane, MaybeChat
<1>2. /\ m \in Shells /\ m.sent = n.sent /\ m.prompt = n.prompt /\ m.typed = n.typed /\ m.busy = n.busy /\ m.list = n.list
      /\ m.results = n.results /\ m.filter = n.filter /\ m.timer = n.timer /\ m.current = n.current
  BY <1>0, <1>1 DEF Shells
<1>3. nav' = Applied(m)
  BY DEF Show
<1> HIDE DEF m
<1>4. CASE m.pane.state = "ready" /\ m.prompt # 0
  <2> DEFINE k == [m EXCEPT !.sent = Append(@, m.prompt), !.prompt = 0]
  <2>1. nav' = k
    BY <1>3, <1>4 DEF Applied
  <2>2. /\ m.sent \in Seq(Nat) /\ m.prompt \in Nat
    BY <1>2, ShellFields
  <2>a. Append(m.sent, m.prompt) \in Seq(Nat) /\ 0 \in Nat
    BY <2>2
  <2>3. /\ k \in Shells /\ k.sent = Append(m.sent, m.prompt) /\ k.prompt = 0 /\ k.typed = m.typed /\ k.busy = m.busy
        /\ k.list = m.list /\ k.results = m.results /\ k.filter = m.filter /\ k.timer = m.timer /\ k.current = m.current
    BY <1>2, <2>a DEF Shells
  <2> HIDE DEF k
  <2>4. ToSet(k.sent) = ToSet(m.sent) \cup {m.prompt}
    BY <2>2, <2>3 DEF ToSet
  <2>5. Once(k.sent)
    BY <1>2, <2>2, <2>3 DEF ShellOK, Once, ToSet
  <2>6. Spent(k) = Spent(n)
    BY <1>2, <1>4, <2>3, <2>4 DEF Spent
  <2>7. k.prompt \notin ToSet(k.sent)
    BY <1>2, <1>4, <2>3, <2>4 DEF ShellOK, Spent
  <2>8. ShellOK(k)
    <3>1. Spent(k) \subseteq 1..k.typed /\ Once(k.list)
      BY <1>2, <2>3, <2>6 DEF ShellOK
    <3>2. k.results.query # NoQuery => k.results.query = k.filter \/ k.timer
      BY <1>2, <2>3 DEF ShellOK
    <3> QED
      BY <2>3, <2>5, <2>7, <3>1, <3>2 DEF ShellOK
  <2>9. visited' \subseteq ListedChats
    BY <1>2, <2>1, <2>3, ShellFields DEF Show, MaybeChat
  <2> QED
    BY <1>2, <2>1, <2>3, <2>6, <2>8, <2>9
<1>5. CASE ~(m.pane.state = "ready" /\ m.prompt # 0)
  <2>1. nav' = m
    BY <1>3, <1>5 DEF Applied
  <2>2. Spent(m) = Spent(n)
    BY <1>2 DEF Spent
  <2> QED
    BY <1>2, <2>1, <2>2, ShellFields DEF ShellOK, Show, MaybeChat
<1> QED
  BY <1>4, <1>5

(* A step of the shell: its requests are exchanged. *)
LEMMA ShellMoves ==
    ASSUME NavInv, NEW done, NEW asks \in Seq(AsksFor(NavNames, NavParams)), Exchange(done, asks),
           task' = task, clicks' \in 0..task.clicks, faults' = faults,
           ShellOK(nav'), NavServerOK',
           \A i \in DOMAIN asks : asks[i].arg.list = <<>>,
           \A i \in DOMAIN asks :
              asks[i].op = "create" => ~nav.busy /\ Len(asks) = 1 /\ FreshPrompt(asks[i], nav'),
           \A r \in net : r.op = "create" /\ r \notin done => FreshPrompt(r, nav')
    PROVE  NavInv'
<1>1. /\ UnderWay(NavNames, NavParams)'
      /\ \A r \in net' : (r \in net /\ r \notin done) \/ (r \notin net /\ \E i \in DOMAIN asks : SentFor(r, asks[i]))
      /\ Len(asks) = 1 => \A r, q \in net' \ net : r = q
  BY Exchanged DEF NavInv
<1>2. \A r \in net' : r.arg.list = <<>> /\ Once(r.got.list)
  BY <1>1 DEF NavInv, SentFor, Once
<1>3. \A r \in net' : r.op = "create" => FreshPrompt(r, nav')
  BY <1>1 DEF SentFor, FreshPrompt
<1>4. \A r, q \in net' : r.op = "create" /\ q.op = "create" => r = q
  <2> SUFFICES ASSUME NEW r \in net', NEW q \in net', r.op = "create", q.op = "create"
               PROVE  r = q
    OBVIOUS
  <2>1. CASE r \in net /\ q \in net
    BY <2>1 DEF NavInv
  <2>2. ASSUME NEW s \in net, s.op = "create", NEW t \in net', t \notin net, t.op = "create"
        PROVE  FALSE
    <3>1. nav.busy
      BY <2>2 DEF NavInv, FreshPrompt
    <3>2. ~nav.busy
      BY <1>1, <2>2 DEF SentFor
    <3> QED
      BY <3>1, <3>2
  <2>3. CASE r \notin net /\ q \notin net
    <3>1. PICK i \in DOMAIN asks : SentFor(r, asks[i])
      BY <1>1, <2>3
    <3>2. PICK j \in DOMAIN asks : SentFor(q, asks[j])
      BY <1>1, <2>3
    <3>3. Len(asks) = 1
      BY <3>1, <2>3 DEF SentFor
    <3> QED
      BY <1>1, <2>3, <3>3
  <2> QED
    BY <2>1, <2>2, <2>3
<1> QED
  BY <1>1, <1>2, <1>3, <1>4 DEF NavInv

(* A page of the list names a chat once, and its cursor is a time. *)
LEMMA PageTyped ==
    ASSUME NavServerOK, NEW cursor \in Nat
    PROVE  PageBefore(cursor) \in NavParams /\ Once(PageBefore(cursor).list)
<1> DEFINE older == {c \in Stored : cursor = 0 \/ changed[c] < cursor}
           newest == {c \in older : Cardinality({d \in older : changed[d] > changed[c]}) < PageSize}
           T == {changed[c] : c \in newest}
           times == Reverse(Ascending(T))
           chats == [n \in DOMAIN times |-> CHOOSE c \in newest : changed[c] = times[n]]
<1>0. /\ changed \in [ListedChats -> Nat] /\ IsFiniteSet(ListedChats) /\ PageSize \in Nat \ {0}
      /\ older \subseteq ListedChats /\ newest \subseteq older /\ \A c \in older : changed[c] \in Nat /\ changed[c] > 0
  BY NavigationAssumption DEF NavServerOK, StoredOK, Stored
<1>1. IsFiniteSet(older) /\ IsFiniteSet(newest)
  BY <1>0, FS_Subset
<1>2. IsFiniteSet(T) /\ T \in SUBSET Nat
  <2>1. [c \in newest |-> changed[c]] \in Surjection(newest, T)
    BY DEF Surjection
  <2>2. T \in SUBSET Nat
    BY <1>0
  <2> HIDE DEF newest, T
  <2> QED
    BY <1>1, <2>1, <2>2, FS_Surjection
<1>3. PageBefore(cursor) = [Param EXCEPT !.list = chats,
                              !.next = IF Cardinality(older) > PageSize THEN changed[Last(chats)] ELSE 0]
  BY DEF PageBefore
<1> DEFINE k == Cardinality(T)
<1>4. /\ k \in Nat /\ Ascending(T) \in [1..k -> T]
      /\ \A i, j \in 1..k : i < j => Ascending(T)[i] < Ascending(T)[j]
      /\ \A x \in T : \E i \in 1..k : Ascending(T)[i] = x
  <2> HIDE DEF T
  <2> QED BY <1>2, InOrder
<1> HIDE DEF k
<1>5. /\ times \in [1..k -> T] /\ \A i, j \in 1..k : times[i] = times[j] => i = j
  <2> DEFINE a == Ascending(T)
  <2> HIDE DEF T
  <2>1. Len(a) = k /\ DOMAIN a = 1..k
    BY <1>4
  <2>2. times = [i \in 1..k |-> a[(k - i) + 1]]
    BY <2>1 DEF Reverse
  <2>3. \A i \in 1..k : (k - i) + 1 \in 1..k
    BY <1>4
  <2> HIDE DEF times
  <2>4. \A i \in 1..k : times[i] \in T /\ times[i] = a[(k - i) + 1]
    BY <1>4, <2>2, <2>3
  <2>5. \A i, j \in 1..k : i < j => times[j] < times[i]
    <3> SUFFICES ASSUME NEW i \in 1..k, NEW j \in 1..k, i < j
                 PROVE  times[j] < times[i]
      OBVIOUS
    <3>1. (k - j) + 1 \in 1..k /\ (k - i) + 1 \in 1..k /\ (k - j) + 1 < (k - i) + 1
      BY <1>4
    <3> QED
      BY <1>4, <2>4, <3>1
  <2>6. \A i, j \in 1..k : times[i] = times[j] => i = j
    <3> SUFFICES ASSUME NEW i \in 1..k, NEW j \in 1..k, times[i] = times[j], i # j
                 PROVE  FALSE
      OBVIOUS
    <3>1. i < j \/ j < i
      BY <1>4
    <3>2. times[i] \in Nat /\ times[j] \in Nat
      BY <1>2, <2>4
    <3> QED
      BY <2>5, <3>1, <3>2
  <2> QED
    BY <2>2, <2>4, <2>6
<1> HIDE DEF times
<1>6. \A i \in 1..k : chats[i] \in newest /\ changed[chats[i]] = times[i]
  <2> SUFFICES ASSUME NEW i \in 1..k
               PROVE  chats[i] \in newest /\ changed[chats[i]] = times[i]
    OBVIOUS
  <2>1. times[i] \in T /\ i \in DOMAIN times
    BY <1>5
  <2>2. \E c \in newest : changed[c] = times[i]
    BY <2>1
  <2> HIDE DEF newest
  <2> QED
    BY <2>1, <2>2
<1>7. DOMAIN chats = 1..k /\ chats \in Seq(ListedChats) /\ Len(chats) = k
  <2>1. chats \in [1..k -> newest]
    <3> HIDE DEF newest
    <3> QED BY <1>5, <1>6
  <2>2. newest \subseteq ListedChats
    BY <1>0
  <2> HIDE DEF chats, newest
  <2>3. chats \in [1..k -> ListedChats]
    BY <2>1, <2>2
  <2> QED
    BY <1>4, <2>3
<1>8. Once(chats)
  <2> HIDE DEF chats, newest
  <2>1. \A i \in 1..k : changed[chats[i]] = times[i]
    BY <1>6
  <2> QED BY <1>5, <1>7, <2>1 DEF Once
<1>9. Cardinality(older) > PageSize => changed[Last(chats)] \in Nat
  <2> SUFFICES ASSUME Cardinality(older) > PageSize
               PROVE  changed[Last(chats)] \in Nat
    OBVIOUS
  <2> DEFINE U == {changed[c] : c \in older}
  <2>1. older # {}
    <3> HIDE DEF older
    <3> QED BY <1>0, FS_EmptySet
  <2>2. IsFiniteSet(U) /\ U \in SUBSET Nat /\ U # {}
    <3>1. [c \in older |-> changed[c]] \in Surjection(older, U)
      BY DEF Surjection
    <3>2. U \in SUBSET Nat /\ U # {}
      BY <1>0, <2>1
    <3> HIDE DEF older, U
    <3> QED
      BY <1>1, <3>1, <3>2, FS_Surjection
  <2>3. \E t \in U : \A u \in U : u <= t
    <3> HIDE DEF U
    <3> QED BY <2>2, LargestMember
  <2>4. PICK c \in older : \A d \in older : changed[d] <= changed[c]
    BY <2>3
  <2>5. {d \in older : changed[d] > changed[c]} = {}
    BY <1>0, <2>4
  <2>6. c \in newest
    <3>1. Cardinality({d \in older : changed[d] > changed[c]}) = 0
      <4> HIDE DEF older
      <4> QED BY <2>5, FS_EmptySet
    <3> QED
      BY <1>0, <3>1
  <2>7. k \in 1..k
    <3>1. changed[c] \in T
      BY <2>6
    <3> HIDE DEF T, newest, older
    <3> QED
      BY <1>4, <3>1
  <2> HIDE DEF chats, newest, older
  <2>8. Last(chats) = chats[k]
    BY <1>7 DEF Last
  <2> QED
    BY <1>0, <1>6, <2>7, <2>8
<1> DEFINE next == IF Cardinality(older) > PageSize THEN changed[Last(chats)] ELSE 0
<1>a. next \in Nat
  <2> HIDE DEF older, chats
  <2> QED BY <1>9
<1>b. PageBefore(cursor) = [Param EXCEPT !.list = chats, !.next = next]
  BY <1>3
<1> HIDE DEF chats, next
<1>c. PageBefore(cursor).list = chats
  BY <1>b DEF Param
<1> QED
  BY <1>7, <1>8, <1>a, <1>b, <1>c, ParamTyped DEF NavParams, Param

(* The time of a change is later than every change before it. *)
LEMMA NowIsLater ==
    ASSUME StoredOK
    PROVE  Now \in Nat \ {0} /\ \A c \in ListedChats : changed[c] < Now
<1> DEFINE T == {changed[c] : c \in ListedChats}
           S == {0} \cup T
<1>1. IsFiniteSet(T)
  <2>1. [c \in ListedChats |-> changed[c]] \in Surjection(ListedChats, T)
    BY DEF Surjection
  <2> HIDE DEF T
  <2> QED
    BY <2>1, FS_Surjection, NavigationAssumption
<1>2. IsFiniteSet(S) /\ S \in SUBSET Nat /\ S # {} /\ 0 \in S
  <2>1. S \in SUBSET Nat
    BY DEF StoredOK
  <2> HIDE DEF T
  <2> QED
    BY <1>1, <2>1, FS_Singleton, FS_Union
<1>3. Max(S) \in S /\ \A y \in S : y <= Max(S)
  <2> HIDE DEF S
  <2>1. \E x \in S : \A y \in S : x >= y
    <3>1. PICK x \in S : \A y \in S : y <= x
      BY <1>2, LargestMember
    <3>2. \A y \in S : y \in Nat
      BY <1>2
    <3> QED
      BY <3>1, <3>2
  <2>2. Max(S) \in S /\ \A y \in S : Max(S) >= y
    BY <2>1 DEF Max
  <2>3. \A y \in S : y \in Nat
    BY <1>2
  <2> QED
    BY <2>2, <2>3
<1>4. Now = 1 + Max(S)
  BY DEF Now
<1>5. \A c \in ListedChats : changed[c] \in S /\ changed[c] \in Nat
  BY DEF StoredOK
<1> HIDE DEF S
<1>6. Max(S) \in Nat /\ \A c \in ListedChats : changed[c] <= Max(S)
  BY <1>2, <1>3, <1>5
<1> QED
  BY <1>4, <1>5, <1>6

LEMMA ChangesDiffer ==
    ASSUME StoredOK, NEW c \in ListedChats, changed' = [changed EXCEPT ![c] = Now], blank' \subseteq ListedChats
    PROVE  StoredOK'
BY NowIsLater DEF StoredOK, TimesDiffer

LEMMA StoredStays ==
    ASSUME StoredOK, changed' = changed, blank' = blank
    PROVE  StoredOK'
BY DEF StoredOK, TimesDiffer

(* Serving a request changes what is stored, and answers it. *)
LEMMA NavServes ==
    ASSUME NavInv, ServeNavigation
    PROVE  NavInv'
<1>1. PICK r \in net :
          /\ r.state = "sent"
          /\ \/ r.op \in {"page", "more"} /\ Answered(r, PageBefore(r.arg.cursor)) /\ UNCHANGED <<changed, blank>>
             \/ r.op = "search" /\ Answered(r, [Param EXCEPT !.found = Stored]) /\ UNCHANGED <<changed, blank>>
             \/ r.op = "create" /\ Create(r)
             \/ r.op \in {"meta", "rename"} /\ Touch(r, r.arg.chat)
             \/ /\ r.op = "delete"
                /\ IF r.arg.chat \in Stored THEN Discard(r, {r.arg.chat}) ELSE Refused(r) /\ UNCHANGED <<changed, blank>>
             \/ r.op = "clear" /\ Discard(r, Stored)
  BY DEF ServeNavigation
<1>2. UNCHANGED <<nav, visited, task, clicks, faults>> /\ StoredOK /\ UnderWay(NavNames, NavParams)
  BY DEF ServeNavigation, NavInv, NavServerOK
<1>3. r \in RequestsFor(NavNames, NavParams) /\ r.arg \in NavParams
  BY <1>2, FieldsOfRequests DEF UnderWay
<1>4. \E got \in NavParams : (Answered(r, got) \/ Refused(r)) /\ Once(got.list) /\ StoredOK'
  <2>0. Once(Param.list) /\ Param \in NavParams
    BY ParamTyped
  <2>1. CASE r.op \in {"page", "more"} /\ Answered(r, PageBefore(r.arg.cursor)) /\ UNCHANGED <<changed, blank>>
    <3>1. r.arg.cursor \in Nat
      BY <1>3 DEF NavParams
    <3> QED
      BY <1>2, <2>1, <3>1, PageTyped, StoredStays DEF NavInv
  <2>2. CASE r.op = "search" /\ Answered(r, [Param EXCEPT !.found = Stored]) /\ UNCHANGED <<changed, blank>>
    <3> DEFINE got == [Param EXCEPT !.found = Stored]
    <3>1. got \in NavParams /\ got.list = Param.list
      BY <2>0 DEF NavParams, Stored, Param
    <3> QED
      BY <1>2, <2>0, <2>2, <3>1, StoredStays
  <2>3. CASE r.op = "create" /\ Create(r)
    <3> DEFINE free == IF blank # {} THEN blank ELSE ListedChats \ Stored
    <3>1. free \subseteq ListedChats
      BY <1>2 DEF StoredOK
    <3>2. ASSUME NEW c \in free,
                 changed' = IF blank = {} THEN [changed EXCEPT ![c] = Now] ELSE changed,
                 blank' = blank \cup {c}, Answered(r, [Param EXCEPT !.chat = c])
          PROVE  \E got \in NavParams : (Answered(r, got) \/ Refused(r)) /\ Once(got.list) /\ StoredOK'
      <4> DEFINE got == [Param EXCEPT !.chat = c]
      <4>1. got \in NavParams /\ got.list = Param.list
        BY <2>0, <3>1 DEF NavParams, MaybeChat, Param
      <4>2. blank' \subseteq ListedChats /\ c \in ListedChats
        BY <1>2, <3>1, <3>2 DEF StoredOK
      <4>3. StoredOK'
        BY <1>2, <3>2, <4>2, ChangesDiffer DEF StoredOK, TimesDiffer
      <4> QED
        BY <2>0, <3>2, <4>1, <4>3
    <3>3. CASE free = {} /\ Refused(r) /\ UNCHANGED <<changed, blank>>
      BY <1>2, <2>0, <3>3, StoredStays
    <3> QED
      BY <2>3, <3>2, <3>3 DEF Create
  <2>4. CASE r.op \in {"meta", "rename"} /\ Touch(r, r.arg.chat)
    BY <1>2, <2>0, <2>4, ChangesDiffer, StoredStays DEF Touch, Stored, StoredOK
  <2>5. ASSUME NEW gone, Discard(r, gone)
        PROVE  \E got \in NavParams : (Answered(r, got) \/ Refused(r)) /\ Once(got.list) /\ StoredOK'
    BY <1>2, <2>0, <2>5 DEF Discard, StoredOK, TimesDiffer
  <2>6. CASE r.op = "delete" /\ Refused(r) /\ UNCHANGED <<changed, blank>>
    BY <1>2, <2>0, <2>6, StoredStays
  <2> QED
    BY <1>1, <2>1, <2>2, <2>3, <2>4, <2>5, <2>6
<1>5. PICK got \in NavParams : (Answered(r, got) \/ Refused(r)) /\ Once(got.list) /\ StoredOK'
  BY <1>4
<1>6. /\ UnderWay(NavNames, NavParams)'
      /\ \A s \in net' :
            \/ s \in net
            \/ /\ s.op = r.op /\ s.arg = r.arg /\ s.id = r.id
               /\ s.state \in {"answered", "failed"}
               /\ s.got \in {got, r.got}
  BY <1>1, <1>2, <1>5, Served
<1>7. \A s \in net' : s.arg.list = <<>> /\ Once(s.got.list)
  BY <1>1, <1>5, <1>6 DEF NavInv
<1>8. \A s \in net' : s.op = "create" => FreshPrompt(s, nav')
  BY <1>1, <1>2, <1>6 DEF NavInv, FreshPrompt
<1>9. \A s, t \in net' : s.op = "create" /\ t.op = "create" => s = t
  <2>1. \A s, t \in net' : s.id = t.id => s = t
    BY <1>6 DEF UnderWay
  <2>2. \A s \in net' : s.op = "create" => \E q \in net : q.op = "create" /\ q.id = s.id
    BY <1>1, <1>6
  <2> QED
    BY <2>1, <2>2 DEF NavInv
<1>a. ShellOK(nav)' /\ NavServerOK'
  BY <1>2, <1>5 DEF NavInv, NavServerOK, ShellOK
<1> QED
  BY <1>6, <1>7, <1>8, <1>9, <1>a DEF NavInv

(* An attempt that fails changes the state of a request only. *)
LEMMA NavAttemptFails ==
    ASSUME NavInv, FailAttempt, UNCHANGED navVars
    PROVE  NavInv'
<1>0. nav' = nav /\ changed' = changed /\ blank' = blank /\ visited' = visited /\ UnderWay(NavNames, NavParams)
  BY DEF navVars, NavInv
<1>1. /\ UnderWay(NavNames, NavParams)'
      /\ \A s \in net' :
            \/ s \in net
            \/ s.got = s.arg /\ \E r \in net : s.op = r.op /\ s.arg = r.arg /\ s.id = r.id
  BY <1>0, AttemptFailed
<1>2. \A s \in net' : s.arg.list = <<>> /\ Once(s.got.list)
  BY <1>1, ParamTyped DEF NavInv
<1>3. \A s \in net' : s.op = "create" => FreshPrompt(s, nav')
  BY <1>0, <1>1 DEF NavInv, FreshPrompt
<1>4. \A s, t \in net' : s.op = "create" /\ t.op = "create" => s = t
  <2>1. \A s, t \in net' : s.id = t.id => s = t
    BY <1>1 DEF UnderWay
  <2>2. \A s \in net' : s.op = "create" => \E q \in net : q.op = "create" /\ q.id = s.id
    BY <1>1
  <2> QED
    BY <2>1, <2>2 DEF NavInv
<1>5. ShellOK(nav)' /\ NavServerOK'
  BY <1>0, StoredStays DEF NavInv, NavServerOK, ShellOK
<1> QED
  BY <1>1, <1>2, <1>3, <1>4, <1>5 DEF NavInv

(* n follows from m without a new prompt that waits. *)
Follows(m, n) ==
    /\ n \in Shells /\ Once(n.list)
    /\ n.sent = m.sent /\ n.prompt \in {m.prompt, 0} /\ n.typed \in Nat /\ n.typed >= m.typed
    /\ n.results.query # NoQuery => n.results.query = n.filter \/ n.timer

LEMMA FollowsOK ==
    ASSUME NEW m, ShellOK(m), NEW n, Follows(m, n)
    PROVE  ShellOK(n) /\ Spent(n) \subseteq Spent(m) /\ n.typed \in Nat /\ m.typed \in Nat
<1>0. m.typed \in Nat /\ m.prompt \in Nat /\ n.typed \in Nat /\ n.typed >= m.typed
  BY ShellFields DEF ShellOK, Follows
<1>1. Spent(n) \subseteq Spent(m)
  BY DEF Spent, Follows
<1>2. Spent(m) \subseteq 1..m.typed
  BY DEF ShellOK
<1>3. Spent(n) \subseteq 1..n.typed
  BY <1>0, <1>1, <1>2
<1>4. 0 \notin ToSet(m.sent)
  BY <1>0, <1>2 DEF Spent
<1>5. Once(n.sent) /\ n.prompt \notin ToSet(n.sent)
  BY <1>4 DEF Follows, ShellOK
<1> QED
  BY <1>0, <1>1, <1>3, <1>5 DEF Follows, ShellOK

\* No chat is created, and the parameters hold no page of the list.
Quiet(asks) == \A i \in DOMAIN asks : asks[i].arg.list = <<>> /\ asks[i].op # "create"

(* A step of the shell that creates no chat. *)
LEMMA ShellSteps ==
    ASSUME NavInv, NEW done, NEW asks \in Seq(AsksFor(NavNames, NavParams)), Exchange(done, asks),
           task' = task, clicks' \in 0..task.clicks, faults' = faults,
           NEW n, Follows(nav, n), nav.busy => n.busy,
           (nav' = n /\ visited' = visited) \/ Show(n), StoredOK',
           Quiet(asks)
    PROVE  NavInv'
<1>0. ShellOK(nav) /\ visited \subseteq ListedChats
  BY DEF NavInv, NavServerOK
<1>1. ShellOK(n) /\ Spent(n) \subseteq Spent(nav) /\ n.typed \in Nat /\ nav.typed \in Nat /\ n.typed >= nav.typed
  BY <1>0, FollowsOK DEF Follows
<1>2. /\ ShellOK(nav') /\ visited' \subseteq ListedChats
      /\ Spent(nav') = Spent(n) /\ nav'.typed = n.typed /\ nav'.busy = n.busy
  BY <1>0, <1>1, ShownOK
<1>3. \A r \in net : r.op = "create" /\ r \notin done => FreshPrompt(r, nav')
  BY <1>1, <1>2 DEF NavInv, FreshPrompt
<1>4. NavServerOK'
  BY <1>2 DEF NavServerOK
<1> QED
  BY <1>2, <1>3, <1>4, ShellMoves DEF Quiet

(* A step of the shell that asks for nothing. *)
LEMMA ShellStepsQuietly ==
    ASSUME NavInv, NEW done, Exchange(done, <<>>),
           task' = task, clicks' \in 0..task.clicks, faults' = faults,
           NEW n, Follows(nav, n), nav.busy => n.busy,
           (nav' = n /\ visited' = visited) \/ Show(n), StoredOK'
    PROVE  NavInv'
<1> DEFINE asks == <<>>
<1>1. asks \in Seq(AsksFor(NavNames, NavParams)) /\ Quiet(asks)
  BY DEF Quiet
<1>2. Exchange(done, asks)
  OBVIOUS
<1> HIDE DEF asks
<1> QED
  BY <1>1, <1>2, ShellSteps

(* What a step of the shell can rely on. *)
LEMMA NavNow ==
    ASSUME NavInv
    PROVE  /\ UnderWay(NavNames, NavParams) /\ ShellOK(nav) /\ nav \in Shells /\ Follows(nav, nav)
           /\ StoredOK /\ visited \subseteq ListedChats /\ nav.list \in Seq(ListedChats)
           /\ \A r \in net : /\ r \in RequestsFor(NavNames, NavParams) /\ r.arg \in NavParams /\ r.got \in NavParams
                           /\ r.state \in {"sent", "answered", "failed"} /\ Once(r.got.list)
           /\ <<>> \in Seq(AsksFor(NavNames, NavParams))
<1>1. /\ UnderWay(NavNames, NavParams) /\ ShellOK(nav) /\ nav \in Shells
      /\ StoredOK /\ visited \subseteq ListedChats /\ nav.list \in Seq(ListedChats)
  BY ShellFields DEF NavInv, ShellOK, NavServerOK
<1>2. Follows(nav, nav)
  BY <1>1, ShellFields DEF ShellOK, Follows
<1>3. \A r \in net : /\ r \in RequestsFor(NavNames, NavParams) /\ r.arg \in NavParams /\ r.got \in NavParams
                    /\ r.state \in {"sent", "answered", "failed"} /\ Once(r.got.list)
  BY <1>1, FieldsOfRequests DEF UnderWay, NavInv
<1> QED
  BY <1>1, <1>2, <1>3

LEMMA QuietAsk ==
    ASSUME NEW asks, NEW op, NEW arg, Single(asks, op, arg), arg.list = <<>>, op # "create"
    PROVE  Quiet(asks)
BY DEF Single, Quiet

LEMMA FirstPageAsk ==
    ASSUME NEW then \in {"nothing", "first", "leave", "clear"}, NEW asks, asks = <<ListOf(then)>>
    PROVE  /\ asks \in Seq(AsksFor(NavNames, NavParams)) /\ Len(asks) = 1
           /\ Quiet(asks)
<1> DEFINE P == [Param EXCEPT !.then = then]
<1>1. P \in NavParams /\ P.list = <<>>
  BY ParamTyped
<1>2. asks = <<Ask("page", TRUE, P)>>
  BY DEF ListOf
<1> HIDE DEF P
<1>3. "page" \in NavNames
  BY DEF NavNames
<1>4. asks \in Seq(AsksFor(NavNames, NavParams)) /\ Len(asks) = 1 /\ Single(asks, "page", P)
  BY <1>1, <1>2, <1>3, OneAsk
<1>5. Quiet(asks)
  BY <1>1, <1>4, QuietAsk
<1> QED
  BY <1>4, <1>5

\* Showing the list again from its first page.
LEMMA ReloadingFollows ==
    ASSUME NEW m, ShellOK(m), NEW n, Follows(m, n)
    PROVE  Follows(m, Reloading(n)) /\ Reloading(n).busy = n.busy
<1>1. n \in Shells
  BY DEF Follows
<1>2. /\ Reloading(n) \in Shells /\ Reloading(n).list = n.list /\ Reloading(n).sent = n.sent
      /\ Reloading(n).prompt = n.prompt /\ Reloading(n).typed = n.typed /\ Reloading(n).results = n.results
      /\ Reloading(n).filter = n.filter /\ Reloading(n).timer = n.timer /\ Reloading(n).busy = n.busy
  BY <1>1 DEF Reloading, Shells
<1> QED
  BY <1>2 DEF Follows

\* The next page is appended without the chats that are listed already.
LEMMA JoinedOnce ==
    ASSUME NEW list \in Seq(ListedChats), Once(list), NEW more \in Seq(ListedChats), Once(more)
    PROVE  Joined(list, more) \in Seq(ListedChats) /\ Once(Joined(list, more))
<1> DEFINE places == {i \in DOMAIN more : more[i] \notin ToSet(list)}
           new == Taken(more, places)
           k == Cardinality(places)
<1>1. places \in SUBSET DOMAIN more
  OBVIOUS
<1>2. /\ k \in Nat /\ new \in Seq(ListedChats) /\ Len(new) = k
      /\ \A n \in 1..k : Ascending(places)[n] \in places /\ new[n] = more[Ascending(places)[n]]
      /\ \A i, j \in 1..k : i < j => Ascending(places)[i] < Ascending(places)[j]
  <2> HIDE DEF places
  <2> QED BY <1>1, TakenInOrder
<1>3. \A n \in 1..k : new[n] \notin ToSet(list)
  BY <1>2
<1> DEFINE at == Ascending(places)
<1>4. \A i, j \in 1..k : new[i] = new[j] => i = j
  <2> SUFFICES ASSUME NEW i \in 1..k, NEW j \in 1..k, new[i] = new[j], i # j
               PROVE  FALSE
    OBVIOUS
  <2>1. at[i] \in DOMAIN more /\ at[j] \in DOMAIN more /\ at[i] = at[j] /\ at[i] \in Nat
    BY <1>2 DEF Once
  <2>2. i < j \/ j < i
    BY <1>2
  <2>3. at[i] < at[j] \/ at[j] < at[i]
    BY <1>2, <2>2
  <2> HIDE DEF at, new, places, k
  <2> QED
    BY <2>1, <2>3
<1>5. Joined(list, more) = list \o new
  BY DEF Joined
<1> HIDE DEF new, places, k
<1>6. \A i \in DOMAIN list : list[i] \in ToSet(list)
  BY DEF ToSet
<1> HIDE DEF at
<1>7. list \o new \in Seq(ListedChats) /\ DOMAIN (list \o new) = 1..(Len(list) + k) /\ Len(list) \in Nat
      /\ \A i \in 1..(Len(list) + k) : (list \o new)[i] = IF i <= Len(list) THEN list[i] ELSE new[i - Len(list)]
  <2>1. new \in Seq(ListedChats) /\ Len(new) = k
    BY <1>2
  <2>2. /\ list \o new \in Seq(ListedChats) /\ Len(list \o new) = Len(list) + Len(new)
        /\ \A i \in 1..(Len(list) + Len(new)) : (list \o new)[i] = IF i <= Len(list) THEN list[i] ELSE new[i - Len(list)]
    BY <2>1, ConcatProperties
  <2> QED
    BY <2>1, <2>2
<1>8. Once(list \o new)
  <2> SUFFICES ASSUME NEW i \in 1..(Len(list) + k), NEW j \in 1..(Len(list) + k), (list \o new)[i] = (list \o new)[j]
               PROVE  i = j
    BY <1>7 DEF Once
  <2>1. CASE i <= Len(list) /\ j <= Len(list)
    BY <1>7, <2>1 DEF Once
  <2>2. CASE i > Len(list) /\ j > Len(list)
    <3>1. i - Len(list) \in 1..k /\ j - Len(list) \in 1..k /\ new[i - Len(list)] = new[j - Len(list)]
      BY <1>2, <1>7, <2>2
    <3> QED
      BY <1>4, <1>7, <3>1
  <2>3. CASE i <= Len(list) /\ j > Len(list)
    <3>1. j - Len(list) \in 1..k /\ list[i] = new[j - Len(list)] /\ i \in DOMAIN list
      BY <1>2, <1>7, <2>3
    <3> QED
      BY <1>3, <1>6, <3>1
  <2>4. CASE i > Len(list) /\ j <= Len(list)
    <3>1. i - Len(list) \in 1..k /\ list[j] = new[i - Len(list)] /\ j \in DOMAIN list
      BY <1>2, <1>7, <2>4
    <3> QED
      BY <1>3, <1>6, <3>1
  <2> QED
    BY <1>2, <1>7, <2>1, <2>2, <2>3, <2>4
<1> QED
  BY <1>5, <1>7, <1>8

(* Reading the list, loading more of it, and typing into the search field. *)
LEMMA ListSteps ==
    ASSUME NavInv, LoadMore \/ MoreBack \/ TryAgain \/ TypeFilter \/ SearchMessages \/ SearchBack
    PROVE  NavInv'
<1>0. /\ UnderWay(NavNames, NavParams) /\ ShellOK(nav) /\ nav \in Shells /\ Follows(nav, nav)
      /\ StoredOK /\ visited \subseteq ListedChats /\ nav.list \in Seq(ListedChats)
      /\ \A r \in net : /\ r \in RequestsFor(NavNames, NavParams) /\ r.arg \in NavParams /\ r.got \in NavParams
                      /\ r.state \in {"sent", "answered", "failed"} /\ Once(r.got.list)
      /\ <<>> \in Seq(AsksFor(NavNames, NavParams))
  BY NavNow
<1>1. CASE LoadMore
  <2> DEFINE P == [Param EXCEPT !.cursor = nav.next]
             n == [nav EXCEPT !.more = TRUE]
             asks == <<Ask("more", TRUE, P)>>
  <2>1. nav' = n /\ Click("more", asks) /\ UNCHANGED <<changed, blank, visited>>
    BY <1>1 DEF LoadMore
  <2>2. P \in NavParams /\ P.list = <<>>
    BY <1>0, ParamTyped, ShellFields DEF NavParams, Param
  <2>3. Follows(nav, n) /\ n.busy = nav.busy
    <3>1. /\ n \in Shells /\ n.list = nav.list /\ n.sent = nav.sent /\ n.prompt = nav.prompt /\ n.typed = nav.typed
          /\ n.results = nav.results /\ n.filter = nav.filter /\ n.timer = nav.timer /\ n.busy = nav.busy
      BY <1>0 DEF Shells
    <3> HIDE DEF n
    <3> QED
      BY <1>0, <3>1 DEF Follows
  <2> HIDE DEF P, n
  <2>4. /\ asks \in Seq(AsksFor(NavNames, NavParams))
        /\ Quiet(asks)
    <3>1. "more" \in NavNames /\ asks = <<Ask("more", TRUE, P)>>
      BY DEF NavNames
    <3> HIDE DEF asks
    <3>2. asks \in Seq(AsksFor(NavNames, NavParams)) /\ Single(asks, "more", P)
      BY <2>2, <3>1, OneAsk
    <3> QED
      BY <2>2, <3>2 DEF Single, Quiet
  <2> HIDE DEF asks
  <2>5. Exchange({}, asks) /\ task' = task /\ clicks' \in 0..task.clicks /\ faults' = faults
    BY <1>0, <2>1, Clicked1
  <2> QED
    BY <1>0, <2>1, <2>3, <2>4, <2>5, StoredStays, ShellSteps
<1>2. CASE MoreBack
  <2>1. PICK r \in Back("more") :
          /\ nav' = IF r.state = "answered"
                    THEN [nav EXCEPT !.more = FALSE, !.list = Joined(@, r.got.list), !.next = r.got.next]
                    ELSE [nav EXCEPT !.more = FALSE, !.error = TRUE]
          /\ React({r}, <<>>)
          /\ UNCHANGED <<changed, blank, visited>>
    BY <1>2 DEF MoreBack
  <2>2. r \in net /\ r.got.list \in Seq(ListedChats) /\ r.got.next \in Nat /\ Once(r.got.list) /\ Once(nav.list)
    BY <1>0 DEF Back, Open, NavParams, ShellOK
  <2>3. Joined(nav.list, r.got.list) \in Seq(ListedChats) /\ Once(Joined(nav.list, r.got.list))
    BY <1>0, <2>2, JoinedOnce
  <2>4. Follows(nav, nav') /\ nav'.busy = nav.busy
    <3> DEFINE n == nav'
    <3>1. /\ n \in Shells /\ Once(n.list) /\ n.sent = nav.sent /\ n.prompt = nav.prompt /\ n.typed = nav.typed
          /\ n.results = nav.results /\ n.filter = nav.filter /\ n.timer = nav.timer /\ n.busy = nav.busy
      <4>1. CASE r.state = "answered"
        BY <1>0, <2>1, <2>2, <2>3, <4>1 DEF Shells
      <4>2. CASE r.state # "answered"
        BY <1>0, <2>1, <2>2, <4>2 DEF Shells
      <4> QED
        BY <4>1, <4>2
    <3> QED
      BY <1>0, <3>1 DEF Follows
  <2>5. Exchange({r}, <<>>) /\ task' = task /\ clicks' \in 0..task.clicks /\ faults' = faults
    BY <1>0, <2>1, Reacted
  <2> QED
    BY <1>0, <2>1, <2>4, <2>5, StoredStays, ShellStepsQuietly
<1>3. CASE TryAgain
  <2> DEFINE asks == <<ListOf("nothing")>>
  <2>1. nav' = Reloading(nav) /\ Click("retry", asks) /\ UNCHANGED <<changed, blank, visited>>
    BY <1>3 DEF TryAgain
  <2>2. Follows(nav, nav') /\ nav'.busy = nav.busy
    BY <1>0, <2>1, ReloadingFollows
  <2>3. /\ asks \in Seq(AsksFor(NavNames, NavParams))
        /\ Quiet(asks)
    <3>1. asks = <<ListOf("nothing")>>
      OBVIOUS
    <3> HIDE DEF asks
    <3> QED BY <3>1, FirstPageAsk
  <2> HIDE DEF asks
  <2>4. Exchange({}, asks) /\ task' = task /\ clicks' \in 0..task.clicks /\ faults' = faults
    BY <1>0, <2>1, Clicked1
  <2> QED
    BY <1>0, <2>1, <2>2, <2>3, <2>4, StoredStays, ShellSteps
<1>4. CASE TypeFilter
  <2>1. PICK q \in Queries \cup {NoQuery} :
          Click("filter", <<>>) /\ nav' = [nav EXCEPT !.filter = q, !.timer = TRUE] /\ UNCHANGED <<changed, blank, visited>>
    BY <1>4 DEF TypeFilter
  <2>2. Follows(nav, nav') /\ nav'.busy = nav.busy
    <3>1. /\ nav' \in Shells /\ nav'.list = nav.list /\ nav'.sent = nav.sent /\ nav'.prompt = nav.prompt
          /\ nav'.typed = nav.typed /\ nav'.timer = TRUE /\ nav'.busy = nav.busy
      BY <1>0, <2>1 DEF Shells, MaybeQuery
    <3> QED
      BY <1>0, <3>1 DEF Follows
  <2>3. Exchange({}, <<>>) /\ task' = task /\ clicks' \in 0..task.clicks /\ faults' = faults
    BY <1>0, <2>1, Clicked1
  <2> QED
    BY <1>0, <2>1, <2>2, <2>3, StoredStays, ShellStepsQuietly
<1>5. CASE SearchMessages
  <2> DEFINE P == [Param EXCEPT !.query = nav.filter]
             asks == IF nav.filter = NoQuery THEN <<>> ELSE <<Ask("search", TRUE, P)>>
  <2>1. nav' = [nav EXCEPT !.timer = FALSE, !.results = NoResults] /\ React({}, asks) /\ UNCHANGED <<changed, blank, visited>>
    BY <1>5 DEF SearchMessages
  <2>2. P \in NavParams /\ P.list = <<>>
    BY <1>0, ParamTyped, ShellFields DEF NavParams, Param
  <2>3. Follows(nav, nav') /\ nav'.busy = nav.busy
    <3>1. /\ nav' \in Shells /\ nav'.list = nav.list /\ nav'.sent = nav.sent /\ nav'.prompt = nav.prompt
          /\ nav'.typed = nav.typed /\ nav'.results.query = NoQuery /\ nav'.busy = nav.busy
      BY <1>0, <2>1 DEF Shells, NoResults, MaybeQuery
    <3> QED
      BY <1>0, <3>1 DEF Follows
  <2> HIDE DEF P
  <2>4. /\ asks \in Seq(AsksFor(NavNames, NavParams))
        /\ Quiet(asks)
    <3>1. CASE nav.filter = NoQuery
      BY <1>0, <3>1 DEF Quiet
    <3>2. CASE nav.filter # NoQuery
      <4>1. "search" \in NavNames /\ asks = <<Ask("search", TRUE, P)>>
        BY <3>2 DEF NavNames
      <4> HIDE DEF asks
      <4>2. asks \in Seq(AsksFor(NavNames, NavParams)) /\ Single(asks, "search", P)
        BY <2>2, <4>1, OneAsk
      <4> QED
        BY <2>2, <4>2 DEF Single, Quiet
    <3> QED
      BY <3>1, <3>2
  <2> HIDE DEF asks
  <2>5. Exchange({}, asks) /\ task' = task /\ clicks' \in 0..task.clicks /\ faults' = faults
    BY <1>0, <2>1, Reacted
  <2> QED
    BY <1>0, <2>1, <2>3, <2>4, <2>5, StoredStays, ShellSteps
<1>6. CASE SearchBack
  <2>1. PICK r \in Back("search") :
          /\ nav' = IF r.state = "failed" THEN [nav EXCEPT !.error = TRUE]
                    ELSE IF Fits(r.arg.query)
                    THEN [nav EXCEPT !.results = [query |-> r.arg.query, chats |-> r.got.found]] ELSE nav
          /\ React({r}, <<>>)
          /\ UNCHANGED <<changed, blank, visited>>
    BY <1>6 DEF SearchBack
  <2>2. r \in net /\ r.arg.query \in MaybeQuery /\ r.got.found \in SUBSET ListedChats
    BY <1>0 DEF Back, Open, NavParams
  <2>3. Follows(nav, nav') /\ nav'.busy = nav.busy
    <3>1. CASE r.state # "failed" /\ Fits(r.arg.query)
      <4> DEFINE found == [query |-> r.arg.query, chats |-> r.got.found]
      <4>1. found \in [query: MaybeQuery, chats: SUBSET ListedChats] /\ found.query = nav.filter
        BY <2>2, <3>1 DEF Fits
      <4>2. nav' = [nav EXCEPT !.results = found]
        BY <2>1, <3>1
      <4> HIDE DEF found
      <4>3. /\ nav' \in Shells /\ nav'.list = nav.list /\ nav'.sent = nav.sent /\ nav'.prompt = nav.prompt
            /\ nav'.typed = nav.typed /\ nav'.results = found /\ nav'.filter = nav.filter /\ nav'.busy = nav.busy
        BY <1>0, <4>1, <4>2 DEF Shells
      <4> QED
        BY <1>0, <4>1, <4>3 DEF Follows
    <3>2. CASE r.state # "failed" /\ ~Fits(r.arg.query)
      BY <1>0, <2>1, <3>2
    <3>3. CASE r.state = "failed"
      <4>1. /\ nav' \in Shells /\ nav'.list = nav.list /\ nav'.sent = nav.sent /\ nav'.prompt = nav.prompt
            /\ nav'.typed = nav.typed /\ nav'.results = nav.results /\ nav'.filter = nav.filter /\ nav'.busy = nav.busy
            /\ nav'.timer = nav.timer
        BY <1>0, <2>1, <3>3 DEF Shells
      <4> QED
        BY <1>0, <4>1 DEF Follows
    <3> QED
      BY <3>1, <3>2, <3>3
  <2>4. Exchange({r}, <<>>) /\ task' = task /\ clicks' \in 0..task.clicks /\ faults' = faults
    BY <1>0, <2>1, Reacted
  <2> QED
    BY <1>0, <2>1, <2>3, <2>4, StoredStays, ShellStepsQuietly
<1> QED
  BY <1>1, <1>2, <1>3, <1>4, <1>5, <1>6

\* The fields that the properties of the shell are about.
Same(m, n) ==
    /\ n.list = m.list /\ n.sent = m.sent /\ n.prompt = m.prompt /\ n.typed = m.typed
    /\ n.results = m.results /\ n.filter = m.filter /\ n.timer = m.timer /\ n.busy = m.busy

LEMMA SameFollows ==
    ASSUME NEW m, ShellOK(m), NEW n \in Shells, Same(m, n)
    PROVE  Follows(m, n) /\ n.busy = m.busy
BY ShellFields DEF ShellOK, Follows, Same

(* Opening a chat, going to another page, and the dialogs. *)
LEMMA ShowSteps ==
    ASSUME NavInv, SelectChat \/ Navigate \/ PopState \/ OpenDialog \/ CloseDialog
    PROVE  NavInv'
<1>0. /\ UnderWay(NavNames, NavParams) /\ ShellOK(nav) /\ nav \in Shells /\ Follows(nav, nav)
      /\ StoredOK /\ visited \subseteq ListedChats /\ nav.list \in Seq(ListedChats)
      /\ \A r \in net : /\ r \in RequestsFor(NavNames, NavParams) /\ r.arg \in NavParams /\ r.got \in NavParams
                      /\ r.state \in {"sent", "answered", "failed"} /\ Once(r.got.list)
      /\ <<>> \in Seq(AsksFor(NavNames, NavParams))
  BY NavNow
<1>1. CASE SelectChat
  <2>1. PICK c \in ToSet(nav.list) \cup nav.results.chats :
          /\ Click("select", <<>>)
          /\ Show([nav EXCEPT !.made = NoListed, !.prompt = 0, !.current = c, !.view = "chat",
                   !.timer = @ \/ nav.filter # NoQuery, !.filter = NoQuery,
                   !.results = IF nav.filter # NoQuery THEN NoResults ELSE @])
          /\ UNCHANGED <<changed, blank>>
    BY <1>1 DEF SelectChat
  <2> DEFINE shown == IF nav.filter # NoQuery THEN NoResults ELSE nav.results
             n == [nav EXCEPT !.made = NoListed, !.prompt = 0, !.current = c, !.view = "chat",
                     !.timer = nav.timer \/ nav.filter # NoQuery, !.filter = NoQuery, !.results = shown]
  <2>2. c \in ListedChats
    <3>1. ToSet(nav.list) \subseteq ListedChats
      BY <1>0 DEF ToSet
    <3>2. nav.results.chats \subseteq ListedChats
      BY <1>0, ShellFields
    <3> QED
      BY <2>1, <3>1, <3>2
  <2>3. shown \in [query: MaybeQuery, chats: SUBSET ListedChats] /\ (nav.timer \/ nav.filter # NoQuery) \in BOOLEAN
        /\ (shown.query # NoQuery => nav.filter = NoQuery /\ shown = nav.results)
    BY <1>0, ShellFields DEF NoResults, MaybeQuery
  <2>4. Show(n)
    BY <2>1
  <2> HIDE DEF shown
  <2>5. /\ n \in Shells /\ n.list = nav.list /\ n.sent = nav.sent /\ n.prompt = 0 /\ n.typed = nav.typed
        /\ n.results = shown /\ n.timer = (nav.timer \/ nav.filter # NoQuery) /\ n.busy = nav.busy
    <3> DEFINE timer == nav.timer \/ nav.filter # NoQuery
    <3>1. timer \in BOOLEAN /\ n = [nav EXCEPT !.made = NoListed, !.prompt = 0, !.current = c, !.view = "chat",
                                    !.timer = timer, !.filter = NoQuery, !.results = shown]
      BY <2>3
    <3> HIDE DEF timer, n
    <3>2. NoListed \in MaybeChat /\ c \in MaybeChat /\ NoQuery \in MaybeQuery /\ "chat" \in Routes
      BY <2>2 DEF MaybeChat, MaybeQuery, Routes
    <3>3. /\ n \in Shells /\ n.list = nav.list /\ n.sent = nav.sent /\ n.prompt = 0 /\ n.typed = nav.typed
          /\ n.results = shown /\ n.timer = timer /\ n.busy = nav.busy
      BY <1>0, <2>3, <3>1, <3>2 DEF Shells
    <3> QED
      BY <3>3 DEF timer
  <2> HIDE DEF n
  <2>6. Follows(nav, n)
    <3>1. n.results.query # NoQuery => n.timer
      BY <1>0, <2>3, <2>5 DEF ShellOK
    <3> QED
      BY <1>0, <2>5, <3>1, ShellFields DEF Follows, ShellOK
  <2>7. Exchange({}, <<>>) /\ task' = task /\ clicks' \in 0..task.clicks /\ faults' = faults
    BY <1>0, <2>1, Clicked1
  <2> QED
    BY <1>0, <2>1, <2>4, <2>5, <2>6, <2>7, StoredStays, ShellStepsQuietly
<1>2. CASE Navigate
  <2>1. PICK view \in {"home", "other"} :
          Click("go", <<>>) /\ Show([nav EXCEPT !.view = view]) /\ UNCHANGED <<changed, blank>>
    BY <1>2 DEF Navigate
  <2> DEFINE n == [nav EXCEPT !.view = view]
  <2>2. n \in Shells /\ Same(nav, n)
    BY <1>0 DEF Shells, Same, Routes
  <2>3. Exchange({}, <<>>) /\ task' = task /\ clicks' \in 0..task.clicks /\ faults' = faults
    BY <1>0, <2>1, Clicked1
  <2> HIDE DEF n
  <2>4. Show(n)
    BY <2>1 DEF n
  <2> QED
    BY <1>0, <2>1, <2>2, <2>3, <2>4, SameFollows, StoredStays, ShellStepsQuietly
<1>3. CASE PopState
  <2>1. PICK c \in visited :
          Click("back", <<>>) /\ Show([nav EXCEPT !.current = c, !.view = "chat"]) /\ UNCHANGED <<changed, blank>>
    BY <1>3 DEF PopState
  <2> DEFINE n == [nav EXCEPT !.current = c, !.view = "chat"]
  <2>2. n \in Shells /\ Same(nav, n)
    BY <1>0 DEF Shells, Same, Routes, MaybeChat
  <2>3. Exchange({}, <<>>) /\ task' = task /\ clicks' \in 0..task.clicks /\ faults' = faults
    BY <1>0, <2>1, Clicked1
  <2> HIDE DEF n
  <2>4. Show(n)
    BY <2>1 DEF n
  <2> QED
    BY <1>0, <2>1, <2>2, <2>3, <2>4, SameFollows, StoredStays, ShellStepsQuietly
<1>4. CASE OpenDialog \/ CloseDialog
  <2>1. PICK d \in Dialogs :
          Click("dialog", <<>>) /\ nav' = [nav EXCEPT !.dialog = d] /\ UNCHANGED <<changed, blank, visited>>
    <3>1. CASE OpenDialog
      <4>1. PICK c \in ToSet(nav.list), mode \in {"rename", "delete"} :
              /\ Click("dialog", <<>>)
              /\ nav' = [nav EXCEPT !.dialog = [mode |-> mode, chat |-> c, busy |-> FALSE]]
              /\ UNCHANGED <<changed, blank, visited>>
        BY <3>1 DEF OpenDialog
      <4>2. c \in MaybeChat
        BY <1>0 DEF MaybeChat, ToSet
      <4> QED
        BY <4>1, <4>2 DEF Dialogs
    <3>2. CASE CloseDialog
      BY <3>2 DEF CloseDialog, Dialogs
    <3> QED
      BY <1>4, <3>1, <3>2
  <2>2. nav' \in Shells /\ Same(nav, nav')
    BY <1>0, <2>1 DEF Shells, Same
  <2>3. Exchange({}, <<>>) /\ task' = task /\ clicks' \in 0..task.clicks /\ faults' = faults
    BY <1>0, <2>1, Clicked1
  <2> QED
    BY <1>0, <2>1, <2>2, <2>3, SameFollows, StoredStays, ShellStepsQuietly
<1> QED
  BY <1>1, <1>2, <1>3, <1>4

(* Changing a chat, and deleting one or all of them. *)
LEMMA ChangeSteps ==
    ASSUME NavInv, UpdateMeta \/ ConfirmDialog \/ ClearChats \/ ChatUpdated
    PROVE  NavInv'
<1>0. /\ UnderWay(NavNames, NavParams) /\ ShellOK(nav) /\ nav \in Shells /\ Follows(nav, nav)
      /\ StoredOK /\ visited \subseteq ListedChats /\ nav.list \in Seq(ListedChats)
      /\ \A r \in net : /\ r \in RequestsFor(NavNames, NavParams) /\ r.arg \in NavParams /\ r.got \in NavParams
                      /\ r.state \in {"sent", "answered", "failed"} /\ Once(r.got.list)
      /\ <<>> \in Seq(AsksFor(NavNames, NavParams))
  BY NavNow
<1>1. ASSUME NEW act, NEW op \in NavNames \ {"create"}, NEW arg \in NavParams, arg.list = <<>>,
             Click(act, <<Ask(op, FALSE, arg)>>), nav' \in Shells, Same(nav, nav'), UNCHANGED <<changed, blank, visited>>
      PROVE  NavInv'
  <2> DEFINE asks == <<Ask(op, FALSE, arg)>>
  <2>1. asks \in Seq(AsksFor(NavNames, NavParams)) /\ Quiet(asks)
    <3>1. asks = <<Ask(op, FALSE, arg)>>
      OBVIOUS
    <3> HIDE DEF asks
    <3>2. asks \in Seq(AsksFor(NavNames, NavParams)) /\ Single(asks, op, arg)
      BY <1>1, <3>1, OneAsk
    <3>3. Quiet(asks)
      BY <1>1, <3>2, QuietAsk
    <3> QED
      BY <3>2, <3>3
  <2>2. Click(act, asks)
    BY <1>1
  <2> HIDE DEF asks
  <2>3. Exchange({}, asks) /\ task' = task /\ clicks' \in 0..task.clicks /\ faults' = faults
    BY <1>0, <2>2, Clicked1
  <2> QED
    BY <1>0, <1>1, <2>1, <2>3, SameFollows, StoredStays, ShellSteps
<1>2. Same(nav, nav)
  BY DEF Same
<1>3. CASE UpdateMeta
  <2>1. PICK c \in ToSet(nav.list) : Click("meta", <<Ask("meta", FALSE, [Param EXCEPT !.chat = c])>>) /\ UNCHANGED navVars
    BY <1>3 DEF UpdateMeta
  <2> DEFINE P == [Param EXCEPT !.chat = c]
  <2>2. c \in MaybeChat
    BY <1>0 DEF MaybeChat, ToSet
  <2>3. P \in NavParams /\ P.list = <<>>
    BY <2>2, ParamTyped DEF NavParams, Param
  <2>4. Click("meta", <<Ask("meta", FALSE, P)>>) /\ "meta" \in NavNames \ {"create"}
    BY <2>1 DEF NavNames
  <2> HIDE DEF P
  <2> QED
    BY <1>0, <1>1, <1>2, <2>1, <2>3, <2>4 DEF navVars
<1>4. CASE ConfirmDialog
  <2> DEFINE then == IF nav.dialog.mode = "delete" /\ nav.current = nav.dialog.chat THEN "leave" ELSE "nothing"
             P == [Param EXCEPT !.chat = nav.dialog.chat, !.then = then]
             op == nav.dialog.mode
  <2>1. /\ nav.dialog # NoDialog /\ ~nav.dialog.busy
        /\ Click("dialog", <<Ask(op, FALSE, P)>>)
        /\ nav' = [nav EXCEPT !.dialog.busy = TRUE]
        /\ UNCHANGED <<changed, blank, visited>>
    BY <1>4 DEF ConfirmDialog
  <2>2. nav.dialog \in Dialogs
    BY <1>0, ShellFields
  <2>a. nav.dialog.chat \in MaybeChat
    BY <2>2 DEF Dialogs, NoDialog, MaybeChat
  <2>3. P \in NavParams /\ P.list = <<>>
    BY <2>a, ParamTyped DEF NavParams, Param
  <2>4. CASE op \in {"rename", "delete"}
    <3>1. op \in NavNames \ {"create"}
      BY <2>4 DEF NavNames
    <3>2. nav' \in Shells /\ Same(nav, nav')
      <4>1. [nav.dialog EXCEPT !.busy = TRUE] \in Dialogs
        BY <2>1, <2>2 DEF Dialogs
      <4>2. nav' = [nav EXCEPT !.dialog = [nav.dialog EXCEPT !.busy = TRUE]]
        BY <1>0, <2>1 DEF Shells
      <4> QED
        BY <1>0, <4>1, <4>2 DEF Shells, Same
    <3> HIDE DEF P, op
    <3> QED
      BY <1>1, <2>1, <2>3, <3>1, <3>2
  <2>5. CASE op = "none"
    BY <2>1, <2>2, <2>5 DEF Dialogs
  <2> QED
    BY <2>2, <2>4, <2>5 DEF Dialogs, NoDialog
<1>5. CASE ClearChats
  <2> DEFINE P == [Param EXCEPT !.then = "clear"]
  <2>1. Click("clear", <<Ask("clear", FALSE, P)>>) /\ UNCHANGED navVars
    BY <1>5 DEF ClearChats
  <2>2. P \in NavParams /\ P.list = <<>> /\ "clear" \in NavNames \ {"create"}
    BY ParamTyped DEF NavNames
  <2> HIDE DEF P
  <2> QED
    BY <1>0, <1>1, <1>2, <2>1, <2>2 DEF navVars
<1>6. CASE ChatUpdated
  <2> DEFINE asks == <<ListOf("nothing")>>
  <2>1. /\ \E c \in IF nav.pane.chat = NoListed THEN ListedChats \ Stored ELSE {nav.pane.chat} \cap Stored :
            changed' = [changed EXCEPT ![c] = Now] /\ blank' = blank \ {c}
        /\ Click("turn", asks) /\ nav' = Reloading(nav) /\ visited' = visited
    BY <1>6 DEF ChatUpdated
  <2>2. StoredOK'
    <3>1. PICK c \in ListedChats : changed' = [changed EXCEPT ![c] = Now] /\ blank' = blank \ {c}
      BY <2>1 DEF Stored
    <3>2. blank' \subseteq ListedChats
      BY <1>0, <3>1 DEF StoredOK
    <3> QED
      BY <1>0, <3>1, <3>2, ChangesDiffer
  <2>3. asks \in Seq(AsksFor(NavNames, NavParams)) /\ Quiet(asks)
    <3>1. asks = <<ListOf("nothing")>>
      OBVIOUS
    <3> HIDE DEF asks
    <3> QED BY <3>1, FirstPageAsk
  <2> HIDE DEF asks
  <2>4. Exchange({}, asks) /\ task' = task /\ clicks' \in 0..task.clicks /\ faults' = faults
    BY <1>0, <2>1, Clicked1
  <2>5. Follows(nav, nav') /\ nav'.busy = nav.busy
    BY <1>0, <2>1, ReloadingFollows
  <2> QED
    BY <1>0, <2>1, <2>2, <2>3, <2>4, <2>5, ShellSteps
<1> QED
  BY <1>3, <1>4, <1>5, <1>6

(* A step that asks for a new chat, for a prompt that is not used yet. *)
LEMMA ShellAsksForChat ==
    ASSUME NavInv, ~nav.busy, NEW done, NEW arg \in NavParams, arg.list = <<>>, NEW asks, asks = <<Ask("create", FALSE, arg)>>,
           Exchange(done, asks), task' = task, clicks' \in 0..task.clicks, faults' = faults,
           NEW n, Follows(nav, n), n.busy = TRUE, arg.prompt \in 0..n.typed, arg.prompt \notin Spent(n),
           (nav' = n /\ visited' = visited) \/ Show(n), changed' = changed, blank' = blank
    PROVE  NavInv'
<1>0. /\ UnderWay(NavNames, NavParams) /\ ShellOK(nav) /\ nav \in Shells /\ Follows(nav, nav)
      /\ StoredOK /\ visited \subseteq ListedChats /\ nav.list \in Seq(ListedChats)
      /\ \A r \in net : /\ r \in RequestsFor(NavNames, NavParams) /\ r.arg \in NavParams /\ r.got \in NavParams
                      /\ r.state \in {"sent", "answered", "failed"} /\ Once(r.got.list)
      /\ <<>> \in Seq(AsksFor(NavNames, NavParams))
  BY NavNow
<1>1. asks \in Seq(AsksFor(NavNames, NavParams)) /\ Len(asks) = 1 /\ Single(asks, "create", arg)
  <2>1. "create" \in NavNames
    BY DEF NavNames
  <2> QED
    BY <2>1, OneAsk
<1>2. ShellOK(n)
  BY <1>0, FollowsOK
<1>3. /\ ShellOK(nav') /\ visited' \subseteq ListedChats
      /\ Spent(nav') = Spent(n) /\ nav'.typed = n.typed /\ nav'.busy = n.busy
  BY <1>0, <1>2, ShownOK
<1>4. NavServerOK'
  BY <1>0, <1>3, StoredStays DEF NavServerOK
<1>5. \A r \in net : r.op # "create"
  BY DEF NavInv, FreshPrompt
<1>6. ASSUME NEW a, Single(a, "create", arg)
      PROVE  \A i \in DOMAIN a : a[i].arg.list = <<>> /\ FreshPrompt(a[i], nav')
  BY <1>3, <1>6 DEF Single, FreshPrompt
<1>7. /\ \A i \in DOMAIN asks : asks[i].arg.list = <<>>
      /\ \A i \in DOMAIN asks : asks[i].op = "create" => ~nav.busy /\ Len(asks) = 1 /\ FreshPrompt(asks[i], nav')
  BY <1>1, <1>6
<1> QED
  BY <1>1, <1>3, <1>4, <1>5, <1>7, ShellMoves

(* The list arrives, and a chat is asked for and created. *)
LEMMA ChatSteps ==
    ASSUME NavInv, NewChat \/ CreateBack \/ ListBack
    PROVE  NavInv'
<1>0. /\ UnderWay(NavNames, NavParams) /\ ShellOK(nav) /\ nav \in Shells /\ Follows(nav, nav)
      /\ StoredOK /\ visited \subseteq ListedChats /\ nav.list \in Seq(ListedChats)
      /\ \A r \in net : /\ r \in RequestsFor(NavNames, NavParams) /\ r.arg \in NavParams /\ r.got \in NavParams
                      /\ r.state \in {"sent", "answered", "failed"} /\ Once(r.got.list)
      /\ <<>> \in Seq(AsksFor(NavNames, NavParams))
  BY NavNow
<1>1. CASE NewChat
  <2>1. PICK prompt \in BOOLEAN :
          /\ ~nav.busy
          /\ LET n == [nav EXCEPT !.busy = TRUE, !.typed = IF prompt THEN @ + 1 ELSE @]
             IN  /\ nav' = n
                 /\ Click("new", <<Ask("create", FALSE, [Param EXCEPT !.prompt = IF prompt THEN n.typed ELSE 0])>>)
          /\ UNCHANGED <<changed, blank, visited>>
    BY <1>1 DEF NewChat
  <2> DEFINE typed == IF prompt THEN nav.typed + 1 ELSE nav.typed
             n == [nav EXCEPT !.busy = TRUE, !.typed = typed]
             P == [Param EXCEPT !.prompt = IF prompt THEN n.typed ELSE 0]
             asks == <<Ask("create", FALSE, P)>>
  <2>2. nav' = n /\ Click("new", asks) /\ UNCHANGED <<changed, blank, visited>>
    BY <2>1
  <2>3. nav.typed \in Nat /\ nav.prompt \in Nat /\ typed \in Nat /\ typed >= nav.typed /\ (prompt => typed = nav.typed + 1)
    BY <1>0, ShellFields
  <2> HIDE DEF typed
  <2>4. /\ n \in Shells /\ n.list = nav.list /\ n.sent = nav.sent /\ n.prompt = nav.prompt /\ n.typed = typed
        /\ n.results = nav.results /\ n.filter = nav.filter /\ n.timer = nav.timer /\ n.busy = TRUE
    BY <1>0, <2>3 DEF Shells
  <2> HIDE DEF n
  <2>5. Follows(nav, n) /\ Spent(n) = Spent(nav)
    BY <1>0, <2>3, <2>4 DEF Follows, ShellOK, Spent
  <2>6. P \in NavParams /\ P.list = <<>> /\ P.prompt = IF prompt THEN typed ELSE 0
    BY <2>3, <2>4, ParamTyped DEF NavParams, Param
  <2> HIDE DEF P
  <2>7. P.prompt \in 0..n.typed /\ P.prompt \notin Spent(n)
    <3>1. Spent(nav) \subseteq 1..nav.typed
      BY <1>0 DEF ShellOK
    <3> QED
      BY <2>3, <2>4, <2>5, <2>6, <3>1
  <2>8. asks = <<Ask("create", FALSE, P)>>
    OBVIOUS
  <2> HIDE DEF asks
  <2>9. Exchange({}, asks) /\ task' = task /\ clicks' \in 0..task.clicks /\ faults' = faults
    BY <1>0, <2>2, Clicked1
  <2> QED
    BY <2>1, <2>2, <2>4, <2>5, <2>6, <2>7, <2>8, <2>9, ShellAsksForChat
<1>2. CASE CreateBack
  <2>1. PICK r \in Back("create") :
        /\ IF r.state = "answered"
           THEN /\ Show(Reloading([nav EXCEPT !.busy = FALSE, !.prompt = r.arg.prompt, !.made = r.got.chat,
                                    !.current = r.got.chat, !.view = "chat"]))
                /\ React({r}, <<ListOf("nothing")>>)
           ELSE /\ Show([nav EXCEPT !.busy = FALSE, !.error = TRUE])
                /\ React({r}, <<>>)
        /\ UNCHANGED <<changed, blank>>
    BY <1>2 DEF CreateBack
  <2>2. r \in net /\ r.op = "create" /\ r.arg.prompt \in Nat /\ r.got.chat \in MaybeChat /\ FreshPrompt(r, nav)
    BY <1>0 DEF Back, Open, NavParams, NavInv
  <2>3. \A q \in net : q.op = "create" /\ q \notin {r} => FALSE
    BY <2>2 DEF NavInv
  <2>4. ASSUME NEW n, ShellOK(n), Show(n), NEW asks \in Seq(AsksFor(NavNames, NavParams)), Quiet(asks),
               React({r}, asks)
        PROVE  NavInv'
    <3>1. Exchange({r}, asks) /\ task' = task /\ clicks' \in 0..task.clicks /\ faults' = faults
      BY <1>0, <2>4, Reacted
    <3>2. ShellOK(nav') /\ visited' \subseteq ListedChats
      BY <1>0, <2>4, ShownOK
    <3>3. NavServerOK'
      BY <1>0, <2>1, <3>2, StoredStays DEF NavServerOK
    <3> QED
      BY <2>3, <2>4, <3>1, <3>2, <3>3, ShellMoves DEF Quiet
  <2>5. CASE r.state = "answered"
    <3> DEFINE n == [nav EXCEPT !.busy = FALSE, !.prompt = r.arg.prompt, !.made = r.got.chat,
                                    !.current = r.got.chat, !.view = "chat"]
               m == Reloading(n)
               asks == <<ListOf("nothing")>>
    <3>1. /\ n \in Shells /\ n.list = nav.list /\ n.sent = nav.sent /\ n.prompt = r.arg.prompt /\ n.typed = nav.typed
          /\ n.results = nav.results /\ n.filter = nav.filter /\ n.timer = nav.timer
      BY <1>0, <2>2 DEF Shells, Routes
    <3>2. Show(m) /\ React({r}, asks)
      BY <2>1, <2>5
    <3> HIDE DEF n
    <3>3. ShellOK(n)
      <4>1. Spent(n) = ToSet(nav.sent) \cup ({r.arg.prompt} \ {0})
        BY <3>1 DEF Spent
      <4>2. ToSet(nav.sent) \subseteq Spent(nav) /\ Spent(nav) \subseteq 1..nav.typed /\ nav.typed \in Nat
        BY <1>0, ShellFields DEF Spent, ShellOK
      <4>3. r.arg.prompt \in 0..nav.typed /\ r.arg.prompt \notin Spent(nav)
        BY <2>2 DEF FreshPrompt
      <4>4. Spent(n) \subseteq 1..n.typed
        BY <3>1, <4>1, <4>2, <4>3
      <4>5. n.prompt \notin ToSet(n.sent)
        BY <3>1, <4>2, <4>3
      <4> QED
        BY <1>0, <3>1, <4>4, <4>5 DEF ShellOK
    <3>4. ShellOK(m)
      <4>1. Follows(n, n)
        BY <3>1, <3>3, ShellFields DEF ShellOK, Follows
      <4> QED
        BY <3>3, <4>1, ReloadingFollows, FollowsOK
    <3>5. asks \in Seq(AsksFor(NavNames, NavParams)) /\ Quiet(asks)
      <4>1. asks = <<ListOf("nothing")>>
        OBVIOUS
      <4> HIDE DEF asks
      <4> QED BY <4>1, FirstPageAsk
    <3> HIDE DEF asks, m
    <3> QED
      BY <2>4, <3>2, <3>4, <3>5
  <2>6. CASE r.state # "answered"
    <3> DEFINE n == [nav EXCEPT !.busy = FALSE, !.error = TRUE]
               asks == <<>>
    <3>1. /\ n \in Shells /\ n.list = nav.list /\ n.sent = nav.sent /\ n.prompt = nav.prompt /\ n.typed = nav.typed
          /\ n.results = nav.results /\ n.filter = nav.filter /\ n.timer = nav.timer
      BY <1>0 DEF Shells
    <3>2. Show(n) /\ React({r}, asks) /\ asks \in Seq(AsksFor(NavNames, NavParams)) /\ Quiet(asks)
      BY <2>1, <2>6 DEF Quiet
    <3> HIDE DEF n, asks
    <3>3. ShellOK(n)
      <4>1. Follows(nav, n)
        BY <1>0, <3>1, ShellFields DEF Follows, ShellOK
      <4> QED
        BY <1>0, <4>1, FollowsOK
    <3> QED
      BY <2>4, <3>2, <3>3
  <2> QED
    BY <2>5, <2>6
<1>3. CASE ListBack
  <2>1. PICK r \in Back("page") :
        LET n == IF r.state = "answered" THEN Listed(nav, r.got)
                 ELSE [nav EXCEPT !.error = TRUE, !.loading = FALSE]
            create == r.arg.then = "first" /\ n.deep = "fresh" /\ ~n.busy
        IN  /\ CASE r.arg.then = "leave" -> Show([n EXCEPT !.view = "home"])
                 [] r.arg.then = "first" /\ n.deep = "link" ->
                        \E c \in visited : Show([n EXCEPT !.current = c, !.view = "chat"])
                 [] create -> Show([n EXCEPT !.busy = TRUE])
                 [] OTHER -> Show(n)
            /\ React({r}, IF create THEN <<Ask("create", FALSE, Param)>> ELSE <<>>)
            /\ UNCHANGED <<changed, blank>>
    BY <1>3 DEF ListBack
  <2> DEFINE n == IF r.state = "answered" THEN Listed(nav, r.got)
                  ELSE [nav EXCEPT !.error = TRUE, !.loading = FALSE]
             create == r.arg.then = "first" /\ n.deep = "fresh" /\ ~n.busy
  <2>2. r \in net /\ r.got.list \in Seq(ListedChats) /\ r.got.next \in Nat /\ Once(r.got.list)
    BY <1>0 DEF Back, Open, NavParams
  <2>3. /\ n \in Shells /\ Once(n.list) /\ n.sent = nav.sent /\ n.prompt = nav.prompt /\ n.typed = nav.typed
        /\ n.results = nav.results /\ n.filter = nav.filter /\ n.timer = nav.timer /\ n.busy = nav.busy /\ n.deep = nav.deep
    <3>1. CASE r.state = "answered"
      <4> DEFINE at == IF nav.current = NoListed /\ nav.deep = "no" /\ r.got.list # <<>> THEN Head(r.got.list) ELSE nav.current
      <4>1. at \in MaybeChat
        BY <1>0, <2>2, ShellFields DEF MaybeChat
      <4>2. n = [nav EXCEPT !.list = r.got.list, !.next = r.got.next, !.error = FALSE, !.loading = FALSE, !.current = at]
        BY <3>1 DEF Listed
      <4> HIDE DEF at, n
      <4> QED
        BY <1>0, <2>2, <4>1, <4>2 DEF Shells
    <3>2. CASE r.state # "answered"
      BY <1>0, <3>2 DEF Shells, ShellOK
    <3> QED
      BY <3>1, <3>2
  <2>4. /\ \/ Show([n EXCEPT !.view = "home"])
           \/ \E c \in visited : Show([n EXCEPT !.current = c, !.view = "chat"])
           \/ create /\ Show([n EXCEPT !.busy = TRUE])
           \/ Show(n)
        /\ React({r}, IF create THEN <<Ask("create", FALSE, Param)>> ELSE <<>>)
        /\ UNCHANGED <<changed, blank>>
        /\ create => \/ Show([n EXCEPT !.busy = TRUE])
    <3> HIDE DEF n
    <3>1. CASE r.arg.then = "leave"
      BY <2>1, <3>1 DEF n
    <3>2. CASE r.arg.then # "leave" /\ r.arg.then = "first" /\ n.deep = "link"
      BY <2>1, <3>2 DEF n
    <3>3. CASE ~(r.arg.then = "leave") /\ ~(r.arg.then = "first" /\ n.deep = "link") /\ create
      BY <2>1, <3>3 DEF n
    <3>4. CASE ~(r.arg.then = "leave") /\ ~(r.arg.then = "first" /\ n.deep = "link") /\ ~create
      BY <2>1, <3>4 DEF n
    <3> QED
      BY <3>1, <3>2, <3>3, <3>4
  <2> HIDE DEF n
  <2>5. CASE create
    <3> DEFINE m == [n EXCEPT !.busy = TRUE]
               asks == <<Ask("create", FALSE, Param)>>
    <3>1. Show(m) /\ React({r}, asks) /\ ~nav.busy
      BY <2>3, <2>4, <2>5
    <3>2. /\ m \in Shells /\ Once(m.list) /\ m.sent = nav.sent /\ m.prompt = nav.prompt /\ m.typed = nav.typed
          /\ m.results = nav.results /\ m.filter = nav.filter /\ m.timer = nav.timer /\ m.busy = TRUE
      BY <2>3 DEF Shells
    <3> HIDE DEF m
    <3>3. Follows(nav, m) /\ Spent(m) = Spent(nav)
      BY <1>0, <3>2, ShellFields DEF Follows, ShellOK, Spent
    <3>4. Param \in NavParams /\ Param.list = <<>> /\ Param.prompt = 0
      BY ParamTyped
    <3>5. 0 \in 0..m.typed /\ 0 \notin Spent(m)
      <4>1. Spent(nav) \subseteq 1..nav.typed /\ nav.typed \in Nat
        BY <1>0, ShellFields DEF ShellOK
      <4> QED
        BY <3>2, <3>3, <4>1
    <3>6. asks = <<Ask("create", FALSE, Param)>>
      OBVIOUS
    <3> HIDE DEF asks
    <3>7. Exchange({r}, asks) /\ task' = task /\ clicks' \in 0..task.clicks /\ faults' = faults
      BY <1>0, <3>1, Reacted
    <3> QED
      BY <2>4, <3>1, <3>2, <3>3, <3>4, <3>5, <3>6, <3>7, ShellAsksForChat
  <2>6. CASE ~create
    <3>1. React({r}, <<>>)
      BY <2>4, <2>6
    <3>2. Exchange({r}, <<>>) /\ task' = task /\ clicks' \in 0..task.clicks /\ faults' = faults
      BY <1>0, <3>1, Reacted
    <3>3. ASSUME NEW view \in Routes, NEW c \in MaybeChat, Show([n EXCEPT !.current = c, !.view = view])
          PROVE  NavInv'
      <4> DEFINE m == [n EXCEPT !.current = c, !.view = view]
      <4>1. /\ m \in Shells /\ Once(m.list) /\ m.sent = nav.sent /\ m.prompt = nav.prompt /\ m.typed = nav.typed
            /\ m.results = nav.results /\ m.filter = nav.filter /\ m.timer = nav.timer /\ m.busy = nav.busy
        BY <2>3, <3>3 DEF Shells
      <4>2. Show(m)
        BY <3>3
      <4> HIDE DEF m
      <4>3. Follows(nav, m)
        BY <1>0, <4>1, ShellFields DEF Follows, ShellOK
      <4> QED
        BY <1>0, <2>4, <3>2, <4>1, <4>2, <4>3, StoredStays, ShellStepsQuietly
    <3>4. n.view \in Routes /\ n.current \in MaybeChat
      BY <2>3, ShellFields
    <3>5. [n EXCEPT !.view = "home"] = [n EXCEPT !.current = n.current, !.view = "home"] /\ n = [n EXCEPT !.current = n.current, !.view = n.view]
      BY <2>3 DEF Shells
    <3>6. CASE Show([n EXCEPT !.view = "home"])
      <4> DEFINE m == [n EXCEPT !.current = n.current, !.view = "home"]
      <4>1. Show(m)
        BY <3>5, <3>6
      <4>2. "home" \in Routes
        BY DEF Routes
      <4> QED
        BY <3>3, <3>4, <4>1, <4>2
    <3>7. ASSUME NEW c \in visited, Show([n EXCEPT !.current = c, !.view = "chat"])
          PROVE  NavInv'
      BY <1>0, <3>3, <3>7 DEF Routes, MaybeChat
    <3>8. CASE Show(n)
      <4> DEFINE m == [n EXCEPT !.current = n.current, !.view = n.view]
      <4>1. Show(m)
        BY <3>5, <3>8
      <4> QED
        BY <3>3, <3>4, <4>1
    <3> QED
      BY <2>4, <2>6, <3>6, <3>7, <3>8
  <2> QED
    BY <2>5, <2>6
<1> QED
  BY <1>1, <1>2, <1>3

(* The page of a chat is ready or fails. *)
LEMMA PaneSteps ==
    ASSUME NavInv, PaneReady
    PROVE  NavInv'
<1>0. /\ UnderWay(NavNames, NavParams) /\ ShellOK(nav) /\ nav \in Shells /\ Follows(nav, nav)
      /\ StoredOK /\ visited \subseteq ListedChats /\ nav.list \in Seq(ListedChats)
      /\ \A r \in net : /\ r \in RequestsFor(NavNames, NavParams) /\ r.arg \in NavParams /\ r.got \in NavParams
                      /\ r.state \in {"sent", "answered", "failed"} /\ Once(r.got.list)
      /\ <<>> \in Seq(AsksFor(NavNames, NavParams))
  BY NavNow
<1>1. PICK state \in {"ready", "failed"} : Show([nav EXCEPT !.pane.state = state])
  BY DEF PaneReady
<1>2. task' = task /\ net' = net /\ clicks' = clicks /\ faults' \in 0..task.faults /\ changed' = changed /\ blank' = blank
  BY <1>0, TaskFields DEF PaneReady, UnderWay
<1> DEFINE n == [nav EXCEPT !.pane.state = state]
<1>3. n \in Shells /\ Same(nav, n)
  <2>1. nav.pane \in [chat: MaybeChat, state: {"none", "loading", "ready", "failed"}]
    BY <1>0, ShellFields
  <2>2. [nav.pane EXCEPT !.state = state] \in [chat: MaybeChat, state: {"none", "loading", "ready", "failed"}]
    BY <2>1
  <2>3. n = [nav EXCEPT !.pane = [nav.pane EXCEPT !.state = state]]
    BY <1>0 DEF Shells
  <2> HIDE DEF n
  <2> QED
    BY <1>0, <2>2, <2>3 DEF Shells, Same
<1>4. Show(n)
  BY <1>1
<1> HIDE DEF n
<1>5. ShellOK(n) /\ Spent(n) \subseteq Spent(nav) /\ n.typed = nav.typed /\ n.busy = nav.busy
  BY <1>0, <1>3, SameFollows, FollowsOK DEF Same
<1>6. /\ ShellOK(nav') /\ visited' \subseteq ListedChats
      /\ Spent(nav') = Spent(n) /\ nav'.typed = n.typed /\ nav'.busy = n.busy
  BY <1>0, <1>4, <1>5, ShownOK
<1>7. UnderWay(NavNames, NavParams)'
  BY <1>0, <1>2 DEF UnderWay
<1>8. NavServerOK'
  BY <1>0, <1>2, <1>6, StoredStays DEF NavServerOK
<1>9. \A r \in net' : r.op = "create" => FreshPrompt(r, nav')
  BY <1>2, <1>5, <1>6 DEF NavInv, FreshPrompt
<1> QED
  BY <1>2, <1>6, <1>7, <1>8, <1>9 DEF NavInv

(* A change of a chat is answered, and the list is asked for again. *)
LEMMA ChangeIsBack ==
    ASSUME NavInv, ChangeBack
    PROVE  NavInv'
<1>0. /\ UnderWay(NavNames, NavParams) /\ ShellOK(nav) /\ nav \in Shells /\ Follows(nav, nav)
      /\ StoredOK /\ visited \subseteq ListedChats /\ nav.list \in Seq(ListedChats)
      /\ \A r \in net : /\ r \in RequestsFor(NavNames, NavParams) /\ r.arg \in NavParams /\ r.got \in NavParams
                      /\ r.state \in {"sent", "answered", "failed"} /\ Once(r.got.list)
      /\ <<>> \in Seq(AsksFor(NavNames, NavParams))
  BY NavNow
<1>1. PICK r \in Back("meta") \cup Back("rename") \cup Back("delete") \cup Back("clear") :
        LET n == IF r.op \in {"rename", "delete"}
                 THEN [nav EXCEPT !.dialog = IF r.state = "answered" THEN NoDialog ELSE [@ EXCEPT !.busy = FALSE]]
                 ELSE IF r.op = "meta" THEN [nav EXCEPT !.error = (r.state = "failed")]
                 ELSE nav
        IN  /\ IF r.state = "answered"
               THEN /\ Show(Reloading([n EXCEPT !.current = IF r.arg.then = "nothing" THEN @ ELSE NoListed]))
                    /\ React({r}, <<ListOf(IF r.arg.then = "leave" THEN "leave" ELSE "nothing")>>)
               ELSE Show(n) /\ React({r}, <<>>)
            /\ UNCHANGED <<changed, blank>>
  BY DEF ChangeBack
<1> DEFINE dialog == IF r.state = "answered" THEN NoDialog ELSE [nav.dialog EXCEPT !.busy = FALSE]
           n == IF r.op \in {"rename", "delete"} THEN [nav EXCEPT !.dialog = dialog]
                ELSE IF r.op = "meta" THEN [nav EXCEPT !.error = (r.state = "failed")]
                ELSE nav
<1>2. dialog \in Dialogs
  <2>1. nav.dialog \in Dialogs
    BY <1>0, ShellFields
  <2>2. CASE nav.dialog = NoDialog
    <3>1. NoDialog \in [mode: {"none"}, chat: MaybeChat, busy: BOOLEAN] /\ ~NoDialog.busy
      BY DEF NoDialog, MaybeChat
    <3>2. [NoDialog EXCEPT !.busy = FALSE] = NoDialog
      BY <3>1
    <3> QED
      BY <2>2, <3>2 DEF Dialogs
  <2>3. CASE nav.dialog # NoDialog
    BY <2>1, <2>3 DEF Dialogs
  <2> QED
    BY <2>2, <2>3
<1>3. /\ IF r.state = "answered"
         THEN /\ Show(Reloading([n EXCEPT !.current = IF r.arg.then = "nothing" THEN @ ELSE NoListed]))
              /\ React({r}, <<ListOf(IF r.arg.then = "leave" THEN "leave" ELSE "nothing")>>)
         ELSE Show(n) /\ React({r}, <<>>)
      /\ UNCHANGED <<changed, blank>>
  BY <1>1
<1> HIDE DEF dialog
<1>4. n \in Shells /\ Same(nav, n)
  <2>1. CASE r.op \in {"rename", "delete"}
    BY <1>0, <1>2, <2>1 DEF Shells, Same
  <2>2. CASE r.op = "meta"
    BY <1>0, <2>2 DEF Shells, Same
  <2>3. CASE r.op \notin {"rename", "delete", "meta"}
    BY <1>0, <2>3 DEF Same
  <2> QED
    BY <2>1, <2>2, <2>3
<1> HIDE DEF n
<1>5. CASE r.state = "answered"
  <2> DEFINE m == [n EXCEPT !.current = IF r.arg.then = "nothing" THEN @ ELSE NoListed]
             then == IF r.arg.then = "leave" THEN "leave" ELSE "nothing"
             asks == <<ListOf(then)>>
  <2>1. Show(Reloading(m)) /\ React({r}, asks)
    BY <1>3, <1>5
  <2>2. m \in Shells /\ Same(nav, m)
    <3> DEFINE current == IF r.arg.then = "nothing" THEN n.current ELSE NoListed
    <3>1. current \in MaybeChat /\ m = [n EXCEPT !.current = current]
      BY <1>4, ShellFields DEF MaybeChat
    <3> HIDE DEF current, m
    <3>2. /\ m \in Shells /\ m.list = n.list /\ m.sent = n.sent /\ m.prompt = n.prompt /\ m.typed = n.typed
          /\ m.results = n.results /\ m.filter = n.filter /\ m.timer = n.timer /\ m.busy = n.busy
      BY <1>4, <3>1 DEF Shells
    <3> QED
      BY <1>4, <3>2 DEF Same
  <2> HIDE DEF m
  <2>3. Follows(nav, Reloading(m)) /\ Reloading(m).busy = nav.busy
    BY <1>0, <2>2, SameFollows, ReloadingFollows
  <2>4. asks \in Seq(AsksFor(NavNames, NavParams)) /\ Quiet(asks)
    <3>1. asks = <<ListOf(then)>> /\ then \in {"nothing", "first", "leave", "clear"}
      OBVIOUS
    <3> HIDE DEF asks, then
    <3> QED BY <3>1, FirstPageAsk
  <2> HIDE DEF asks
  <2>5. Exchange({r}, asks) /\ task' = task /\ clicks' \in 0..task.clicks /\ faults' = faults
    BY <1>0, <2>1, Reacted
  <2> QED
    BY <1>0, <1>3, <2>1, <2>3, <2>4, <2>5, StoredStays, ShellSteps
<1>6. CASE r.state # "answered"
  <2>1. Show(n) /\ React({r}, <<>>)
    BY <1>3, <1>6
  <2>2. Exchange({r}, <<>>) /\ task' = task /\ clicks' \in 0..task.clicks /\ faults' = faults
    BY <1>0, <2>1, Reacted
  <2> QED
    BY <1>0, <1>3, <1>4, <2>1, <2>2, SameFollows, StoredStays, ShellStepsQuietly
<1> QED
  BY <1>5, <1>6

(* Every step of the shell keeps the invariant. *)
LEMMA NavSteps ==
    ASSUME NavInv, NextNavigation
    PROVE  NavInv'
<1>1. CASE ServeNavigation
  BY <1>1, NavServes
<1>2. CASE UserNavigates
  BY <1>2, ListSteps, ShowSteps, ChangeSteps, ChatSteps DEF UserNavigates
<1>3. CASE ShellReacts
  BY <1>3, ListSteps, ChatSteps, ChangeIsBack, PaneSteps DEF ShellReacts
<1> QED
  BY <1>1, <1>2, <1>3 DEF NextNavigation

(* The shell begins with the first page of the list under way. *)
LEMMA NavStarts ==
    ASSUME InitRequests("chats"), InitNavigation
    PROVE  NavInv
<1>1. PICK deep \in {"no", "fresh", "link"} : nav = [FirstNav(deep) EXCEPT !.pane = Mounted(FirstNav(deep))]
  BY DEF InitNavigation
<1>2. ShellOK(nav)
  <2>1. FirstNav(deep) \in Shells /\ FirstNav(deep).list = <<>> /\ FirstNav(deep).sent = <<>>
        /\ FirstNav(deep).prompt = 0 /\ FirstNav(deep).typed = 0 /\ FirstNav(deep).results.query = NoQuery
    BY DEF FirstNav, Shells, Routes, MaybeChat, MaybeQuery, NoResults, NoPane, Dialogs
  <2>2. Mounted(FirstNav(deep)) \in [chat: MaybeChat, state: {"none", "loading", "ready", "failed"}]
    BY <2>1, ShellFields DEF Mounted, NoPane, MaybeChat
  <2>3. /\ nav \in Shells /\ nav.list = <<>> /\ nav.sent = <<>> /\ nav.prompt = 0 /\ nav.typed = 0
        /\ nav.results.query = NoQuery
    BY <1>1, <2>1, <2>2 DEF Shells
  <2>4. ToSet(<<>>) = {}
    BY DEF ToSet
  <2> QED
    BY <2>3, <2>4 DEF ShellOK, Once, Spent
<1>3. NavServerOK
  <2>1. PICK order \in SetToAllKPermutations(ListedChats) :
          changed = [c \in ListedChats |->
                        IF c \in ToSet(order) THEN CHOOSE t \in DOMAIN order : order[t] = c ELSE 0]
    BY DEF InitNavigation
  <2>2. PICK s \in SUBSET ListedChats : order \in [1..Cardinality(s) -> s]
    BY DEF SetToAllKPermutations, SetToSeqs
  <2>3. Cardinality(s) \in Nat
    BY FS_Subset, FS_CardinalityType, NavigationAssumption
  <2>4. ASSUME NEW c \in ListedChats
        PROVE  changed[c] \in Nat /\ (changed[c] > 0 => changed[c] \in DOMAIN order /\ order[changed[c]] = c)
    <3>1. CASE c \in ToSet(order)
      <4>1. \E t \in DOMAIN order : order[t] = c
        BY <3>1 DEF ToSet
      <4>2. changed[c] \in DOMAIN order /\ order[changed[c]] = c
        BY <2>1, <3>1, <4>1
      <4> QED
        BY <2>2, <2>3, <4>2
    <3>2. CASE c \notin ToSet(order)
      BY <2>1, <3>2
    <3> QED
      BY <3>1, <3>2
  <2>5. DOMAIN changed = ListedChats /\ changed \in [ListedChats -> Nat]
    BY <2>1, <2>4
  <2>6. blank = {} /\ visited \subseteq ListedChats
    BY NavigationAssumption DEF InitNavigation
  <2> QED
    BY <2>4, <2>5, <2>6 DEF NavServerOK, StoredOK, TimesDiffer
<1> DEFINE P == [Param EXCEPT !.then = "first"]
           asks == <<ListOf("first")>>
<1>4. P \in NavParams /\ P.list = <<>> /\ "page" \in NavNames
  BY ParamTyped DEF NavNames
<1>5. asks = <<Ask("page", TRUE, P)>> /\ net = Sent(asks, <<1>>)
  BY DEF ListOf, InitNavigation
<1> HIDE DEF P, asks
<1>6. UnderWay(NavNames, NavParams) /\ \A r \in net : r.op = "page" /\ r.arg = P /\ r.got = P
  <2>1. task \in Tasks /\ clicks = 0 /\ faults = 0
    BY DEF InitRequests
  <2>2. asks \in Seq(AsksFor(NavNames, NavParams)) /\ Len(asks) = 1 /\ Single(asks, "page", P)
    BY <1>4, <1>5, OneAsk
  <2>3. net = Sent(asks, <<1>>)
    BY <1>5
  <2> QED
    BY <1>4, <2>1, <2>2, <2>3, FirstRequest
<1>7. Once(<<>>)
  BY ParamTyped
<1> QED
  BY <1>2, <1>3, <1>4, <1>6, <1>7 DEF NavInv

(* What the properties say of the shell. *)
LEMMA NavPromises ==
    ASSUME NavInv
    PROVE  /\ TypeOKRequests /\ TypeOKNavigation
           /\ \A i, j \in DOMAIN nav.list : nav.list[i] = nav.list[j] => i = j
           /\ \A i, j \in DOMAIN nav.sent : nav.sent[i] = nav.sent[j] => i = j
           /\ nav.results.query # NoQuery => nav.results.query = nav.filter \/ nav.timer
<1>1. TypeOKRequests
  BY FieldsOfRequests DEF NavInv, UnderWay, TypeOKRequests
<1>2. TypeOKNavigation
  <2>1. nav \in Shells /\ Spent(nav) \subseteq 1..nav.typed
    BY DEF NavInv, ShellOK
  <2>2. ToSet(nav.sent) \subseteq 1..nav.typed /\ nav.prompt \in 0..nav.typed
    BY <2>1, ShellFields DEF Spent
  <2>3. nav.dialog.mode \in {"none", "rename", "delete"} /\ nav.dialog.chat \in MaybeChat /\ nav.dialog.busy \in BOOLEAN
    <3>1. nav.dialog \in Dialogs
      BY <2>1, ShellFields
    <3>2. CASE nav.dialog = NoDialog
      BY <3>2 DEF NoDialog, MaybeChat
    <3>3. CASE nav.dialog # NoDialog
      BY <3>1, <3>3 DEF Dialogs
    <3> QED
      BY <3>2, <3>3
  <2> QED
    BY <2>1, <2>2, <2>3, ShellFields DEF NavInv, NavServerOK, StoredOK, TypeOKNavigation, MaybeChat, MaybeQuery
<1> QED
  BY <1>1, <1>2 DEF NavInv, ShellOK, Once

-----------------------------------------------------------------------------
(* The chat about files. *)

FileNames == {"filestatus", "fileask"}
FileMessages == [ids: Selections, role: {"user", "assistant", "error"}]
FileParams == [number: Nat, ids: Selections, kind: {"answer", "error", "empty"}, history: Seq(FileMessages)]
FilePages ==
    [ids: Selections, files: Selections \cup {NoFiles}, number: Nat, loading: BOOLEAN, loaded: BOOLEAN,
     error: BOOLEAN, messages: Seq(FileMessages), input: BOOLEAN, busy: BOOLEAN]

(* A status that is newest was asked for the selection of the page. *)
StatusOf(r, p) ==
    r.op = "filestatus" => r.arg.number <= p.number /\ (r.arg.number = p.number => r.arg.ids = p.ids)

FileInv ==
    /\ UnderWay(FileNames, FileParams)
    /\ fileChat \in FilePages /\ fileChat.files \in {NoFiles, fileChat.ids}
    /\ \A r \in net : StatusOf(r, fileChat)

LEMMA FilePageFields ==
    ASSUME NEW p \in FilePages
    PROVE  /\ p.ids \in Selections /\ p.files \in Selections \cup {NoFiles} /\ p.number \in Nat /\ p.loading \in BOOLEAN
           /\ p.loaded \in BOOLEAN /\ p.error \in BOOLEAN /\ p.messages \in Seq(FileMessages) /\ p.input \in BOOLEAN
           /\ p.busy \in BOOLEAN
BY DEF FilePages

LEMMA FileNow ==
    ASSUME FileInv
    PROVE  /\ UnderWay(FileNames, FileParams) /\ fileChat \in FilePages
           /\ \A r \in net : /\ r \in RequestsFor(FileNames, FileParams) /\ r.op \in FileNames
                             /\ r.arg \in FileParams /\ r.got \in FileParams
                             /\ r.arg.ids \in Selections /\ r.arg.number \in Nat
<1>1. UnderWay(FileNames, FileParams) /\ fileChat \in FilePages /\ net \subseteq RequestsFor(FileNames, FileParams)
  BY DEF FileInv, UnderWay
<1>2. ASSUME NEW P \in FileParams
      PROVE  P.ids \in Selections /\ P.number \in Nat
  BY DEF FileParams
<1> QED
  BY <1>1, <1>2, FieldsOfRequests

LEMMA FileStatusStarted ==
    ASSUME NEW p \in FilePages
    PROVE  /\ FileStatusStarts(p) \in FilePages /\ FileStatusStarts(p).files = NoFiles
           /\ FileStatusStarts(p).number = p.number + 1 /\ FileStatusStarts(p).ids = p.ids
<1> DEFINE q == FileStatusStarts(p)
           number == p.number + 1
           loading == p.ids # 0
           loaded == p.ids = 0
<1>1. number \in Nat /\ loading \in BOOLEAN /\ loaded \in BOOLEAN
  BY FilePageFields
<1>2. q = [p EXCEPT !.number = number, !.files = NoFiles, !.error = FALSE, !.loading = loading, !.loaded = loaded]
  BY DEF FileStatusStarts, FilePages
<1> HIDE DEF q, number, loading, loaded
<1>3. q \in FilePages /\ q.files = NoFiles /\ q.number = number /\ q.ids = p.ids
  BY <1>1, <1>2 DEF FilePages
<1> QED
  BY <1>3 DEF q, number

LEMMA FileStatusWish ==
    ASSUME NEW p \in FilePages, NEW P, P = [FileWish EXCEPT !.number = p.number + 1, !.ids = p.ids]
    PROVE  P \in FileParams /\ P.number = p.number + 1 /\ P.ids = p.ids
<1>1. p.number + 1 \in Nat /\ p.ids \in Selections /\ <<>> \in Seq(FileMessages)
  BY FilePageFields
<1> QED
  BY <1>1 DEF FileParams, FileWish

(* A step that keeps the number and the selection, and asks for no status. *)
LEMMA FileStepsOn ==
    ASSUME FileInv, NEW done, NEW asks \in Seq(AsksFor(FileNames, FileParams)), Exchange(done, asks),
           task' = task, clicks' \in 0..task.clicks, faults' = faults,
           fileChat' \in FilePages, fileChat'.files \in {NoFiles, fileChat'.ids},
           fileChat'.number = fileChat.number, fileChat'.ids = fileChat.ids,
           \A i \in DOMAIN asks : asks[i].op # "filestatus"
    PROVE  FileInv'
<1>1. /\ UnderWay(FileNames, FileParams)'
      /\ \A r \in net' : (r \in net /\ r \notin done) \/ (r \notin net /\ \E i \in DOMAIN asks : SentFor(r, asks[i]))
  BY Exchanged DEF FileInv
<1>2. \A r \in net' : StatusOf(r, fileChat')
  BY <1>1 DEF FileInv, StatusOf, SentFor
<1> QED
  BY <1>1, <1>2 DEF FileInv

(* A status is asked for, under the next number. *)
LEMMA FileStatusIsAsked ==
    ASSUME FileInv, NEW p \in FilePages, p.number = fileChat.number, fileChat' = FileStatusStarts(p),
           NEW act, Click(act, FileStatusAsks(p))
    PROVE  FileInv'
<1>0. UnderWay(FileNames, FileParams) /\ fileChat \in FilePages
  BY FileNow
<1>1. /\ fileChat' \in FilePages /\ fileChat'.files = NoFiles /\ fileChat'.number = p.number + 1 /\ fileChat'.ids = p.ids
  BY FileStatusStarted
<1> DEFINE asks == FileStatusAsks(p)
           P == [FileWish EXCEPT !.number = p.number + 1, !.ids = p.ids]
<1>2. P \in FileParams /\ P.number = p.number + 1 /\ P.ids = p.ids
  BY FileStatusWish
<1>3. \/ asks = <<>>
      \/ asks = <<Ask("filestatus", FALSE, P)>>
  BY DEF FileStatusAsks
<1>4. Click(act, asks)
  OBVIOUS
<1> HIDE DEF asks, P
<1>5. "filestatus" \in FileNames
  BY DEF FileNames
<1>6. asks \in Seq(AsksFor(FileNames, FileParams)) /\ Single(asks, "filestatus", P)
  <2>1. CASE asks = <<>>
    BY <2>1 DEF Single
  <2>2. CASE asks = <<Ask("filestatus", FALSE, P)>>
    BY <1>2, <1>5, <2>2, OneAsk
  <2> QED
    BY <1>3, <2>1, <2>2
<1>7. Exchange({}, asks) /\ task' = task /\ clicks' \in 0..task.clicks /\ faults' = faults
  BY <1>0, <1>4, Clicked1
<1>8. /\ UnderWay(FileNames, FileParams)'
      /\ \A r \in net' : r \in net \/ \E i \in DOMAIN asks : SentFor(r, asks[i])
  BY <1>0, <1>6, <1>7, Exchanged
<1>9. ASSUME NEW r \in net'
      PROVE  StatusOf(r, fileChat')
  <2>1. fileChat.number \in Nat
    BY <1>0, FilePageFields
  <2>2. CASE r \in net
    <3>1. r.op = "filestatus" => r.arg.number \in Nat /\ r.arg.number <= fileChat.number
      BY <2>2, FileNow DEF FileInv, StatusOf
    <3> QED
      BY <1>1, <2>1, <3>1 DEF StatusOf
  <2>3. ASSUME NEW a, Single(a, "filestatus", P), NEW i \in DOMAIN a, SentFor(r, a[i])
        PROVE  StatusOf(r, fileChat')
    BY <1>1, <1>2, <2>1, <2>3 DEF StatusOf, Single, SentFor
  <2> QED
    BY <1>6, <1>8, <2>2, <2>3
<1> QED
  BY <1>1, <1>8, <1>9 DEF FileInv

(* Every step of the page keeps the invariant. *)
LEMMA FileSteps ==
    ASSUME FileInv, NextFileChat
    PROVE  FileInv'
<1>0. /\ UnderWay(FileNames, FileParams) /\ fileChat \in FilePages /\ fileChat.files \in {NoFiles, fileChat.ids}
      /\ \A r \in net : /\ r \in RequestsFor(FileNames, FileParams) /\ r.op \in FileNames
                        /\ r.arg \in FileParams /\ r.got \in FileParams
                        /\ r.arg.ids \in Selections /\ r.arg.number \in Nat
  BY FileNow DEF FileInv
<1> DEFINE none == <<>>
<1>n. none \in Seq(AsksFor(FileNames, FileParams)) /\ \A i \in DOMAIN none : none[i].op # "filestatus"
  OBVIOUS
<1>1. CASE ServeFileChat
  <2>1. PICK r \in net :
          /\ r.state = "sent"
          /\ \/ Answered(r, r.arg)
             \/ r.op = "fileask" /\ \E k \in {"error", "empty"} : Answered(r, [r.arg EXCEPT !.kind = k])
    BY <1>1 DEF ServeFileChat
  <2>2. UNCHANGED <<fileChat, task, clicks, faults>>
    BY <1>1 DEF ServeFileChat
  <2>3. PICK got \in FileParams : Answered(r, got)
    <3>1. ASSUME NEW k \in {"error", "empty"}
          PROVE  [r.arg EXCEPT !.kind = k] \in FileParams
      BY <1>0 DEF FileParams
    <3> QED
      BY <1>0, <2>1, <3>1
  <2>4. /\ UnderWay(FileNames, FileParams)'
        /\ \A s \in net' : s \in net \/ (s.op = r.op /\ s.arg = r.arg)
    BY <1>0, <2>1, <2>2, <2>3, Served
  <2>5. \A s \in net' : StatusOf(s, fileChat')
    BY <2>2, <2>4 DEF FileInv, StatusOf
  <2> QED
    BY <1>0, <2>2, <2>4, <2>5 DEF FileInv
<1>2. CASE ReloadFiles
  BY <1>0, <1>2, FileStatusIsAsked DEF ReloadFiles
<1>3. CASE SelectFiles
  <2>1. PICK ids \in Selections :
          LET p == [fileChat EXCEPT !.ids = ids, !.messages = <<>>, !.input = FALSE]
          IN  fileChat' = FileStatusStarts(p) /\ Click("files", FileStatusAsks(p))
    BY <1>3 DEF SelectFiles
  <2> DEFINE p == [fileChat EXCEPT !.ids = ids, !.messages = <<>>, !.input = FALSE]
  <2>2. p \in FilePages /\ p.number = fileChat.number
    <3>1. <<>> \in Seq(FileMessages)
      OBVIOUS
    <3> QED
      BY <1>0, <3>1 DEF FilePages
  <2>3. fileChat' = FileStatusStarts(p) /\ Click("files", FileStatusAsks(p))
    BY <2>1
  <2> HIDE DEF p
  <2> QED
    BY <2>2, <2>3, FileStatusIsAsked
<1>4. CASE FileStatusBack
  <2>1. PICK r \in Back("filestatus") :
        /\ fileChat' = IF ~IsNewestStatus(fileChat, r) THEN fileChat
                       ELSE IF r.state = "failed" THEN [fileChat EXCEPT !.error = TRUE, !.loading = FALSE]
                       ELSE [fileChat EXCEPT !.loading = FALSE, !.loaded = TRUE,
                                !.files = IF r.arg.ids % 2 = 1 THEN r.arg.ids ELSE NoFiles]
        /\ React({r}, <<>>)
    BY <1>4 DEF FileStatusBack
  <2>2. r \in net /\ r.op = "filestatus" /\ StatusOf(r, fileChat)
    BY <2>1 DEF Back, Open, FileInv
  <2>3. /\ fileChat' \in FilePages /\ fileChat'.files \in {NoFiles, fileChat'.ids}
        /\ fileChat'.number = fileChat.number /\ fileChat'.ids = fileChat.ids
    <3>1. CASE IsNewestStatus(fileChat, r) /\ r.state # "failed"
      <4> DEFINE files == IF r.arg.ids % 2 = 1 THEN r.arg.ids ELSE NoFiles
      <4>1. files \in {NoFiles, fileChat.ids} /\ files \in Selections \cup {NoFiles}
        BY <1>0, <2>2, <3>1 DEF IsNewestStatus, StatusOf
      <4>2. fileChat' = [fileChat EXCEPT !.loading = FALSE, !.loaded = TRUE, !.files = files]
        BY <2>1, <3>1
      <4> HIDE DEF files
      <4> QED
        BY <1>0, <4>1, <4>2 DEF FilePages
    <3>2. CASE IsNewestStatus(fileChat, r) /\ r.state = "failed"
      BY <1>0, <2>1, <3>2 DEF FilePages
    <3>3. CASE ~IsNewestStatus(fileChat, r)
      BY <1>0, <2>1, <3>3
    <3> QED
      BY <3>1, <3>2, <3>3
  <2>4. React({r}, none)
    BY <2>1
  <2> HIDE DEF none
  <2>5. Exchange({r}, none) /\ task' = task /\ clicks' \in 0..task.clicks /\ faults' = faults
    BY <1>0, <2>4, Reacted
  <2> QED
    BY <1>n, <2>3, <2>5, FileStepsOn
<1>5. CASE TypeFileQuestion
  <2>1. fileChat' = [fileChat EXCEPT !.input = TRUE] /\ Click("question", none)
    BY <1>5 DEF TypeFileQuestion
  <2> HIDE DEF none
  <2>2. Exchange({}, none) /\ task' = task /\ clicks' \in 0..task.clicks /\ faults' = faults
    BY <1>0, <2>1, Clicked1
  <2>3. /\ fileChat' \in FilePages /\ fileChat'.files \in {NoFiles, fileChat'.ids}
        /\ fileChat'.number = fileChat.number /\ fileChat'.ids = fileChat.ids
    BY <1>0, <2>1 DEF FilePages
  <2> QED
    BY <1>n, <2>2, <2>3, FileStepsOn
<1>6. CASE AskFiles
  <2> DEFINE P == [FileWish EXCEPT !.ids = fileChat.ids, !.history = fileChat.messages]
             asks == <<Ask("fileask", FALSE, P)>>
  <2>1. /\ fileChat' = [fileChat EXCEPT !.busy = TRUE, !.input = FALSE, !.messages = Said(fileChat, "user")]
        /\ Click("question", asks)
    BY <1>6 DEF AskFiles
  <2>2. P \in FileParams /\ "fileask" \in FileNames
    BY <1>0, FilePageFields DEF FileParams, FileWish, FileNames
  <2>3. asks = <<Ask("fileask", FALSE, P)>>
    OBVIOUS
  <2> HIDE DEF asks, P
  <2>4. asks \in Seq(AsksFor(FileNames, FileParams)) /\ Single(asks, "fileask", P)
    BY <2>2, <2>3, OneAsk
  <2>5. ASSUME NEW a, Single(a, "fileask", P)
        PROVE  \A i \in DOMAIN a : a[i].op # "filestatus"
    BY <2>5 DEF Single
  <2>6. Exchange({}, asks) /\ task' = task /\ clicks' \in 0..task.clicks /\ faults' = faults
    BY <1>0, <2>1, Clicked1
  <2>7. Said(fileChat, "user") \in Seq(FileMessages)
    <3>1. [ids |-> fileChat.ids, role |-> "user"] \in FileMessages /\ fileChat.messages \in Seq(FileMessages)
      BY <1>0, FilePageFields DEF FileMessages
    <3> QED
      BY <3>1 DEF Said
  <2>8. /\ fileChat' \in FilePages /\ fileChat'.files \in {NoFiles, fileChat'.ids}
        /\ fileChat'.number = fileChat.number /\ fileChat'.ids = fileChat.ids
    BY <1>0, <2>1, <2>7 DEF FilePages
  <2>9. \A i \in DOMAIN asks : asks[i].op # "filestatus"
    BY <2>4, <2>5
  <2> QED
    BY <2>4, <2>6, <2>8, <2>9, FileStepsOn
<1>7. CASE FileAnswerBack
  <2>1. PICK r \in Back("fileask") :
        /\ fileChat' = [fileChat EXCEPT !.busy = FALSE,
              !.messages = Append(@, [ids |-> r.arg.ids,
                                      role |-> IF r.state = "answered" /\ r.got.kind = "answer" THEN "assistant" ELSE "error"])]
        /\ React({r}, none)
    BY <1>7 DEF FileAnswerBack
  <2>2. r \in net
    BY <2>1 DEF Back, Open
  <2> HIDE DEF none
  <2> DEFINE said == [ids |-> r.arg.ids,
                      role |-> IF r.state = "answered" /\ r.got.kind = "answer" THEN "assistant" ELSE "error"]
             messages == Append(fileChat.messages, said)
  <2>3. messages \in Seq(FileMessages)
    <3>1. said \in FileMessages /\ fileChat.messages \in Seq(FileMessages)
      BY <1>0, <2>2, FilePageFields DEF FileMessages
    <3> HIDE DEF said
    <3> QED
      BY <3>1
  <2>4. fileChat' = [fileChat EXCEPT !.busy = FALSE, !.messages = messages]
    BY <2>1
  <2> HIDE DEF messages
  <2>5. /\ fileChat' \in FilePages /\ fileChat'.files \in {NoFiles, fileChat'.ids}
        /\ fileChat'.number = fileChat.number /\ fileChat'.ids = fileChat.ids
    BY <1>0, <2>3, <2>4 DEF FilePages
  <2>6. Exchange({r}, none) /\ task' = task /\ clicks' \in 0..task.clicks /\ faults' = faults
    BY <1>0, <2>1, Reacted
  <2> QED
    BY <1>n, <2>5, <2>6, FileStepsOn
<1> QED
  BY <1>1, <1>2, <1>3, <1>4, <1>5, <1>6, <1>7 DEF NextFileChat

LEMMA FileAttemptFails ==
    ASSUME FileInv, FailAttempt, UNCHANGED fileChatVars
    PROVE  FileInv'
<1>1. fileChat' = fileChat
  BY DEF fileChatVars
<1>2. /\ UnderWay(FileNames, FileParams)'
      /\ \A s \in net' : s \in net \/ \E r \in net : s.op = r.op /\ s.arg = r.arg
  BY FileNow, AttemptFailed
<1>3. \A r \in net' : StatusOf(r, fileChat')
  BY <1>1, <1>2 DEF FileInv, StatusOf
<1> QED
  BY <1>1, <1>2, <1>3 DEF FileInv

LEMMA FileStarts ==
    ASSUME InitRequests("filechat"), InitFileChat
    PROVE  FileInv
<1>1. PICK ids \in Selections :
        LET p == [EmptyFileChat EXCEPT !.ids = ids]
        IN  fileChat = FileStatusStarts(p) /\ net = Sent(FileStatusAsks(p), [i \in DOMAIN FileStatusAsks(p) |-> i])
  BY DEF InitFileChat
<1> DEFINE p == [EmptyFileChat EXCEPT !.ids = ids]
           asks == FileStatusAsks(p)
           P == [FileWish EXCEPT !.number = p.number + 1, !.ids = p.ids]
           numbers == [i \in DOMAIN asks |-> i]
<1>2. p \in FilePages /\ p.number = 0 /\ p.ids = ids
  <2>1. <<>> \in Seq(FileMessages)
    OBVIOUS
  <2> QED
    BY <2>1 DEF EmptyFileChat, FilePages
<1>3. fileChat = FileStatusStarts(p) /\ net = Sent(asks, numbers)
  BY <1>1
<1>4. asks = <<>> \/ asks = <<Ask("filestatus", FALSE, P)>>
  BY DEF FileStatusAsks
<1> HIDE DEF p
<1>5. P \in FileParams /\ P.number = p.number + 1 /\ P.ids = p.ids /\ "filestatus" \in FileNames
  BY <1>2, FileStatusWish DEF FileNames
<1>6. /\ fileChat \in FilePages /\ fileChat.files = NoFiles /\ fileChat.number = p.number + 1 /\ fileChat.ids = p.ids
  BY <1>2, <1>3, FileStatusStarted
<1> HIDE DEF P, asks
<1>7. asks \in Seq(AsksFor(FileNames, FileParams)) /\ Single(asks, "filestatus", P)
  <2>1. CASE asks = <<>>
    BY <2>1 DEF Single
  <2>2. CASE asks = <<Ask("filestatus", FALSE, P)>>
    BY <1>5, <2>2, OneAsk
  <2> QED
    BY <1>4, <2>1, <2>2
<1>8. numbers \in Seq(Nat \ {0}) /\ Len(numbers) = Len(asks) /\ \A i, j \in DOMAIN numbers : numbers[i] = numbers[j] => i = j
  <2>1. DOMAIN asks = 1..Len(asks) /\ Len(asks) \in Nat
    BY <1>7
  <2> QED
    BY <2>1
<1> HIDE DEF numbers
<1>9. /\ UnderWay(FileNames, FileParams)
      /\ \A r \in net : \E i \in DOMAIN asks : SentFor(r, asks[i])
  <2>1. task \in Tasks /\ clicks = 0 /\ faults = 0
    BY DEF InitRequests
  <2> QED
    BY <1>3, <1>7, <1>8, <2>1, FirstRequests
<1>a. \A r \in net : StatusOf(r, fileChat)
  BY <1>2, <1>5, <1>6, <1>7, <1>9 DEF StatusOf, Single, SentFor
<1> QED
  BY <1>6, <1>9, <1>a DEF FileInv

(* What the properties say of the page. *)
LEMMA FilePromises ==
    ASSUME FileInv
    PROVE  TypeOKRequests /\ TypeOKFileChat /\ fileChat.files \in {NoFiles, fileChat.ids}
<1>1. TypeOKRequests
  BY FieldsOfRequests DEF FileInv, UnderWay, TypeOKRequests
<1>2. ToSet(fileChat.messages) \subseteq FileMessages
  BY FilePageFields DEF FileInv, ToSet
<1> QED
  BY <1>1, <1>2, FilePageFields DEF FileInv, TypeOKFileChat, FileMessages, NoFiles

-----------------------------------------------------------------------------
(* The usage of the models. *)

MetricsNames == {"users", "usage", "prices", "pricing"}
MetricsParams ==
    [number: Nat, days: Periods \cup {0}, user: Subjects, background: BOOLEAN, save: BOOLEAN, prices: [Models -> Nat]]
Usages == [user: Subjects, days: Periods \cup {0}]
MetricsPages ==
    [days: Periods, user: Subjects, loading: BOOLEAN, error: BOOLEAN, of: Usages, number: Nat, checked: BOOLEAN,
     filter: BOOLEAN, prices: [Models -> Nat], loaded: BOOLEAN, saving: BOOLEAN, edited: SUBSET Models, csv: Usages]

(* A load that is newest was asked for the user and the period of the page;  *)
(* r is a request or what is asked.                                          *)
UsageOf(r, p) ==
    r.op \in {"users", "usage"} =>
        /\ r.arg.number <= p.number
        /\ r.arg.number = p.number => r.arg.days = p.days /\ (r.op = "usage" => r.arg.user = p.user)

UsageIsShown(p) == ~p.loading /\ ~p.error => p.of = [user |-> p.user, days |-> p.days]

(* The prices are the stored ones, but for the models that were edited. *)
Agree(prices, edited) == \A m \in Models \ edited : prices[m] = rates[m]

PagePrices(p) ==
    /\ ~p.error
    /\ p.loaded => Agree(p.prices, p.edited)
    /\ p.of.user = "me" /\ p.of.days # 0 => p.loaded

SentPrices(r, p) ==
    /\ r.op = "prices" /\ r.state = "answered" => Agree(r.got.prices, p.edited)
    /\ r.op = "pricing" => Agree(r.arg.prices, p.edited)
    /\ r.state = "failed" => r.op = "users"

(* The newest usage of the user brings the prices, unless they came before. *)
PricesCome(rs, p) ==
    \A r \in rs : r.op = "usage" /\ r.arg.user = "me" /\ r.arg.number = p.number =>
        p.loaded \/ \E q \in rs : q.op = "prices" /\ q.arg.number = p.number

MetricsInv ==
    /\ UnderWay(MetricsNames, MetricsParams)
    /\ metrics \in MetricsPages /\ rates \in [Models -> Nat]
    /\ \A r \in net : UsageOf(r, metrics)
    /\ UsageIsShown(metrics)
    /\ faults = 0 => PagePrices(metrics) /\ PricesCome(net, metrics) /\ \A r \in net : SentPrices(r, metrics)

LEMMA MetricsFields ==
    ASSUME NEW p \in MetricsPages
    PROVE  /\ p.days \in Periods /\ p.user \in Subjects /\ p.loading \in BOOLEAN /\ p.error \in BOOLEAN /\ p.of \in Usages
           /\ p.number \in Nat /\ p.checked \in BOOLEAN /\ p.filter \in BOOLEAN /\ p.prices \in [Models -> Nat]
           /\ p.loaded \in BOOLEAN /\ p.saving \in BOOLEAN /\ p.edited \in SUBSET Models /\ p.csv \in Usages
BY DEF MetricsPages

LEMMA MetricsParamFields ==
    ASSUME NEW a \in MetricsParams
    PROVE  /\ a.number \in Nat /\ a.days \in Periods \cup {0} /\ a.user \in Subjects /\ a.background \in BOOLEAN
           /\ a.save \in BOOLEAN /\ a.prices \in [Models -> Nat]
BY DEF MetricsParams

LEMMA MetricsNow ==
    ASSUME MetricsInv
    PROVE  /\ UnderWay(MetricsNames, MetricsParams) /\ metrics \in MetricsPages /\ rates \in [Models -> Nat]
           /\ \A r \in net : /\ r \in RequestsFor(MetricsNames, MetricsParams) /\ r.op \in MetricsNames
                             /\ r.arg \in MetricsParams /\ r.got \in MetricsParams
                             /\ r.state \in {"sent", "answered", "failed"} /\ r.arg.number \in Nat
<1>1. /\ UnderWay(MetricsNames, MetricsParams) /\ metrics \in MetricsPages /\ rates \in [Models -> Nat]
      /\ net \subseteq RequestsFor(MetricsNames, MetricsParams)
  BY DEF MetricsInv, UnderWay
<1> QED
  BY <1>1, FieldsOfRequests, MetricsParamFields

(* A step of the page: its requests are exchanged. *)
LEMMA MetricsMoves ==
    ASSUME MetricsInv, NEW done, NEW asks \in Seq(AsksFor(MetricsNames, MetricsParams)), Exchange(done, asks),
           task' = task, clicks' \in 0..task.clicks, faults' = faults,
           metrics' \in MetricsPages, rates' = rates, metrics.edited \subseteq metrics'.edited,
           \A r \in net : r \notin done => UsageOf(r, metrics'),
           \A i \in DOMAIN asks : UsageOf(asks[i], metrics'),
           UsageIsShown(metrics'),
           faults = 0 =>
              /\ PagePrices(metrics')
              /\ \A i \in DOMAIN asks : asks[i].op = "pricing" => Agree(asks[i].arg.prices, metrics'.edited)
              /\ PricesCome(net', metrics')
    PROVE  MetricsInv'
<1>1. /\ UnderWay(MetricsNames, MetricsParams)'
      /\ \A r \in net' : (r \in net /\ r \notin done) \/ (r \notin net /\ \E i \in DOMAIN asks : SentFor(r, asks[i]))
  BY Exchanged DEF MetricsInv
<1>2. \A r \in net' : UsageOf(r, metrics')
  BY <1>1 DEF UsageOf, SentFor
<1>3. ASSUME faults = 0, NEW r \in net'
      PROVE  SentPrices(r, metrics')
  BY <1>1, <1>3 DEF MetricsInv, SentPrices, SentFor, Agree
<1> QED
  BY <1>1, <1>2, <1>3 DEF MetricsInv, PagePrices, SentPrices, Agree, PricesCome, UsageOf, UsageIsShown

(* What a load asks for. *)
LEMMA UsageAsked ==
    ASSUME NEW p \in MetricsPages, NEW wish \in MetricsParams, NEW asks, asks = UsageAsks(p, wish)
    PROVE  /\ asks \in Seq(AsksFor(MetricsNames, MetricsParams))
           /\ \A i \in DOMAIN asks :
                 /\ asks[i].op \in {"usage", "prices"} /\ asks[i].arg.number = wish.number /\ asks[i].arg.days = wish.days
                 /\ asks[i].op = "usage" => asks[i].arg.user = p.user
           /\ p.loaded \/ p.user = "other" \/ \E i \in DOMAIN asks : asks[i].op = "prices"
<1> DEFINE P == [wish EXCEPT !.user = p.user]
           a == Ask("usage", TRUE, P)
           b == Ask("prices", TRUE, wish)
<1>1. P \in MetricsParams /\ P.number = wish.number /\ P.days = wish.days /\ P.user = p.user
  BY MetricsFields DEF MetricsParams
<1>2. asks = <<a>> \o IF p.user = "other" \/ p.loaded THEN <<>> ELSE <<b>>
  BY DEF UsageAsks
<1> HIDE DEF P
<1>3. /\ a \in AsksFor(MetricsNames, MetricsParams) /\ a.op = "usage" /\ a.arg = P
      /\ b \in AsksFor(MetricsNames, MetricsParams) /\ b.op = "prices" /\ b.arg = wish
  BY <1>1 DEF Ask, AsksFor, MetricsNames
<1> HIDE DEF a, b
<1>4. CASE p.user = "other" \/ p.loaded
  <2>1. asks = <<a>> \o <<>>
    BY <1>2, <1>4
  <2>2. <<a>> \o <<>> = <<a>>
    BY <1>3
  <2>3. <<a>> \in Seq(AsksFor(MetricsNames, MetricsParams)) /\ DOMAIN <<a>> = {1} /\ <<a>>[1] = a
    BY <1>3
  <2> QED
    BY <1>1, <1>3, <1>4, <2>1, <2>2, <2>3
<1>5. CASE ~(p.user = "other" \/ p.loaded)
  <2>1. asks = <<a>> \o <<b>>
    BY <1>2, <1>5
  <2> DEFINE both == <<a>> \o <<b>>
  <2>2. /\ both \in Seq(AsksFor(MetricsNames, MetricsParams)) /\ Len(both) = 2 /\ both[1] = a /\ both[2] = b
    BY <1>3
  <2> HIDE DEF both
  <2>3. DOMAIN both = 1..2 /\ \A i \in 1..2 : i = 1 \/ i = 2
    BY <2>2
  <2>4. 2 \in DOMAIN both
    BY <2>3
  <2> QED
    BY <1>1, <1>3, <2>1, <2>2, <2>3, <2>4 DEF both
<1> QED
  BY <1>4, <1>5

(* A load begins, under the next number.                                     *)
LEMMA LoadBegins ==
    ASSUME MetricsInv, NEW done, NEW p \in MetricsPages, NEW wish \in MetricsParams,
           p.number = metrics.number, p.prices = metrics.prices, p.edited = metrics.edited, p.loaded = metrics.loaded,
           p.of = metrics.of, p.error = metrics.error, p.loading = metrics.loading,
           wish.number = p.number + 1, wish.days \in Periods,
           wish.background => ~p.loading /\ p.user = metrics.user /\ wish.days = metrics.days,
           metrics' = LoadStarts(p, wish), rates' = rates,
           Exchange(done, UsageAsks(p, wish)), task' = task, clicks' \in 0..task.clicks, faults' = faults
    PROVE  MetricsInv'
<1>0. /\ UnderWay(MetricsNames, MetricsParams) /\ metrics \in MetricsPages
      /\ \A r \in net : r.arg.number \in Nat
  BY MetricsNow
<1> DEFINE asks == UsageAsks(p, wish)
           loading == ~wish.background \/ p.loading
           error == wish.background /\ p.error
           number == p.number + 1
           q == [p EXCEPT !.number = number, !.days = wish.days, !.loading = loading, !.error = error]
<1>1. /\ asks \in Seq(AsksFor(MetricsNames, MetricsParams))
      /\ \A i \in DOMAIN asks :
            /\ asks[i].op \in {"usage", "prices"} /\ asks[i].arg.number = wish.number /\ asks[i].arg.days = wish.days
            /\ asks[i].op = "usage" => asks[i].arg.user = p.user
      /\ p.loaded \/ p.user = "other" \/ \E i \in DOMAIN asks : asks[i].op = "prices"
  BY UsageAsked
<1>2. Exchange(done, asks)
  OBVIOUS
<1> HIDE DEF asks
<1>3. metrics' = q
  BY DEF LoadStarts, MetricsPages
<1>4. loading \in BOOLEAN /\ error \in BOOLEAN /\ number \in Nat
  BY MetricsFields, MetricsParamFields
<1>a. (~loading => wish.background /\ ~p.loading) /\ (error <=> wish.background /\ p.error)
  BY MetricsFields, MetricsParamFields
<1>b. number = p.number + 1
  OBVIOUS
<1> HIDE DEF loading, error, number
<1>5. /\ metrics' \in MetricsPages /\ metrics'.number = number /\ metrics'.days = wish.days /\ metrics'.user = p.user
      /\ metrics'.loading = loading /\ metrics'.error = error /\ metrics'.of = p.of /\ metrics'.prices = p.prices
      /\ metrics'.edited = p.edited /\ metrics'.loaded = p.loaded
  BY <1>3, <1>4 DEF MetricsPages
<1> HIDE DEF q
<1>6. \A r \in net : UsageOf(r, metrics')
  <2>1. metrics.number \in Nat
    BY <1>0, MetricsFields
  <2> QED
    BY <1>0, <1>b, <1>5, <2>1 DEF MetricsInv, UsageOf
<1>7. \A i \in DOMAIN asks : UsageOf(asks[i], metrics')
  BY <1>1, <1>4, <1>b, <1>5 DEF UsageOf
<1>8. UsageIsShown(metrics')
  <2> SUFFICES ASSUME ~loading, ~error
               PROVE  p.of = [user |-> p.user, days |-> wish.days]
    BY <1>5 DEF UsageIsShown
  <2>1. wish.background /\ ~metrics.loading /\ ~metrics.error /\ p.user = metrics.user /\ wish.days = metrics.days
    BY <1>a
  <2> QED
    BY <2>1 DEF MetricsInv, UsageIsShown
<1>9. ASSUME faults = 0
      PROVE  /\ PagePrices(metrics')
             /\ \A i \in DOMAIN asks : asks[i].op = "pricing" => Agree(asks[i].arg.prices, metrics'.edited)
             /\ PricesCome(net', metrics')
  <2>1. PagePrices(metrics')
    BY <1>9, <1>a, <1>5 DEF MetricsInv, PagePrices, Agree
  <2>2. PricesCome(net', metrics')
    <3> SUFFICES ASSUME NEW r \in net', r.op = "usage", r.arg.user = "me", r.arg.number = number
                 PROVE  p.loaded \/ \E s \in net' : s.op = "prices" /\ s.arg.number = number
      BY <1>5 DEF PricesCome
    <3>1. /\ \A s \in net' : (s \in net /\ s \notin done) \/ (s \notin net /\ \E i \in DOMAIN asks : SentFor(s, asks[i]))
          /\ \A i \in DOMAIN asks : \E s \in net' : SentFor(s, asks[i])
      BY <1>1, <1>2, Exchanged DEF MetricsInv
    <3>2. r \notin net
      <4>1. metrics.number \in Nat
        BY <1>0, MetricsFields
      <4> QED
        BY <1>0, <1>b, <4>1 DEF MetricsInv, UsageOf
    <3>3. p.user = "me"
      BY <1>1, <3>1, <3>2 DEF SentFor
    <3> QED
      BY <1>1, <1>b, <3>1, <3>3 DEF SentFor
  <2> QED
    BY <1>1, <2>1, <2>2
<1>c. metrics.edited \subseteq metrics'.edited
  BY <1>5
<1> QED
  BY <1>1, <1>2, <1>5, <1>6, <1>7, <1>8, <1>9, <1>c, MetricsMoves

LEMMA MetricsWishes ==
    ASSUME NEW p \in MetricsPages, NEW d \in Periods
    PROVE  /\ LET wish == Numbered(p, [MetricsWish EXCEPT !.days = d])
              IN  wish \in MetricsParams /\ wish.number = p.number + 1 /\ wish.days = d /\ ~wish.background
           /\ LET wish == Numbered(p, [MetricsWish EXCEPT !.days = d, !.background = TRUE])
              IN  wish \in MetricsParams /\ wish.number = p.number + 1 /\ wish.days = d
           /\ LET wish == Numbered(p, [MetricsWish EXCEPT !.days = d, !.background = TRUE, !.save = TRUE])
              IN  wish \in MetricsParams /\ wish.number = p.number + 1 /\ wish.days = d
<1>1. p.number + 1 \in Nat /\ d \in Periods \cup {0} /\ "me" \in Subjects /\ [m \in Models |-> 0] \in [Models -> Nat]
  BY MetricsFields DEF Subjects
<1> QED
  BY <1>1 DEF MetricsParams, MetricsWish, Numbered

LEMMA ModelsAreUsed ==
    ASSUME NEW of
    PROVE  ModelsUsed(of) \subseteq Models
<1> DEFINE n == IF of.days = 7 THEN Cardinality(Models) - 1 ELSE Cardinality(Models)
<1>1. \E s \in SUBSET Models : Cardinality(s) = n
  <2>1. CASE of.days = 7
    <3>1. PICK m \in Models : TRUE
      BY MetricsAssumption
    <3>2. Cardinality(Models \ {m}) = Cardinality(Models) - 1
      BY MetricsAssumption, FS_RemoveElement
    <3> QED
      BY <2>1, <3>2
  <2>2. CASE of.days # 7
    BY <2>2
  <2> QED
    BY <2>1, <2>2
<1>2. ModelsUsed(of) = CHOOSE s \in SUBSET Models : Cardinality(s) = n
  BY DEF ModelsUsed
<1> HIDE DEF n
<1> QED
  BY <1>1, <1>2

LEMMA PeriodIsChosen ==
    ASSUME MetricsInv, ChoosePeriod
    PROVE  MetricsInv'
<1>0. UnderWay(MetricsNames, MetricsParams) /\ metrics \in MetricsPages
  BY MetricsNow
<1>1. PICK d \in Periods :
        LET wish == Numbered(metrics, [MetricsWish EXCEPT !.days = d])
        IN  MetricsClick("period", LoadStarts(metrics, wish), UsageAsks(metrics, wish))
  BY DEF ChoosePeriod
<1> DEFINE wish == Numbered(metrics, [MetricsWish EXCEPT !.days = d])
<1>2. wish \in MetricsParams /\ wish.number = metrics.number + 1 /\ wish.days = d /\ ~wish.background
  BY <1>0, MetricsWishes
<1>3. metrics' = LoadStarts(metrics, wish) /\ rates' = rates /\ Click("period", UsageAsks(metrics, wish))
  BY <1>1 DEF MetricsClick
<1> HIDE DEF wish
<1>4. Exchange({}, UsageAsks(metrics, wish)) /\ task' = task /\ clicks' \in 0..task.clicks /\ faults' = faults
  BY <1>0, <1>3, Clicked1
<1> QED
  BY <1>0, <1>2, <1>3, <1>4, LoadBegins

LEMMA UserIsChosen ==
    ASSUME MetricsInv, ChooseUser
    PROVE  MetricsInv'
<1>0. UnderWay(MetricsNames, MetricsParams) /\ metrics \in MetricsPages
  BY MetricsNow
<1>1. PICK u \in Subjects :
        LET p == [metrics EXCEPT !.user = u]
            wish == Numbered(p, [MetricsWish EXCEPT !.days = p.days])
        IN  MetricsClick("user", LoadStarts(p, wish), UsageAsks(p, wish))
  BY DEF ChooseUser
<1> DEFINE p == [metrics EXCEPT !.user = u]
           wish == Numbered(p, [MetricsWish EXCEPT !.days = p.days])
<1>2. /\ p \in MetricsPages /\ p.number = metrics.number /\ p.prices = metrics.prices /\ p.edited = metrics.edited
      /\ p.loaded = metrics.loaded /\ p.of = metrics.of /\ p.error = metrics.error /\ p.loading = metrics.loading
  BY <1>0 DEF MetricsPages
<1> HIDE DEF p
<1>3. wish \in MetricsParams /\ wish.number = p.number + 1 /\ wish.days \in Periods /\ ~wish.background
  BY <1>2, MetricsWishes, MetricsFields
<1>4. metrics' = LoadStarts(p, wish) /\ rates' = rates /\ Click("user", UsageAsks(p, wish))
  BY <1>1 DEF MetricsClick, p
<1> HIDE DEF wish
<1>5. Exchange({}, UsageAsks(p, wish)) /\ task' = task /\ clicks' \in 0..task.clicks /\ faults' = faults
  BY <1>0, <1>4, Clicked1
<1> QED
  BY <1>0, <1>2, <1>3, <1>4, <1>5, LoadBegins

LEMMA MetricsAreRefreshed ==
    ASSUME MetricsInv, RefreshMetrics
    PROVE  MetricsInv'
<1>0. UnderWay(MetricsNames, MetricsParams) /\ metrics \in MetricsPages
  BY MetricsNow
<1> DEFINE wish == Numbered(metrics, [MetricsWish EXCEPT !.days = metrics.days, !.background = TRUE])
<1>2. wish \in MetricsParams /\ wish.number = metrics.number + 1 /\ wish.days = metrics.days /\ wish.days \in Periods
  BY <1>0, MetricsWishes, MetricsFields
<1>3. ~metrics.loading /\ metrics' = LoadStarts(metrics, wish) /\ rates' = rates /\ Click("refresh", UsageAsks(metrics, wish))
  BY DEF MetricsClick, RefreshMetrics
<1> HIDE DEF wish
<1>4. Exchange({}, UsageAsks(metrics, wish)) /\ task' = task /\ clicks' \in 0..task.clicks /\ faults' = faults
  BY <1>0, <1>3, Clicked1
<1> QED
  BY <1>0, <1>2, <1>3, <1>4, LoadBegins

(* The user list came: the usage is asked for, under the same number. *)
LEMMA UsersCame ==
    ASSUME MetricsInv, UserListBack
    PROVE  MetricsInv'
<1>0. /\ UnderWay(MetricsNames, MetricsParams) /\ metrics \in MetricsPages
      /\ \A r \in net : r.arg \in MetricsParams
  BY MetricsNow
<1>1. PICK r \in Back("users") :
        /\ metrics' = [metrics EXCEPT !.filter = r.state = "answered"]
        /\ React({r}, UsageAsks(metrics, r.arg))
  BY DEF UserListBack
<1>2. r \in net /\ r.op = "users" /\ rates' = rates
  BY DEF Back, Open, UserListBack
<1> DEFINE came == r.state = "answered"
           asks == UsageAsks(metrics, r.arg)
<1>3. came \in BOOLEAN /\ metrics' = [metrics EXCEPT !.filter = came]
  BY <1>1
<1> HIDE DEF came
<1>4. /\ metrics' \in MetricsPages /\ metrics'.number = metrics.number /\ metrics'.days = metrics.days
      /\ metrics'.user = metrics.user /\ metrics'.loading = metrics.loading /\ metrics'.error = metrics.error
      /\ metrics'.of = metrics.of /\ metrics'.prices = metrics.prices /\ metrics'.edited = metrics.edited
      /\ metrics'.loaded = metrics.loaded
  BY <1>0, <1>3 DEF MetricsPages
<1>5. /\ asks \in Seq(AsksFor(MetricsNames, MetricsParams))
      /\ \A i \in DOMAIN asks :
            /\ asks[i].op \in {"usage", "prices"} /\ asks[i].arg.number = r.arg.number /\ asks[i].arg.days = r.arg.days
            /\ asks[i].op = "usage" => asks[i].arg.user = metrics.user
      /\ metrics.loaded \/ metrics.user = "other" \/ \E i \in DOMAIN asks : asks[i].op = "prices"
  <2>1. r.arg \in MetricsParams /\ metrics \in MetricsPages
    BY <1>0, <1>2
  <2> QED
    BY <2>1, UsageAsked
<1>6. React({r}, asks)
  BY <1>1
<1> HIDE DEF asks
<1>7. Exchange({r}, asks) /\ task' = task /\ clicks' \in 0..task.clicks /\ faults' = faults
  BY <1>0, <1>6, Reacted
<1>8. (\A q \in net : UsageOf(q, metrics')) /\ UsageIsShown(metrics')
  BY <1>4 DEF MetricsInv, UsageOf, UsageIsShown
<1>9. \A i \in DOMAIN asks : UsageOf(asks[i], metrics')
  <2>1. UsageOf(r, metrics)
    BY <1>2 DEF MetricsInv
  <2> QED
    BY <1>2, <1>4, <1>5, <2>1 DEF UsageOf
<1>a. ASSUME faults = 0
      PROVE  PagePrices(metrics') /\ PricesCome(net', metrics')
  <2>1. PagePrices(metrics')
    BY <1>4, <1>a DEF MetricsInv, PagePrices, Agree
  <2>2. /\ \A s \in net' : s \in net \/ \E i \in DOMAIN asks : SentFor(s, asks[i])
        /\ \A s \in net \ {r} : s \in net'
        /\ \A i \in DOMAIN asks : \E s \in net' : SentFor(s, asks[i])
    BY <1>0, <1>5, <1>7, Exchanged
  <2>3. PricesCome(net', metrics')
    <3> SUFFICES ASSUME NEW s \in net', s.op = "usage", s.arg.user = "me", s.arg.number = metrics.number
                 PROVE  metrics.loaded \/ \E q \in net' : q.op = "prices" /\ q.arg.number = metrics.number
      BY <1>4 DEF PricesCome
    <3>1. CASE s \in net
      BY <1>2, <1>a, <2>2, <3>1 DEF MetricsInv, PricesCome
    <3>2. CASE \E i \in DOMAIN asks : SentFor(s, asks[i])
      BY <1>5, <2>2, <3>2 DEF SentFor
    <3> QED
      BY <2>2, <3>1, <3>2
  <2> QED
    BY <2>1, <2>3
<1> QED
  BY <1>2, <1>4, <1>5, <1>7, <1>8, <1>9, <1>a, MetricsMoves

(* A usage came.  What is not newest changes nothing that is shown; what is  *)
(* brings the prices that were asked for with it.                            *)
LEMMA UsageCame ==
    ASSUME MetricsInv, UsageBack
    PROVE  MetricsInv'
<1>0. /\ UnderWay(MetricsNames, MetricsParams) /\ metrics \in MetricsPages
      /\ \A r \in net : /\ r.arg \in MetricsParams /\ r.got \in MetricsParams /\ r.op \in MetricsNames
                        /\ r.state \in {"sent", "answered", "failed"}
  BY MetricsNow
<1>1. PICK r \in Back("usage") :
        LET asked == {q \in Open("prices") : q.arg.number = r.arg.number}
            p == IF ~IsNewestLoad(metrics, r) THEN metrics
                 ELSE IF r.state = "failed"
                 THEN [metrics EXCEPT !.error = TRUE, !.loading = @ /\ r.arg.background]
                 ELSE UsageShown(metrics, r, asked)
        IN  /\ r.state = "failed" \/ asked \subseteq Back("prices")
            /\ metrics' = IF r.arg.save THEN [p EXCEPT !.saving = FALSE] ELSE p
            /\ React({r} \cup asked, <<>>)
  BY DEF UsageBack
<1> DEFINE asked == {q \in Open("prices") : q.arg.number = r.arg.number}
           priced == {q \in asked : q.state = "answered"}
           loading == metrics.loading /\ r.arg.background
           of == [user |-> r.arg.user, days |-> r.arg.days]
           loaded == metrics.loaded \/ priced # {}
           prices == IF priced = {} THEN metrics.prices ELSE (CHOOSE q \in priced : TRUE).got.prices
           p == IF ~IsNewestLoad(metrics, r) THEN metrics
                ELSE IF r.state = "failed" THEN [metrics EXCEPT !.error = TRUE, !.loading = loading]
                ELSE [metrics EXCEPT !.of = of, !.error = FALSE, !.loaded = loaded, !.loading = loading, !.prices = prices]
           none == <<>>
<1>2. r \in net /\ r.op = "usage" /\ rates' = rates /\ UsageOf(r, metrics) /\ r.arg \in MetricsParams /\ r.state # "sent"
  BY <1>0 DEF Back, Open, UsageBack, MetricsInv
<1>3. /\ r.state = "failed" \/ asked \subseteq Back("prices")
      /\ metrics' = IF r.arg.save THEN [p EXCEPT !.saving = FALSE] ELSE p
      /\ React({r} \cup asked, none)
  BY <1>0, <1>1 DEF UsageShown, MetricsPages
<1>4. asked \subseteq net /\ priced \subseteq asked /\ \A q \in asked : q.op = "prices" /\ q.arg.number = r.arg.number
  BY DEF Open
<1>5. loading \in BOOLEAN /\ of \in Usages /\ loaded \in BOOLEAN /\ prices \in [Models -> Nat]
  <2>1. prices \in [Models -> Nat]
    BY <1>0, <1>4, MetricsFields, MetricsParamFields
  <2>2. loading \in BOOLEAN /\ loaded \in BOOLEAN
    BY <1>0, MetricsFields, MetricsParamFields
  <2>3. of \in Usages
    BY <1>2, MetricsParamFields DEF Usages
  <2> QED
    BY <2>1, <2>2, <2>3
<1>6. none \in Seq(AsksFor(MetricsNames, MetricsParams)) /\ DOMAIN none = {}
  OBVIOUS
<1>a. of.user = r.arg.user /\ of.days = r.arg.days
  OBVIOUS
<1>b. (loading => metrics.loading) /\ (loaded <=> metrics.loaded \/ priced # {})
  OBVIOUS
<1>c. /\ priced = {} => prices = metrics.prices
      /\ priced # {} => \E q \in priced : prices = q.got.prices
  OBVIOUS
<1>d. faults = 0 => priced = asked /\ r.state = "answered"
  <2>1. faults = 0 => \A q \in net : q.state = "failed" => q.op = "users"
    BY DEF MetricsInv, SentPrices
  <2>2. faults = 0 => r.state = "answered"
    BY <1>0, <1>2, <2>1
  <2>3. faults = 0 => asked \subseteq Back("prices")
    BY <1>3, <2>2
  <2>4. \A q \in asked : q.state \in {"sent", "answered", "failed"}
    BY <1>0, <1>4
  <2> QED
    BY <1>4, <2>1, <2>2, <2>3, <2>4 DEF Back
<1>e. priced = {q \in asked : q.state = "answered"}
  OBVIOUS
<1>f. \A q \in net : q.op = "prices" /\ q.arg.number = r.arg.number => q \in asked
  BY DEF Open
<1> HIDE DEF asked, none, loading, of, loaded, prices, priced
<1>7. /\ p \in MetricsPages /\ p.number = metrics.number /\ p.days = metrics.days /\ p.user = metrics.user
      /\ p.edited = metrics.edited
      /\ \/ /\ r.arg.number # metrics.number
            /\ p.loading = metrics.loading /\ p.error = metrics.error /\ p.of = metrics.of /\ p.loaded = metrics.loaded
            /\ p.prices = metrics.prices
         \/ /\ r.arg.number = metrics.number /\ r.state = "failed" /\ p.error /\ p.loaded = metrics.loaded
         \/ /\ r.arg.number = metrics.number /\ r.state # "failed" /\ ~p.error
            /\ p.of = of /\ p.loaded = loaded /\ p.prices = prices
  <2>1. CASE ~IsNewestLoad(metrics, r)
    BY <1>0, <2>1 DEF IsNewestLoad
  <2>2. CASE IsNewestLoad(metrics, r) /\ r.state = "failed"
    <3>1. p = [metrics EXCEPT !.error = TRUE, !.loading = loading]
      BY <2>2
    <3> HIDE DEF p
    <3> QED
      BY <1>0, <1>5, <2>2, <3>1 DEF IsNewestLoad, MetricsPages
  <2>3. CASE IsNewestLoad(metrics, r) /\ r.state # "failed"
    <3>1. p = [metrics EXCEPT !.of = of, !.error = FALSE, !.loaded = loaded, !.loading = loading, !.prices = prices]
      BY <2>3
    <3> HIDE DEF p
    <3> QED
      BY <1>0, <1>5, <2>3, <3>1 DEF IsNewestLoad, MetricsPages
  <2> QED
    BY <2>1, <2>2, <2>3
<1> HIDE DEF p
<1>8. /\ metrics' \in MetricsPages /\ metrics'.number = p.number /\ metrics'.days = p.days /\ metrics'.user = p.user
      /\ metrics'.edited = p.edited /\ metrics'.loading = p.loading /\ metrics'.error = p.error /\ metrics'.of = p.of
      /\ metrics'.loaded = p.loaded /\ metrics'.prices = p.prices
  <2>1. CASE r.arg.save
    <3>1. metrics' = [p EXCEPT !.saving = FALSE]
      BY <1>3, <2>1
    <3> QED
      BY <1>7, <3>1 DEF MetricsPages
  <2>2. CASE ~r.arg.save
    BY <1>3, <1>7, <2>2
  <2> QED
    BY <2>1, <2>2
<1>9. Exchange({r} \cup asked, none) /\ task' = task /\ clicks' \in 0..task.clicks /\ faults' = faults
  BY <1>0, <1>3, Reacted
<1>g. \A q \in net : UsageOf(q, metrics')
  BY <1>7, <1>8 DEF MetricsInv, UsageOf
<1>h. UsageIsShown(metrics')
  <2>1. r.arg.number = metrics.number => of = [user |-> metrics.user, days |-> metrics.days]
    BY <1>2 DEF UsageOf, of
  <2> QED
    BY <1>7, <1>8, <2>1 DEF MetricsInv, UsageIsShown
<1>i. ASSUME faults = 0
      PROVE  PagePrices(metrics') /\ PricesCome(net', metrics')
  <2>0. PagePrices(metrics) /\ PricesCome(net, metrics) /\ \A q \in net : SentPrices(q, metrics)
    BY <1>i DEF MetricsInv
  <2>1. r.arg.number = metrics.number /\ r.arg.user = "me" => loaded
    <3> SUFFICES ASSUME r.arg.number = metrics.number, r.arg.user = "me", ~metrics.loaded
                 PROVE  priced # {}
      BY <1>b
    <3>1. \E q \in net : q.op = "prices" /\ q.arg.number = metrics.number
      BY <1>2, <2>0 DEF PricesCome
    <3> QED
      BY <1>d, <1>f, <1>i, <3>1
  <2>2. r.arg.number = metrics.number /\ loaded => Agree(prices, metrics.edited)
    <3>1. \A q \in priced : Agree(q.got.prices, metrics.edited)
      BY <1>4, <1>e, <2>0 DEF SentPrices
    <3>2. priced = {} /\ loaded => Agree(metrics.prices, metrics.edited)
      BY <1>b, <2>0 DEF PagePrices
    <3> QED
      BY <1>c, <3>1, <3>2
  <2>3. PagePrices(metrics')
    BY <1>7, <1>8, <1>a, <1>d, <1>i, <2>0, <2>1, <2>2 DEF PagePrices, Agree
  <2>4. \A s \in net' : s \in net
    BY <1>0, <1>6, <1>9, Exchanged
  <2>5. \A s \in net : s \in {r} \cup asked \/ s \in net'
    BY <1>0, <1>6, <1>9, Exchanged
  <2>6. PricesCome(net', metrics')
    <3> SUFFICES ASSUME NEW s \in net', s.op = "usage", s.arg.user = "me", s.arg.number = metrics.number, ~metrics'.loaded
                 PROVE  \E q \in net' : q.op = "prices" /\ q.arg.number = metrics.number
      BY <1>7, <1>8 DEF PricesCome
    <3>1. ~metrics.loaded
      BY <1>7, <1>8, <1>b
    <3>2. PICK q \in net : q.op = "prices" /\ q.arg.number = metrics.number
      BY <2>0, <2>4, <3>1 DEF PricesCome
    <3>3. q \notin asked
      BY <1>4, <1>7, <1>8, <1>b, <1>d, <1>i, <3>2
    <3> QED
      BY <1>2, <2>5, <3>2, <3>3
  <2> QED
    BY <2>3, <2>6
<1> QED
  BY <1>2, <1>6, <1>7, <1>8, <1>9, <1>g, <1>h, <1>i, MetricsMoves

(* Steps that ask for no usage and keep what the page shows. *)
LEMMA MetricsStayOn ==
    ASSUME MetricsInv, NEW done, NEW asks \in Seq(AsksFor(MetricsNames, MetricsParams)), Exchange(done, asks),
           task' = task, clicks' \in 0..task.clicks, faults' = faults, rates' = rates,
           metrics' \in MetricsPages, metrics.edited \subseteq metrics'.edited,
           metrics'.number = metrics.number, metrics'.days = metrics.days, metrics'.user = metrics.user,
           metrics'.loading = metrics.loading, metrics'.error = metrics.error, metrics'.of = metrics.of,
           metrics'.loaded = metrics.loaded,
           \A m \in Models \ metrics'.edited : metrics'.prices[m] = metrics.prices[m],
           \A r \in done : r.op = "pricing",
           \A i \in DOMAIN asks : asks[i].op = "pricing" /\ (faults = 0 => Agree(asks[i].arg.prices, metrics'.edited))
    PROVE  MetricsInv'
<1>1. /\ \A r \in net : UsageOf(r, metrics')
      /\ \A i \in DOMAIN asks : UsageOf(asks[i], metrics')
      /\ UsageIsShown(metrics')
  BY DEF MetricsInv, UsageOf, UsageIsShown
<1>2. ASSUME faults = 0
      PROVE  PagePrices(metrics') /\ PricesCome(net', metrics')
  <2>1. PagePrices(metrics')
    BY <1>2 DEF MetricsInv, PagePrices, Agree
  <2>2. UnderWay(MetricsNames, MetricsParams)
    BY MetricsNow
  <2>3. /\ \A s \in net' : s \in net \/ \E i \in DOMAIN asks : SentFor(s, asks[i])
        /\ \A s \in net \ done : s \in net'
    BY <2>2, Exchanged
  <2>4. PricesCome(net', metrics')
    BY <1>2, <2>3 DEF MetricsInv, PricesCome, SentFor
  <2> QED
    BY <2>1, <2>4
<1> QED
  BY <1>1, <1>2, MetricsMoves

LEMMA PriceIsEdited ==
    ASSUME MetricsInv, EditPrice
    PROVE  MetricsInv'
<1>0. UnderWay(MetricsNames, MetricsParams) /\ metrics \in MetricsPages
  BY MetricsNow
<1>1. PICK m \in ModelsUsed(metrics.of), price \in {0, 2} :
        MetricsClick("price", [metrics EXCEPT !.prices[m] = price, !.edited = @ \cup {m}], <<>>)
  BY DEF EditPrice
<1> DEFINE none == <<>>
           prices == [metrics.prices EXCEPT ![m] = price]
           edited == metrics.edited \cup {m}
<1>2. m \in Models /\ prices \in [Models -> Nat] /\ edited \in SUBSET Models
  BY <1>0, ModelsAreUsed, MetricsFields
<1>3. metrics' = [metrics EXCEPT !.prices = prices, !.edited = edited] /\ rates' = rates /\ Click("price", none)
  BY <1>0, <1>1 DEF MetricsClick, MetricsPages
<1>4. none \in Seq(AsksFor(MetricsNames, MetricsParams)) /\ DOMAIN none = {}
  OBVIOUS
<1>5. metrics.edited \subseteq edited /\ \A k \in Models \ edited : prices[k] = metrics.prices[k]
  BY <1>0, MetricsFields
<1> HIDE DEF none, prices, edited
<1>6. /\ metrics' \in MetricsPages /\ metrics'.number = metrics.number /\ metrics'.days = metrics.days
      /\ metrics'.user = metrics.user /\ metrics'.loading = metrics.loading /\ metrics'.error = metrics.error
      /\ metrics'.of = metrics.of /\ metrics'.loaded = metrics.loaded /\ metrics'.edited = edited
      /\ metrics'.prices = prices
  BY <1>0, <1>2, <1>3 DEF MetricsPages
<1>7. Exchange({}, none) /\ task' = task /\ clicks' \in 0..task.clicks /\ faults' = faults
  BY <1>0, <1>3, Clicked1
<1> DEFINE done == {}
<1>8. Exchange(done, none) /\ \A r \in done : r.op = "pricing"
  BY <1>7
<1> HIDE DEF done
<1> QED
  BY <1>3, <1>4, <1>5, <1>6, <1>7, <1>8, MetricsStayOn

LEMMA PricesAreSaved ==
    ASSUME MetricsInv, SavePricing
    PROVE  MetricsInv'
<1>0. UnderWay(MetricsNames, MetricsParams) /\ metrics \in MetricsPages
  BY MetricsNow
<1> DEFINE P == [MetricsWish EXCEPT !.prices = metrics.prices]
           asks == <<Ask("pricing", FALSE, P)>>
           done == {}
<1>1. P \in MetricsParams /\ P.prices = metrics.prices
  <2>1. metrics.prices \in [Models -> Nat] /\ 0 \in Nat /\ 0 \in Periods \cup {0} /\ "me" \in Subjects
    BY <1>0, MetricsFields DEF Subjects
  <2> QED
    BY <2>1 DEF MetricsWish, MetricsParams
<1>2. metrics' = [metrics EXCEPT !.saving = TRUE] /\ rates' = rates /\ Click("save", asks)
  BY DEF SavePricing, MetricsClick
<1>3. asks = <<Ask("pricing", FALSE, P)>> /\ \A r \in done : r.op = "pricing"
  OBVIOUS
<1> HIDE DEF P, asks
<1>4. "pricing" \in MetricsNames
  BY DEF MetricsNames
<1>5. asks \in Seq(AsksFor(MetricsNames, MetricsParams)) /\ Single(asks, "pricing", P)
  BY <1>1, <1>3, <1>4, OneAsk
<1>6. /\ metrics' \in MetricsPages /\ metrics'.number = metrics.number /\ metrics'.days = metrics.days
      /\ metrics'.user = metrics.user /\ metrics'.loading = metrics.loading /\ metrics'.error = metrics.error
      /\ metrics'.of = metrics.of /\ metrics'.loaded = metrics.loaded /\ metrics'.edited = metrics.edited
      /\ metrics'.prices = metrics.prices
  BY <1>0, <1>2 DEF MetricsPages
<1>7. Exchange(done, asks) /\ task' = task /\ clicks' \in 0..task.clicks /\ faults' = faults
  BY <1>0, <1>2, Clicked1
<1>8. faults = 0 => Agree(P.prices, metrics'.edited)
  <2> SUFFICES ASSUME faults = 0
               PROVE  Agree(metrics.prices, metrics.edited)
    BY <1>1, <1>6
  <2>1. ~metrics.loading /\ metrics.of.days = metrics.days /\ metrics.user = "me"
    BY DEF SavePricing, PricesShown, HasCurrentData
  <2>2. metrics.of.user = "me" /\ metrics.of.days # 0
    <3>1. ~metrics.error
      BY DEF MetricsInv, PagePrices
    <3>2. metrics.of = [user |-> metrics.user, days |-> metrics.days]
      BY <2>1, <3>1 DEF MetricsInv, UsageIsShown
    <3>3. metrics.days # 0
      BY <1>0, MetricsFields DEF Periods
    <3> QED
      BY <2>1, <3>2, <3>3
  <2> QED
    BY <2>2 DEF MetricsInv, PagePrices
<1>9. \A i \in DOMAIN asks : asks[i].op = "pricing" /\ (faults = 0 => Agree(asks[i].arg.prices, metrics'.edited))
  BY <1>5, <1>8 DEF Single
<1> HIDE DEF done
<1> QED
  BY <1>2, <1>3, <1>5, <1>6, <1>7, <1>9, MetricsStayOn

LEMMA PricesWereSaved ==
    ASSUME MetricsInv, PricingSaved
    PROVE  MetricsInv'
<1>0. UnderWay(MetricsNames, MetricsParams) /\ metrics \in MetricsPages
  BY MetricsNow
<1> DEFINE wish == Numbered(metrics, [MetricsWish EXCEPT !.days = metrics.days, !.background = TRUE, !.save = TRUE])
           none == <<>>
<1>1. PICK r \in Back("pricing") :
        LET again == r.state = "answered" /\ ~metrics.loading /\ HasCurrentData(metrics)
        IN  /\ metrics' = IF again THEN LoadStarts(metrics, wish) ELSE [metrics EXCEPT !.saving = FALSE]
            /\ React({r}, IF again THEN UsageAsks(metrics, wish) ELSE none)
  BY DEF PricingSaved
<1>2. rates' = rates /\ r.op = "pricing" /\ wish \in MetricsParams /\ wish.number = metrics.number + 1
      /\ wish.days = metrics.days /\ wish.days \in Periods
  BY <1>0, MetricsWishes, MetricsFields DEF PricingSaved, Back, Open
<1>3. none \in Seq(AsksFor(MetricsNames, MetricsParams)) /\ DOMAIN none = {}
  OBVIOUS
<1> HIDE DEF wish, none
<1>4. CASE r.state = "answered" /\ ~metrics.loading /\ HasCurrentData(metrics)
  <2>1. metrics' = LoadStarts(metrics, wish) /\ React({r}, UsageAsks(metrics, wish))
    BY <1>1, <1>4
  <2>2. Exchange({r}, UsageAsks(metrics, wish)) /\ task' = task /\ clicks' \in 0..task.clicks /\ faults' = faults
    BY <1>0, <2>1, Reacted
  <2> QED
    BY <1>0, <1>2, <1>4, <2>1, <2>2, LoadBegins
<1>5. CASE ~(r.state = "answered" /\ ~metrics.loading /\ HasCurrentData(metrics))
  <2>1. metrics' = [metrics EXCEPT !.saving = FALSE] /\ React({r}, none)
    BY <1>1, <1>5
  <2>2. Exchange({r}, none) /\ task' = task /\ clicks' \in 0..task.clicks /\ faults' = faults
    BY <1>0, <2>1, Reacted
  <2>3. /\ metrics' \in MetricsPages /\ metrics'.number = metrics.number /\ metrics'.days = metrics.days
        /\ metrics'.user = metrics.user /\ metrics'.loading = metrics.loading /\ metrics'.error = metrics.error
        /\ metrics'.of = metrics.of /\ metrics'.loaded = metrics.loaded /\ metrics'.edited = metrics.edited
        /\ metrics'.prices = metrics.prices
    BY <1>0, <2>1 DEF MetricsPages
  <2> DEFINE done == {r}
  <2>4. Exchange(done, none) /\ \A q \in done : q.op = "pricing"
    BY <1>2, <2>2
  <2> HIDE DEF done
  <2> QED
    BY <1>2, <1>3, <2>2, <2>3, <2>4, MetricsStayOn
<1> QED
  BY <1>4, <1>5

LEMMA UsageIsDownloaded ==
    ASSUME MetricsInv, DownloadCsv
    PROVE  MetricsInv'
<1>0. UnderWay(MetricsNames, MetricsParams) /\ metrics \in MetricsPages
  BY MetricsNow
<1> DEFINE none == <<>>
           done == {}
<1>1. metrics' = [metrics EXCEPT !.csv = metrics.of] /\ rates' = rates /\ Click("csv", none)
  BY DEF DownloadCsv, MetricsClick
<1>2. none \in Seq(AsksFor(MetricsNames, MetricsParams)) /\ DOMAIN none = {} /\ \A q \in done : q.op = "pricing"
  OBVIOUS
<1> HIDE DEF none
<1>3. /\ metrics' \in MetricsPages /\ metrics'.number = metrics.number /\ metrics'.days = metrics.days
      /\ metrics'.user = metrics.user /\ metrics'.loading = metrics.loading /\ metrics'.error = metrics.error
      /\ metrics'.of = metrics.of /\ metrics'.loaded = metrics.loaded /\ metrics'.edited = metrics.edited
      /\ metrics'.prices = metrics.prices
  BY <1>0, <1>1 DEF MetricsPages
<1>4. Exchange(done, none) /\ task' = task /\ clicks' \in 0..task.clicks /\ faults' = faults
  BY <1>0, <1>1, Clicked1
<1> HIDE DEF done
<1> QED
  BY <1>1, <1>2, <1>3, <1>4, MetricsStayOn

(* The server answers.  What it stores agrees with what it replaces, but for *)
(* the models that were edited.                                              *)
LEMMA MetricsAreServed ==
    ASSUME MetricsInv, ServeMetrics
    PROVE  /\ MetricsInv'
           /\ faults = 0 => \A m \in Models \ metrics.edited : rates'[m] = rates[m]
<1>0. /\ UnderWay(MetricsNames, MetricsParams) /\ metrics \in MetricsPages /\ rates \in [Models -> Nat]
      /\ \A r \in net : r.arg \in MetricsParams /\ r.got \in MetricsParams /\ r.op \in MetricsNames
  BY MetricsNow
<1>1. PICK r \in net :
          /\ r.state = "sent"
          /\ rates' = IF r.op = "pricing" THEN r.arg.prices ELSE rates
          /\ \/ Answered(r, [r.arg EXCEPT !.prices = rates])
             \/ r.op = "users" /\ Refused(r)
  BY DEF ServeMetrics
<1>2. metrics' = metrics /\ task' = task /\ clicks' = clicks /\ faults' = faults
  BY DEF ServeMetrics
<1> DEFINE got == [r.arg EXCEPT !.prices = rates]
<1>3. got \in MetricsParams /\ got.prices = rates
  BY <1>0, <1>1 DEF MetricsParams
<1>4. rates' \in [Models -> Nat]
  BY <1>0, <1>1, MetricsParamFields
<1>5. faults = 0 => \A m \in Models \ metrics.edited : rates'[m] = rates[m]
  <2>1. faults = 0 /\ r.op = "pricing" => Agree(r.arg.prices, metrics.edited)
    BY <1>1 DEF MetricsInv, SentPrices
  <2> QED
    BY <1>1, <2>1 DEF Agree
<1>6. Answered(r, got) \/ (r.op = "users" /\ Refused(r))
  BY <1>1
<1> HIDE DEF got
<1>7. /\ UnderWay(MetricsNames, MetricsParams)'
      /\ \A s \in net' :
            \/ s \in net
            \/ /\ s.op = r.op /\ s.arg = r.arg /\ s.state \in {"answered", "failed"}
               /\ s.got = IF s.state = "answered" THEN got ELSE r.got
      /\ \A s \in net : s \in net' \/ \E q \in net' : q.op = s.op /\ q.arg = s.arg
  BY <1>0, <1>1, <1>2, <1>3, <1>6, Served
<1>8. \A s \in net' : s \in net \/ (s.state = "failed" => r.op = "users")
  <2>1. r \in RequestsFor(MetricsNames, MetricsParams)
    BY <1>0 DEF UnderWay
  <2>2. Answered(r, got) => \A s \in net' : s \in net \/ s.state = "answered"
    BY <2>1 DEF Answered, RequestsFor
  <2> QED
    BY <1>6, <2>2
<1>9. \A s \in net' : UsageOf(s, metrics)
  BY <1>7 DEF MetricsInv, UsageOf
<1>a. ASSUME faults = 0
      PROVE  PagePrices(metrics)' /\ PricesCome(net', metrics) /\ \A s \in net' : SentPrices(s, metrics)'
  <2>1. PagePrices(metrics) /\ PricesCome(net, metrics) /\ \A q \in net : SentPrices(q, metrics)
    BY <1>a DEF MetricsInv
  <2>2. PagePrices(metrics)'
    BY <1>2, <1>5, <1>a, <2>1 DEF PagePrices, Agree
  <2>3. PricesCome(net', metrics)
    BY <1>7, <2>1 DEF PricesCome
  <2>4. ASSUME NEW s \in net'
        PROVE  SentPrices(s, metrics)'
    <3>1. CASE s \in net
      <4>1. SentPrices(s, metrics)
        BY <2>1, <3>1
      <4> QED
        BY <1>2, <1>5, <1>a, <4>1 DEF SentPrices, Agree
    <3>2. CASE s \notin net
      <4>1. s.op = r.op /\ s.arg = r.arg /\ (s.state = "answered" => s.got = got) /\ (s.state = "failed" => s.op = "users")
        BY <1>7, <1>8, <3>2
      <4>2. SentPrices(r, metrics)
        BY <1>1, <2>1
      <4>3. s.op = "prices" /\ s.state = "answered" => Agree(s.got.prices, metrics.edited)'
        BY <1>2, <1>3, <1>5, <1>a, <4>1 DEF Agree
      <4>4. s.op = "pricing" => Agree(s.arg.prices, metrics.edited)'
        BY <1>2, <1>5, <1>a, <4>1, <4>2 DEF SentPrices, Agree
      <4> QED
        BY <1>2, <4>1, <4>3, <4>4 DEF SentPrices, Agree
    <3> QED
      BY <3>1, <3>2
  <2> QED
    BY <2>2, <2>3, <2>4
<1> QED
  BY <1>0, <1>2, <1>4, <1>5, <1>7, <1>9, <1>a DEF MetricsInv, PagePrices, PricesCome, SentPrices, Agree, UsageIsShown, UsageOf

LEMMA MetricsAttemptFails ==
    ASSUME MetricsInv, FailAttempt, UNCHANGED metricsVars
    PROVE  MetricsInv' /\ faults' # 0
<1>0. UnderWay(MetricsNames, MetricsParams) /\ metrics' = metrics /\ rates' = rates
  BY MetricsNow DEF metricsVars
<1>1. /\ UnderWay(MetricsNames, MetricsParams)' /\ faults' = faults + 1
      /\ \A s \in net' : s \in net \/ \E r \in net : s.op = r.op /\ s.arg = r.arg
  BY <1>0, AttemptFailed
<1>2. faults' # 0
  <2>1. faults \in Nat
    BY <1>0, TaskFields DEF UnderWay
  <2> QED
    BY <1>1, <2>1
<1>3. \A s \in net' : UsageOf(s, metrics)
  BY <1>1 DEF MetricsInv, UsageOf
<1> QED
  BY <1>0, <1>1, <1>2, <1>3 DEF MetricsInv, UsageIsShown, UsageOf

LEMMA MetricsStart ==
    ASSUME InitRequests("metrics"), InitMetrics
    PROVE  MetricsInv
<1> DEFINE zero == [m \in Models |-> 0]
           P == [MetricsWish EXCEPT !.number = 1, !.days = 30]
           asks == <<Ask("users", TRUE, P)>>
<1>1. task \in Tasks /\ clicks = 0 /\ faults = 0
  BY DEF InitRequests
<1>2. zero \in [Models -> Nat] /\ rates \in [Models -> Nat] /\ metrics = OpenedMetrics /\ net = Sent(asks, <<1>>)
  BY DEF InitMetrics
<1>3. /\ 30 \in Periods /\ 30 \in Periods \cup {0} /\ 0 \in Periods \cup {0} /\ "me" \in Subjects /\ 0 \in Nat /\ 1 \in Nat
      /\ {} \in SUBSET Models /\ "users" \in MetricsNames
  BY DEF Periods, Subjects, MetricsNames
<1>4. P \in MetricsParams /\ P.number = 1 /\ P.days = 30
  BY <1>2, <1>3 DEF MetricsParams, MetricsWish
<1>5. NoUsage \in Usages /\ NoUsage.days = 0
  BY <1>3 DEF NoUsage, Usages
<1>6. /\ metrics \in MetricsPages /\ metrics.number = 1 /\ metrics.days = 30 /\ metrics.loading /\ ~metrics.error /\ ~metrics.loaded
      /\ metrics.of = NoUsage
  BY <1>2, <1>3, <1>5 DEF MetricsPages, OpenedMetrics
<1>7. asks = <<Ask("users", TRUE, P)>>
  OBVIOUS
<1> HIDE DEF P, asks, zero
<1>8. asks \in Seq(AsksFor(MetricsNames, MetricsParams)) /\ Len(asks) = 1 /\ Single(asks, "users", P)
  BY <1>3, <1>4, <1>7, OneAsk
<1>9. /\ UnderWay(MetricsNames, MetricsParams)
      /\ \A r \in net : r.op = "users" /\ r.arg = P /\ r.state = "sent"
  BY <1>1, <1>2, <1>3, <1>4, <1>8, FirstRequest
<1>a. \A r \in net : UsageOf(r, metrics)
  BY <1>4, <1>6, <1>9 DEF UsageOf
<1>b. UsageIsShown(metrics)
  BY <1>6 DEF UsageIsShown
<1>c. PagePrices(metrics)
  BY <1>5, <1>6 DEF PagePrices
<1>d. PricesCome(net, metrics) /\ \A r \in net : SentPrices(r, metrics)
  BY <1>9 DEF PricesCome, SentPrices
<1> QED
  BY <1>2, <1>6, <1>9, <1>a, <1>b, <1>c, <1>d DEF MetricsInv

(* Every step of the page, and of its server. *)
LEMMA MetricsSteps ==
    ASSUME MetricsInv, NextMetrics
    PROVE  /\ MetricsInv'
           /\ task' = task
           /\ faults' = 0 => \A m \in Models : rates'[m] # rates[m] => m \in metrics.edited
<1>0. UnderWay(MetricsNames, MetricsParams)
  BY MetricsNow
<1>1. MetricsInv'
  BY MetricsAreServed, PeriodIsChosen, UserIsChosen, MetricsAreRefreshed, UsersCame, UsageCame, PriceIsEdited,
     PricesAreSaved, PricesWereSaved, UsageIsDownloaded DEF NextMetrics
<1>2. CASE ServeMetrics
  BY <1>1, <1>2, MetricsAreServed DEF ServeMetrics
<1>3. CASE \/ ChoosePeriod \/ ChooseUser \/ RefreshMetrics \/ UserListBack \/ UsageBack
           \/ EditPrice \/ SavePricing \/ PricingSaved \/ DownloadCsv
  <2>1. rates' = rates /\ task' = task
    BY <1>3 DEF ChoosePeriod, ChooseUser, RefreshMetrics, UserListBack, UsageBack, EditPrice, SavePricing, PricingSaved,
                DownloadCsv, MetricsClick, Click, React
  <2> QED
    BY <1>1, <2>1
<1> QED
  BY <1>2, <1>3 DEF NextMetrics

LEMMA MetricsPromises ==
    ASSUME MetricsInv
    PROVE  /\ TypeOKRequests /\ TypeOKMetrics
           /\ ~metrics.loading /\ ~metrics.error => metrics.of = [user |-> metrics.user, days |-> metrics.days]
<1>0. /\ UnderWay(MetricsNames, MetricsParams) /\ metrics \in MetricsPages /\ rates \in [Models -> Nat]
      /\ \A r \in net : r \in RequestsFor(MetricsNames, MetricsParams)
  BY MetricsNow
<1>1. TypeOKRequests
  BY <1>0, FieldsOfRequests DEF TypeOKRequests, UnderWay
<1>2. metrics.of.user \in Subjects /\ metrics.of.days \in Periods \cup {0}
  BY <1>0, MetricsFields DEF Usages
<1>3. TypeOKMetrics
  BY <1>0, <1>2, MetricsFields DEF TypeOKMetrics
<1> QED
  BY <1>1, <1>3 DEF MetricsInv, UsageIsShown

-----------------------------------------------------------------------------
(* The administration page. *)

AdminNames == {"settings", "search", "stop", "bundle"}
AdminParams ==
    [section: Sections, value: Nat, key: Nat, remove: BOOLEAN, query: Nat, mode: SearchModes, answer: SearchAnswers \cup {"ok"}]
TestRows ==
    {"problem", "hint", "summary", "nothing", "browser", "gallery", "unusable", "cards", "table"}
AdminPages ==
    [saving: SUBSET Sections, status: [Sections -> {"none", "info", "success", "error"}], typed: [Sections -> Nat],
     key: Nat, remove: BOOLEAN, query: Nat, mode: SearchModes, testing: BOOLEAN, box: {"hidden", "shown"}, of: Nat,
     stop: {"ready", "asked", "reloads"}, open: BOOLEAN, tools: {"none", "loading", "loaded"}, rows: SUBSET TestRows]
Instances == [settings: [Sections -> Nat], key: Nat, keys: Seq(Nat \ {0}), stopped: BOOLEAN]

OfSearch(r) == r.op = "settings" /\ r.arg.section = "websearch"
KeyStored(keys, k) == \E i \in DOMAIN keys : keys[i] = k

(* A key that was typed is stored once: the only write of the web search     *)
(* under way has it, or the page does not yet know that it was stored.       *)
KeysOnce ==
    /\ \A i, j \in DOMAIN instance.keys : instance.keys[i] = instance.keys[j] => i = j
    /\ \A i \in DOMAIN instance.keys : instance.keys[i] <= clicks
    /\ \A r \in net : r.op = "settings" /\ r.arg.key # 0 /\ r.state # "answered" => ~KeyStored(instance.keys, r.arg.key)
    /\ admin.key # 0 /\ KeyStored(instance.keys, admin.key) => \E r \in net : OfSearch(r) /\ r.state = "answered"

AdminInv ==
    /\ UnderWay(AdminNames, AdminParams)
    /\ admin \in AdminPages /\ instance \in Instances
    /\ admin.key <= clicks
    /\ \A r \in net : r.op = "settings" => /\ r.arg.key <= clicks
                                           /\ r.arg.key # 0 => r.arg.section = "websearch"
                                           /\ r.arg.section = "websearch" => "websearch" \in admin.saving
    /\ \A r, q \in net : OfSearch(r) /\ OfSearch(q) => r.id = q.id
    /\ faults = 0 => KeysOnce

LEMMA AdminFields ==
    ASSUME NEW p \in AdminPages
    PROVE  /\ p.saving \in SUBSET Sections /\ p.status \in [Sections -> {"none", "info", "success", "error"}]
           /\ p.typed \in [Sections -> Nat] /\ p.key \in Nat /\ p.remove \in BOOLEAN /\ p.query \in Nat
           /\ p.mode \in SearchModes /\ p.testing \in BOOLEAN /\ p.box \in {"hidden", "shown"} /\ p.of \in Nat
           /\ p.stop \in {"ready", "asked", "reloads"} /\ p.open \in BOOLEAN
           /\ p.tools \in {"none", "loading", "loaded"} /\ p.rows \in SUBSET TestRows
BY DEF AdminPages

LEMMA AdminParamFields ==
    ASSUME NEW a \in AdminParams
    PROVE  /\ a.section \in Sections /\ a.value \in Nat /\ a.key \in Nat /\ a.remove \in BOOLEAN /\ a.query \in Nat
           /\ a.mode \in SearchModes /\ a.answer \in SearchAnswers \cup {"ok"}
BY DEF AdminParams

LEMMA InstanceFields ==
    ASSUME NEW s \in Instances
    PROVE  /\ s.settings \in [Sections -> Nat] /\ s.key \in Nat /\ s.keys \in Seq(Nat \ {0}) /\ s.stopped \in BOOLEAN
BY DEF Instances

LEMMA AdminNow ==
    ASSUME AdminInv
    PROVE  /\ UnderWay(AdminNames, AdminParams) /\ admin \in AdminPages /\ instance \in Instances
           /\ clicks \in Nat
           /\ \A r \in net : /\ r \in RequestsFor(AdminNames, AdminParams) /\ r.op \in AdminNames
                             /\ r.arg \in AdminParams /\ r.got \in AdminParams
                             /\ r.state \in {"sent", "answered", "failed"} /\ r.arg.key \in Nat
           /\ \A r, q \in net : OfSearch(r) /\ OfSearch(q) => r = q
<1>1. /\ UnderWay(AdminNames, AdminParams) /\ admin \in AdminPages /\ instance \in Instances
      /\ net \subseteq RequestsFor(AdminNames, AdminParams)
  BY DEF AdminInv, UnderWay
<1>2. clicks \in Nat
  BY <1>1, TaskFields DEF UnderWay
<1>3. \A r, q \in net : OfSearch(r) /\ OfSearch(q) => r = q
  BY DEF AdminInv, UnderWay
<1> QED
  BY <1>1, <1>2, <1>3, FieldsOfRequests, AdminParamFields

(* A step of the page that saves nothing. *)
LEMMA AdminMoves ==
    ASSUME AdminInv, NEW done, NEW asks \in Seq(AsksFor(AdminNames, AdminParams)), Exchange(done, asks),
           task' = task, clicks' \in 0..task.clicks, clicks <= clicks', faults' = faults,
           admin' \in AdminPages, instance' = instance, admin'.key <= clicks',
           \A r \in net : r \notin done /\ OfSearch(r) => "websearch" \in admin'.saving,
           \A i \in DOMAIN asks : asks[i].op # "settings",
           faults = 0 /\ admin'.key # 0 /\ KeyStored(instance.keys, admin'.key)
              => \E r \in net : r \notin done /\ OfSearch(r) /\ r.state = "answered"
    PROVE  AdminInv'
<1>0. /\ UnderWay(AdminNames, AdminParams) /\ instance \in Instances /\ clicks \in Nat
      /\ \A r \in net : r.arg.key \in Nat
  BY AdminNow
<1>1. /\ UnderWay(AdminNames, AdminParams)'
      /\ \A r \in net' : (r \in net /\ r \notin done) \/ (r \notin net /\ \E i \in DOMAIN asks : SentFor(r, asks[i]))
      /\ \A r \in net \ done : r \in net'
  BY <1>0, Exchanged
<1>2. clicks' \in Nat
  BY <1>1, TaskFields DEF UnderWay
<1>3. \A r \in net' : r.op = "settings" => r \in net /\ r \notin done
  BY <1>1 DEF SentFor
<1>4. \A r \in net' : r.op = "settings" => /\ r.arg.key <= clicks'
                                           /\ r.arg.key # 0 => r.arg.section = "websearch"
                                           /\ r.arg.section = "websearch" => "websearch" \in admin'.saving
  BY <1>0, <1>2, <1>3 DEF AdminInv, OfSearch
<1>5. \A r, q \in net' : OfSearch(r) /\ OfSearch(q) => r.id = q.id
  BY <1>3 DEF AdminInv, OfSearch
<1>6. faults = 0 => KeysOnce'
  <2> SUFFICES ASSUME faults = 0
               PROVE  KeysOnce'
    OBVIOUS
  <2>1. \A i \in DOMAIN instance.keys : instance.keys[i] <= clicks'
    BY <1>0, <1>2, InstanceFields DEF AdminInv, KeysOnce
  <2>2. \A r \in net' : r.op = "settings" /\ r.arg.key # 0 /\ r.state # "answered" => ~KeyStored(instance.keys, r.arg.key)
    BY <1>3 DEF AdminInv, KeysOnce
  <2>3. admin'.key # 0 /\ KeyStored(instance.keys, admin'.key) => \E r \in net' : OfSearch(r) /\ r.state = "answered"
    BY <1>1
  <2> QED
    BY <2>1, <2>2, <2>3 DEF AdminInv, KeysOnce, OfSearch, KeyStored
<1> QED
  BY <1>0, <1>1, <1>4, <1>5, <1>6 DEF AdminInv, OfSearch

(* A step that leaves the key and what is being saved as they are. *)
LEMMA AdminStays ==
    ASSUME AdminInv, NEW done, NEW asks \in Seq(AsksFor(AdminNames, AdminParams)), Exchange(done, asks),
           task' = task, clicks' \in 0..task.clicks, clicks <= clicks', faults' = faults,
           admin' \in AdminPages, instance' = instance, admin'.key = admin.key, admin'.saving = admin.saving,
           \A r \in net : r \in done => r.op # "settings",
           \A i \in DOMAIN asks : asks[i].op # "settings"
    PROVE  AdminInv'
<1>1. admin'.key <= clicks'
  <2>1. clicks \in Nat /\ clicks' \in Nat /\ admin.key \in Nat /\ admin.key <= clicks
    BY AdminNow, AdminFields, TaskFields DEF AdminInv, UnderWay
  <2> QED
    BY <2>1
<1>2. \A r \in net : r \notin done /\ OfSearch(r) => "websearch" \in admin'.saving
  BY DEF AdminInv, OfSearch
<1>3. faults = 0 /\ admin'.key # 0 /\ KeyStored(instance.keys, admin'.key)
         => \E r \in net : r \notin done /\ OfSearch(r) /\ r.state = "answered"
  BY DEF AdminInv, KeysOnce, OfSearch
<1> QED
  BY <1>1, <1>2, <1>3, AdminMoves

LEMMA AdminClicks ==
    ASSUME AdminInv, NEW act, NEW p, NEW asks, AdminDoes(act, p, asks)
    PROVE  /\ admin' = p /\ instance' = instance /\ Exchange({}, asks) /\ task' = task /\ clicks' \in 0..task.clicks
           /\ faults' = faults /\ clicks' = clicks + 1 /\ clicks <= clicks'
<1>1. UnderWay(AdminNames, AdminParams) /\ clicks \in Nat
  BY AdminNow
<1>2. Click(act, asks) /\ admin' = p /\ instance' = instance
  BY DEF AdminDoes
<1>3. clicks' = clicks + 1
  BY <1>2 DEF Click
<1> QED
  BY <1>1, <1>2, <1>3, Clicked1

LEMMA AdminReacts ==
    ASSUME AdminInv, NEW p, NEW r, AdminTurns(p, r)
    PROVE  /\ admin' = p /\ instance' = instance /\ Exchange({r}, <<>>) /\ task' = task /\ clicks' \in 0..task.clicks
           /\ faults' = faults /\ clicks' = clicks /\ clicks <= clicks'
<1>1. UnderWay(AdminNames, AdminParams) /\ clicks \in Nat
  BY AdminNow
<1> DEFINE none == <<>>
<1>2. React({r}, none) /\ admin' = p /\ instance' = instance
  BY DEF AdminTurns
<1>3. Exchange({r}, none) /\ task' = task /\ clicks' \in 0..task.clicks /\ faults' = faults /\ clicks' = clicks
  BY <1>1, <1>2, Reacted
<1> QED
  BY <1>1, <1>2, <1>3

(* A click that asks for nothing, and leaves what is being saved as it is. *)
LEMMA AdminIsTyped ==
    ASSUME AdminInv, NEW act, NEW p \in AdminPages, AdminDoes(act, p, <<>>), p.saving = admin.saving,
           p.key = admin.key \/ p.key = clicks + 1
    PROVE  AdminInv'
<1> DEFINE none == <<>>
           nobody == {}
<1>1. none \in Seq(AsksFor(AdminNames, AdminParams)) /\ DOMAIN none = {} /\ \A r \in net : r \notin nobody
  OBVIOUS
<1>2. AdminDoes(act, p, none)
  OBVIOUS
<1>3. /\ admin' = p /\ instance' = instance /\ Exchange(nobody, none) /\ task' = task /\ clicks' \in 0..task.clicks
      /\ faults' = faults /\ clicks' = clicks + 1 /\ clicks <= clicks'
  BY <1>2, AdminClicks
<1> HIDE DEF none, nobody
<1>4. CASE p.key = admin.key
  BY <1>1, <1>3, <1>4, AdminStays
<1>5. CASE p.key = clicks + 1
  <2>1. clicks \in Nat /\ instance \in Instances
    BY AdminNow
  <2>2. admin'.key <= clicks'
    BY <1>3, <1>5, <2>1
  <2>3. faults = 0 => ~KeyStored(instance.keys, p.key)
    <3> SUFFICES ASSUME faults = 0, NEW i \in DOMAIN instance.keys, instance.keys[i] = clicks + 1
                 PROVE  FALSE
      BY <1>5 DEF KeyStored
    <3>1. instance.keys[i] <= clicks
      BY DEF AdminInv, KeysOnce
    <3> QED
      BY <2>1, <3>1
  <2>4. \A r \in net : r \notin nobody /\ OfSearch(r) => "websearch" \in admin'.saving
    BY <1>3 DEF AdminInv, OfSearch
  <2> QED
    BY <1>1, <1>3, <2>2, <2>3, <2>4, AdminMoves
<1> QED
  BY <1>4, <1>5

LEMMA AdminIsTypedIn ==
    ASSUME AdminInv, TypeAdmin \/ TypeQuery
    PROVE  AdminInv'
<1>0. clicks + 1 \in Nat /\ admin \in AdminPages
  BY AdminNow
<1>1. ASSUME NEW s \in Sections, AdminDoes("type", [admin EXCEPT !.typed[s] = clicks + 1], <<>>)
      PROVE  AdminInv'
  <2> DEFINE typed == [admin.typed EXCEPT ![s] = clicks + 1]
             p == [admin EXCEPT !.typed = typed]
  <2>1. typed \in [Sections -> Nat]
    BY <1>0, AdminFields
  <2>2. AdminDoes("type", p, <<>>)
    BY <1>0, <1>1 DEF AdminPages
  <2> HIDE DEF typed
  <2>3. p \in AdminPages /\ p.saving = admin.saving /\ p.key = admin.key
    BY <1>0, <2>1 DEF AdminPages
  <2> QED
    BY <2>2, <2>3, AdminIsTyped
<1>2. ASSUME AdminDoes("key", [admin EXCEPT !.key = clicks + 1], <<>>)
      PROVE  AdminInv'
  <2> DEFINE p == [admin EXCEPT !.key = clicks + 1]
  <2>3. p \in AdminPages /\ p.saving = admin.saving /\ p.key = clicks + 1
    BY <1>0 DEF AdminPages
  <2> QED
    BY <1>2, <2>3, AdminIsTyped
<1>3. ASSUME AdminDoes("remove", [admin EXCEPT !.remove = ~@], <<>>)
      PROVE  AdminInv'
  <2> DEFINE remove == ~admin.remove
             p == [admin EXCEPT !.remove = remove]
  <2>1. remove \in BOOLEAN
    BY <1>0, AdminFields
  <2>2. AdminDoes("remove", p, <<>>)
    BY <1>0, <1>3 DEF AdminPages
  <2> HIDE DEF remove
  <2>3. p \in AdminPages /\ p.saving = admin.saving /\ p.key = admin.key
    BY <1>0, <2>1 DEF AdminPages
  <2> QED
    BY <2>2, <2>3, AdminIsTyped
<1>4. ASSUME NEW m \in SearchModes, AdminDoes("query", [admin EXCEPT !.query = clicks + 1, !.mode = m], <<>>)
      PROVE  AdminInv'
  <2> DEFINE p == [admin EXCEPT !.query = clicks + 1, !.mode = m]
  <2>3. p \in AdminPages /\ p.saving = admin.saving /\ p.key = admin.key
    BY <1>0 DEF AdminPages
  <2> QED
    BY <1>4, <2>3, AdminIsTyped
<1> QED
  BY <1>1, <1>2, <1>3, <1>4 DEF TypeAdmin, TypeQuery

LEMMA AdminCalls ==
    ASSUME NEW q \in Nat, NEW m \in SearchModes
    PROVE  /\ AdminCall \in AdminParams
           /\ [AdminCall EXCEPT !.query = q, !.mode = m] \in AdminParams
BY DEF AdminCall, AdminParams, Sections, SearchModes

LEMMA SectionIsSaved ==
    ASSUME AdminInv, SaveSection
    PROVE  AdminInv'
<1>0. /\ UnderWay(AdminNames, AdminParams) /\ admin \in AdminPages /\ instance \in Instances /\ clicks \in Nat
      /\ \A r \in net : r.arg.key \in Nat
  BY AdminNow
<1>1. PICK s \in Sections :
        /\ s \notin admin.saving
        /\ AdminDoes("save", [admin EXCEPT !.saving = @ \cup {s}, !.status[s] = "info"], AdminAsks("settings", Payload(s)))
  BY DEF SaveSection
<1> DEFINE saving == admin.saving \cup {s}
           status == [admin.status EXCEPT ![s] = "info"]
           p == [admin EXCEPT !.saving = saving, !.status = status]
           key == IF s = "websearch" THEN admin.key ELSE 0
           remove == s = "websearch" /\ admin.remove
           P == [AdminCall EXCEPT !.section = s, !.value = admin.typed[s], !.key = key, !.remove = remove]
           asks == <<Ask("settings", FALSE, P)>>
<1>2. AdminDoes("save", p, asks)
  BY <1>0, <1>1 DEF AdminAsks, Payload, AdminPages
<1>3. saving \in SUBSET Sections /\ status \in [Sections -> {"none", "info", "success", "error"}]
  BY <1>0, AdminFields
<1>4. admin.typed[s] \in Nat /\ key \in Nat /\ remove \in BOOLEAN /\ key \in {0, admin.key} /\ (key # 0 => s = "websearch")
  BY <1>0, AdminFields
<1>5. s \in saving /\ admin.saving \subseteq saving
  OBVIOUS
<1>6. asks = <<Ask("settings", FALSE, P)>>
  OBVIOUS
<1> HIDE DEF saving, status, key, remove
<1>7. p \in AdminPages /\ p.saving = saving /\ p.key = admin.key
  BY <1>0, <1>3 DEF AdminPages
<1>8. P \in AdminParams /\ P.section = s /\ P.key = key
  <2>1. AdminCall \in AdminParams
    BY <1>0, AdminCalls, AdminFields
  <2> QED
    BY <1>4, <2>1 DEF AdminParams
<1> HIDE DEF p, P, asks
<1>9. /\ admin' = p /\ instance' = instance /\ Exchange({}, asks) /\ task' = task /\ clicks' \in 0..task.clicks
      /\ faults' = faults /\ clicks' = clicks + 1
  BY <1>2, AdminClicks
<1>a. "settings" \in AdminNames
  BY DEF AdminNames
<1>b. asks \in Seq(AsksFor(AdminNames, AdminParams)) /\ Len(asks) = 1 /\ Single(asks, "settings", P)
  BY <1>6, <1>8, <1>a, OneAsk
<1>c. /\ UnderWay(AdminNames, AdminParams)'
      /\ \A r \in net' : r \in net \/ (r \notin net /\ r.op = "settings" /\ r.arg = P /\ r.state = "sent")
      /\ \A r \in net : r \in net'
      /\ \A r, q \in net' \ net : r = q
  <2>1. /\ UnderWay(AdminNames, AdminParams)'
        /\ \A r \in net' : r \in net \/ (r \notin net /\ \E i \in DOMAIN asks : SentFor(r, asks[i]))
        /\ \A r \in net \ {} : r \in net'
        /\ \A r, q \in net' \ net : r = q
    BY <1>0, <1>9, <1>b, Exchanged
  <2> QED
    BY <1>b, <2>1 DEF Single, SentFor
<1>d. key <= clicks /\ clicks' \in Nat /\ clicks <= clicks'
  <2>1. admin.key <= clicks /\ admin.key \in Nat
    BY <1>0, AdminFields DEF AdminInv
  <2> QED
    BY <1>0, <1>4, <1>9, <2>1
<1>e. \A r \in net : OfSearch(r) => s # "websearch"
  BY <1>1 DEF AdminInv, OfSearch
<1>f. \A r \in net' : r.op = "settings" => /\ r.arg.key <= clicks'
                                           /\ r.arg.key # 0 => r.arg.section = "websearch"
                                           /\ r.arg.section = "websearch" => "websearch" \in admin'.saving
  <2> SUFFICES ASSUME NEW r \in net', r.op = "settings"
               PROVE  /\ r.arg.key <= clicks'
                      /\ r.arg.key # 0 => r.arg.section = "websearch"
                      /\ r.arg.section = "websearch" => "websearch" \in admin'.saving
    OBVIOUS
  <2>1. CASE r \in net
    <3>1. r.arg.key \in Nat /\ r.arg.key <= clicks
      BY <1>0, <2>1 DEF AdminInv
    <3> QED
      BY <1>0, <1>5, <1>7, <1>9, <1>d, <2>1, <3>1 DEF AdminInv
  <2>2. CASE r \notin net
    BY <1>0, <1>4, <1>5, <1>7, <1>8, <1>9, <1>c, <1>d, <2>2
  <2> QED
    BY <2>1, <2>2
<1>g. \A r, q \in net' : OfSearch(r) /\ OfSearch(q) => r.id = q.id
  BY <1>8, <1>c, <1>e DEF AdminInv, OfSearch
<1>h. faults = 0 => KeysOnce'
  <2> SUFFICES ASSUME faults = 0
               PROVE  KeysOnce'
    OBVIOUS
  <2>0. KeysOnce
    BY DEF AdminInv
  <2>1. \A i \in DOMAIN instance.keys : instance.keys[i] <= clicks'
    BY <1>0, <1>d, <2>0, InstanceFields DEF KeysOnce
  <2>2. \A r \in net' : r.op = "settings" /\ r.arg.key # 0 /\ r.state # "answered" => ~KeyStored(instance.keys, r.arg.key)
    BY <1>4, <1>8, <1>c, <1>e, <2>0 DEF KeysOnce
  <2>3. admin'.key # 0 /\ KeyStored(instance.keys, admin'.key) => \E r \in net' : OfSearch(r) /\ r.state = "answered"
    BY <1>7, <1>9, <1>c, <2>0 DEF KeysOnce
  <2> QED
    BY <1>9, <2>0, <2>1, <2>2, <2>3 DEF KeysOnce, OfSearch, KeyStored
<1>i. admin'.key <= clicks'
  BY <1>0, <1>7, <1>9, <1>d, AdminFields DEF AdminInv
<1> QED
  BY <1>0, <1>7, <1>9, <1>c, <1>f, <1>g, <1>h, <1>i DEF AdminInv, OfSearch

LEMMA SectionWasSaved ==
    ASSUME AdminInv, SectionSaved
    PROVE  AdminInv'
<1>0. /\ admin \in AdminPages /\ clicks \in Nat
      /\ \A r \in net : r.arg \in AdminParams /\ r.state \in {"sent", "answered", "failed"}
      /\ \A r, q \in net : OfSearch(r) /\ OfSearch(q) => r = q
  BY AdminNow
<1>1. PICK r \in Back("settings") :
        LET s == r.arg.section
            p == [admin EXCEPT !.saving = @ \ {s}, !.status[s] = IF r.state = "answered" THEN "success" ELSE "error"]
        IN  AdminTurns(IF r.state = "answered" /\ s = "websearch" THEN ClearSecret(p) ELSE p, r)
  BY DEF SectionSaved
<1> DEFINE s == r.arg.section
           saving == admin.saving \ {s}
           status == [admin.status EXCEPT ![s] = IF r.state = "answered" THEN "success" ELSE "error"]
           p == [admin EXCEPT !.saving = saving, !.status = status]
           q == IF r.state = "answered" /\ s = "websearch" THEN ClearSecret(p) ELSE p
           none == <<>>
           done == {r}
<1>2. r \in net /\ r.op = "settings" /\ s \in Sections /\ r \in done /\ \A x \in net : x = r \/ x \notin done
  BY <1>0, AdminParamFields DEF Back, Open
<1>3. AdminTurns(q, r)
  BY <1>0, <1>1 DEF AdminPages
<1>4. saving \in SUBSET Sections /\ status \in [Sections -> {"none", "info", "success", "error"}]
  BY <1>0, <1>2, AdminFields
<1>5. \A x \in admin.saving : x = s \/ x \in saving
  OBVIOUS
<1> HIDE DEF saving, status
<1>6. p \in AdminPages /\ p.saving = saving /\ p.key = admin.key
  BY <1>0, <1>4 DEF AdminPages
<1> HIDE DEF p
<1>7. /\ q \in AdminPages /\ q.saving = saving
      /\ q.key = 0 \/ q.key = admin.key
      /\ r.state = "answered" /\ s = "websearch" => q.key = 0
  <2>1. CASE r.state = "answered" /\ s = "websearch"
    <3>1. q = [p EXCEPT !.key = 0, !.remove = FALSE]
      BY <2>1 DEF ClearSecret
    <3> HIDE DEF q
    <3> QED
      BY <1>6, <2>1, <3>1 DEF AdminPages
  <2>2. CASE ~(r.state = "answered" /\ s = "websearch")
    BY <1>6, <2>2
  <2> QED
    BY <2>1, <2>2
<1>8. /\ admin' = q /\ instance' = instance /\ Exchange(done, none) /\ task' = task /\ clicks' \in 0..task.clicks
      /\ faults' = faults /\ clicks' = clicks /\ clicks <= clicks'
  BY <1>3, AdminReacts
<1>9. none \in Seq(AsksFor(AdminNames, AdminParams)) /\ DOMAIN none = {}
  OBVIOUS
<1> HIDE DEF none, done, q
<1>a. admin'.key <= clicks'
  BY <1>0, <1>7, <1>8, AdminFields DEF AdminInv
<1>b. \A x \in net : x \notin done /\ OfSearch(x) => "websearch" \in admin'.saving
  <2> SUFFICES ASSUME NEW x \in net, x # r, OfSearch(x)
               PROVE  "websearch" \in saving
    BY <1>2, <1>7, <1>8
  <2>1. "websearch" \in admin.saving /\ s # "websearch"
    BY <1>0, <1>2 DEF AdminInv, OfSearch
  <2> QED
    BY <1>5, <2>1
<1>c. faults = 0 /\ admin'.key # 0 /\ KeyStored(instance.keys, admin'.key)
         => \E x \in net : x \notin done /\ OfSearch(x) /\ x.state = "answered"
  <2> SUFFICES ASSUME faults = 0, admin'.key # 0, KeyStored(instance.keys, admin'.key)
               PROVE  \E x \in net : x \notin done /\ OfSearch(x) /\ x.state = "answered"
    OBVIOUS
  <2>1. admin'.key = admin.key /\ ~(r.state = "answered" /\ s = "websearch")
    BY <1>7, <1>8
  <2>2. PICK x \in net : OfSearch(x) /\ x.state = "answered"
    BY <2>1 DEF AdminInv, KeysOnce
  <2>3. x # r
    BY <1>2, <2>1, <2>2 DEF OfSearch
  <2> QED
    BY <1>2, <2>2, <2>3
<1> QED
  BY <1>7, <1>8, <1>9, <1>a, <1>b, <1>c, AdminMoves

LEMMA TestIsRun ==
    ASSUME AdminInv, RunTest
    PROVE  AdminInv'
<1>0. admin \in AdminPages
  BY AdminNow
<1>1. CASE admin.query = 0
  BY <1>0, <1>1, AdminIsTyped DEF RunTest
<1>2. CASE admin.query # 0
  <2> DEFINE p == [admin EXCEPT !.testing = TRUE]
             P == [AdminCall EXCEPT !.query = admin.query, !.mode = admin.mode]
             asks == <<Ask("search", FALSE, P)>>
             done == {}
  <2>1. AdminDoes("test", p, asks)
    BY <1>2 DEF RunTest, AdminAsks
  <2>2. p \in AdminPages /\ p.key = admin.key /\ p.saving = admin.saving
    BY <1>0 DEF AdminPages
  <2>3. P \in AdminParams /\ "search" \in AdminNames /\ asks = <<Ask("search", FALSE, P)>>
    BY <1>0, AdminCalls, AdminFields DEF AdminNames
  <2> HIDE DEF p, P, asks
  <2>4. asks \in Seq(AsksFor(AdminNames, AdminParams)) /\ Single(asks, "search", P)
    BY <2>3, OneAsk
  <2>5. /\ admin' = p /\ instance' = instance /\ Exchange(done, asks) /\ task' = task /\ clicks' \in 0..task.clicks
        /\ faults' = faults /\ clicks <= clicks'
    BY <2>1, AdminClicks
  <2>6. (\A r \in net : r \in done => r.op # "settings") /\ \A i \in DOMAIN asks : asks[i].op # "settings"
    BY <2>4 DEF Single
  <2> HIDE DEF done
  <2> QED
    BY <2>2, <2>4, <2>5, <2>6, AdminStays
<1> QED
  BY <1>1, <1>2

(* The end of a request that saved nothing. *)
LEMMA AdminIsAnswered ==
    ASSUME AdminInv, NEW r, r.op # "settings", NEW p \in AdminPages, AdminTurns(p, r),
           p.key = admin.key, p.saving = admin.saving
    PROVE  AdminInv'
<1> DEFINE none == <<>>
           done == {r}
<1>1. /\ admin' = p /\ instance' = instance /\ Exchange(done, none) /\ task' = task /\ clicks' \in 0..task.clicks
      /\ faults' = faults /\ clicks <= clicks'
  BY AdminReacts
<1>2. /\ none \in Seq(AsksFor(AdminNames, AdminParams)) /\ DOMAIN none = {}
      /\ \A q \in net : q \in done => q.op # "settings"
  OBVIOUS
<1> HIDE DEF none, done
<1> QED
  BY <1>1, <1>2, AdminStays

LEMMA SearchTestRows ==
    ASSUME NEW mode, NEW answer
    PROVE  SearchTest(mode, answer) \in SUBSET TestRows
BY DEF SearchTest, TestRows

LEMMA TestCame ==
    ASSUME AdminInv, TestBack
    PROVE  AdminInv'
<1>0. admin \in AdminPages /\ \A r \in net : r.arg \in AdminParams
  BY AdminNow
<1>1. PICK r \in Back("search") :
        AdminTurns([admin EXCEPT !.testing = FALSE, !.of = r.arg.query, !.box = "shown",
                       !.rows = SearchTest(r.arg.mode, IF r.state = "failed" THEN "failed" ELSE r.got.answer)], r)
  BY DEF TestBack
<1> DEFINE rows == SearchTest(r.arg.mode, IF r.state = "failed" THEN "failed" ELSE r.got.answer)
           p == [admin EXCEPT !.testing = FALSE, !.of = r.arg.query, !.box = "shown", !.rows = rows]
<1>2. rows \in SUBSET TestRows /\ r.arg.query \in Nat /\ r.op # "settings"
  <2>1. r \in net /\ r.op = "search"
    BY DEF Back, Open
  <2> QED
    BY <1>0, <2>1, SearchTestRows, AdminParamFields
<1>3. AdminTurns(p, r)
  BY <1>1
<1> HIDE DEF rows
<1>4. p \in AdminPages /\ p.key = admin.key /\ p.saving = admin.saving
  BY <1>0, <1>2 DEF AdminPages
<1> QED
  BY <1>2, <1>3, <1>4, AdminIsAnswered

LEMMA AdminButtonsAnswered ==
    ASSUME AdminInv, StopAnswer \/ ToolsLoaded
    PROVE  AdminInv'
<1>0. admin \in AdminPages
  BY AdminNow
<1>1. CASE StopAnswer
  <2>1. PICK r \in Back("stop") : AdminTurns([admin EXCEPT !.stop = IF r.state = "answered" THEN "reloads" ELSE "ready"], r)
    BY <1>1 DEF StopAnswer
  <2> DEFINE stop == IF r.state = "answered" THEN "reloads" ELSE "ready"
             p == [admin EXCEPT !.stop = stop]
  <2>2. stop \in {"ready", "asked", "reloads"} /\ AdminTurns(p, r) /\ r.op # "settings"
    BY <2>1 DEF Back, Open
  <2> HIDE DEF stop
  <2>3. p \in AdminPages /\ p.key = admin.key /\ p.saving = admin.saving
    BY <1>0, <2>2 DEF AdminPages
  <2> QED
    BY <2>2, <2>3, AdminIsAnswered
<1>2. CASE ToolsLoaded
  <2>1. PICK r \in Back("bundle") : AdminTurns([admin EXCEPT !.tools = IF r.state = "answered" THEN "loaded" ELSE "none"], r)
    BY <1>2 DEF ToolsLoaded
  <2> DEFINE tools == IF r.state = "answered" THEN "loaded" ELSE "none"
             p == [admin EXCEPT !.tools = tools]
  <2>2. tools \in {"none", "loading", "loaded"} /\ AdminTurns(p, r) /\ r.op # "settings"
    BY <2>1 DEF Back, Open
  <2> HIDE DEF tools
  <2>3. p \in AdminPages /\ p.key = admin.key /\ p.saving = admin.saving
    BY <1>0, <2>2 DEF AdminPages
  <2> QED
    BY <2>2, <2>3, AdminIsAnswered
<1> QED
  BY <1>1, <1>2

(* A click that asks for something else than a write of the settings. *)
LEMMA AdminAsksFor ==
    ASSUME AdminInv, NEW act, NEW op \in AdminNames, op # "settings", NEW p \in AdminPages,
           p.key = admin.key, p.saving = admin.saving, AdminDoes(act, p, AdminAsks(op, AdminCall))
    PROVE  AdminInv'
<1> DEFINE asks == <<Ask(op, FALSE, AdminCall)>>
           done == {}
<1>1. AdminDoes(act, p, asks) /\ asks = <<Ask(op, FALSE, AdminCall)>>
  BY DEF AdminAsks
<1>2. AdminCall \in AdminParams
  BY AdminCalls, AdminNow, AdminFields
<1> HIDE DEF asks
<1>3. asks \in Seq(AsksFor(AdminNames, AdminParams)) /\ Single(asks, op, AdminCall)
  BY <1>1, <1>2, OneAsk
<1>4. /\ admin' = p /\ instance' = instance /\ Exchange(done, asks) /\ task' = task /\ clicks' \in 0..task.clicks
      /\ faults' = faults /\ clicks <= clicks'
  BY <1>1, AdminClicks
<1>5. (\A r \in net : r \in done => r.op # "settings") /\ \A i \in DOMAIN asks : asks[i].op # "settings"
  BY <1>3 DEF Single
<1> HIDE DEF done
<1> QED
  BY <1>3, <1>4, <1>5, AdminStays

LEMMA AdminButtons ==
    ASSUME AdminInv, StopBackground \/ ToggleTools
    PROVE  AdminInv'
<1>0. admin \in AdminPages /\ "stop" \in AdminNames /\ "bundle" \in AdminNames
  BY AdminNow DEF AdminNames
<1>1. CASE StopBackground
  <2> DEFINE p == [admin EXCEPT !.stop = "asked"]
  <2>1. p \in AdminPages /\ p.key = admin.key /\ p.saving = admin.saving
    BY <1>0 DEF AdminPages
  <2>2. AdminDoes("stop", p, AdminAsks("stop", AdminCall))
    BY <1>1 DEF StopBackground
  <2> HIDE DEF p
  <2> QED
    BY <1>0, <2>1, <2>2, AdminAsksFor
<1>2. CASE ToggleTools
  <2> DEFINE open == ~admin.open
             p == [admin EXCEPT !.open = open]
             q == [p EXCEPT !.tools = "loading"]
  <2>1. open \in BOOLEAN
    BY <1>0, AdminFields
  <2>2. \/ AdminDoes("tools", q, AdminAsks("bundle", AdminCall))
        \/ AdminDoes("tools", p, <<>>)
    BY <1>0, <1>2 DEF ToggleTools, AdminPages
  <2> HIDE DEF open
  <2>3. p \in AdminPages /\ p.key = admin.key /\ p.saving = admin.saving
    BY <1>0, <2>1 DEF AdminPages
  <2> HIDE DEF p
  <2>4. q \in AdminPages /\ q.key = admin.key /\ q.saving = admin.saving
    BY <2>3 DEF AdminPages
  <2> HIDE DEF q
  <2>5. CASE AdminDoes("tools", q, AdminAsks("bundle", AdminCall))
    BY <1>0, <2>4, <2>5, AdminAsksFor
  <2>6. CASE AdminDoes("tools", p, <<>>)
    BY <2>3, <2>6, AdminIsTyped
  <2> QED
    BY <2>2, <2>5, <2>6
<1> QED
  BY <1>1, <1>2

LEMMA OpenedAdminIsPage ==
    OpenedAdmin \in AdminPages /\ OpenedAdmin.key = 0 /\ OpenedAdmin.saving = {}
<1>1. /\ [s \in Sections |-> "none"] \in [Sections -> {"none", "info", "success", "error"}]
      /\ [s \in Sections |-> 0] \in [Sections -> Nat] /\ {} \in SUBSET Sections /\ {} \in SUBSET TestRows
      /\ 0 \in Nat /\ "web" \in SearchModes
  BY DEF SearchModes
<1> QED
  BY <1>1 DEF OpenedAdmin, AdminPages

LEMMA AdminIsReloaded ==
    ASSUME AdminInv, ReloadAdmin
    PROVE  AdminInv'
<1>0. UnderWay(AdminNames, AdminParams) /\ clicks \in Nat
  BY AdminNow
<1> DEFINE none == <<>>
<1>1. React(net, none) /\ instance' = instance /\ admin' = OpenedAdmin
  BY DEF ReloadAdmin
<1>2. none \in Seq(AsksFor(AdminNames, AdminParams)) /\ DOMAIN none = {}
  OBVIOUS
<1>3. Exchange(net, none) /\ task' = task /\ clicks' \in 0..task.clicks /\ faults' = faults /\ clicks' = clicks
  BY <1>0, <1>1, Reacted
<1> HIDE DEF none
<1>4. admin' \in AdminPages /\ admin'.key = 0 /\ admin'.key <= clicks' /\ clicks <= clicks'
  BY <1>0, <1>1, <1>3, OpenedAdminIsPage
<1> QED
  BY <1>1, <1>2, <1>3, <1>4, AdminMoves

(* The server stores a key.  It was not stored before: the only write of the *)
(* web search under way brought it.                                          *)
LEMMA AdminIsServed ==
    ASSUME AdminInv, ServeAdmin
    PROVE  AdminInv'
<1>0. /\ UnderWay(AdminNames, AdminParams) /\ admin \in AdminPages /\ instance \in Instances /\ clicks \in Nat
      /\ \A r \in net : /\ r \in RequestsFor(AdminNames, AdminParams) /\ r.arg \in AdminParams
                        /\ r.op \in AdminNames /\ r.arg.key \in Nat
      /\ \A r, q \in net : OfSearch(r) /\ OfSearch(q) => r = q
  BY AdminNow
<1> DEFINE Settled(r) == [instance EXCEPT
                             !.settings[r.arg.section] = r.arg.value,
                             !.key = IF r.arg.remove THEN 0 ELSE IF r.arg.key # 0 THEN r.arg.key ELSE @,
                             !.keys = IF r.arg.remove \/ r.arg.key = 0 THEN @ ELSE Append(@, r.arg.key)]
<1>1. PICK r \in net :
        /\ r.state = "sent"
        /\ \/ r.op = "settings" /\ instance' = Settled(r) /\ Answered(r, r.arg)
           \/ r.op = "settings" /\ Refused(r) /\ instance' = instance
           \/ r.op = "search" /\ (\E a \in SearchAnswers : Answered(r, [r.arg EXCEPT !.answer = a])) /\ instance' = instance
           \/ r.op = "stop" /\ instance' = [instance EXCEPT !.stopped = TRUE] /\ Answered(r, r.arg)
           \/ r.op = "bundle" /\ Answered(r, r.arg) /\ instance' = instance
  BY DEF ServeAdmin
<1>2. admin' = admin /\ task' = task /\ clicks' = clicks /\ faults' = faults
  BY DEF ServeAdmin
<1>3. \E got \in AdminParams : Answered(r, got) \/ Refused(r)
  <2>1. ASSUME NEW a \in SearchAnswers
        PROVE  [r.arg EXCEPT !.answer = a] \in AdminParams
    BY <1>0, <1>1 DEF AdminParams
  <2> QED
    BY <1>0, <1>1, <2>1
<1>4. /\ UnderWay(AdminNames, AdminParams)'
      /\ \A s \in net' :
            \/ s \in net
            \/ s.op = r.op /\ s.arg = r.arg /\ s.id = r.id /\ s.state \in {"answered", "failed"}
      /\ \A s \in net : s \in net' \/ s = r
      /\ \E q \in net' : q.op = r.op /\ q.arg = r.arg /\ q.id = r.id
  <2>1. PICK got \in AdminParams : Answered(r, got) \/ Refused(r)
    BY <1>3
  <2>2. /\ UnderWay(AdminNames, AdminParams)'
        /\ \A s \in net' :
              \/ s \in net
              \/ s.op = r.op /\ s.arg = r.arg /\ s.id = r.id /\ s.state \in {"answered", "failed"}
        /\ \A s \in net : s \in net' \/ (s = r /\ \E q \in net' : q.op = r.op /\ q.arg = r.arg /\ q.id = r.id)
    BY <1>0, <1>1, <1>2, <2>1, Served
  <2> QED
    BY <1>1, <2>2
<1>5. /\ instance' \in Instances
      /\ \/ instance'.keys = instance.keys
         \/ /\ r.op = "settings" /\ r.arg.key # 0 /\ instance'.keys = Append(instance.keys, r.arg.key)
            /\ \A s \in net' : s \in net \/ s.state = "answered"
            /\ \E s \in net' : s.op = r.op /\ s.arg = r.arg /\ s.state = "answered"
            /\ r \notin net'
  <2>1. CASE instance' = instance
    BY <1>0, <2>1
  <2>2. CASE instance' = [instance EXCEPT !.stopped = TRUE]
    BY <1>0, <2>2 DEF Instances
  <2>3. CASE r.op = "settings" /\ instance' = Settled(r) /\ Answered(r, r.arg)
    <3> DEFINE settings == [instance.settings EXCEPT ![r.arg.section] = r.arg.value]
               key == IF r.arg.remove THEN 0 ELSE IF r.arg.key # 0 THEN r.arg.key ELSE instance.key
               keys == IF r.arg.remove \/ r.arg.key = 0 THEN instance.keys ELSE Append(instance.keys, r.arg.key)
    <3>1. settings \in [Sections -> Nat] /\ key \in Nat /\ keys \in Seq(Nat \ {0})
      BY <1>0, InstanceFields, AdminParamFields
    <3>2. instance' = [instance EXCEPT !.settings = settings, !.key = key, !.keys = keys]
      BY <1>0, <2>3 DEF Instances
    <3>3. keys = instance.keys \/ (r.arg.key # 0 /\ keys = Append(instance.keys, r.arg.key))
      OBVIOUS
    <3> HIDE DEF settings, key, keys
    <3>4. instance' \in Instances /\ instance'.keys = keys
      BY <1>0, <3>1, <3>2 DEF Instances
    <3>5. /\ \A s \in net' : s \in net \/ s.state = "answered"
          /\ \E s \in net' : s.op = r.op /\ s.arg = r.arg /\ s.state = "answered"
          /\ r \notin net'
      <4> DEFINE q == [r EXCEPT !.state = "answered", !.got = r.arg]
      <4>1. q.state = "answered" /\ q.op = r.op /\ q.arg = r.arg
        BY <1>0, <1>1 DEF RequestsFor
      <4>2. net' = (net \ {r}) \cup {q}
        BY <2>3 DEF Answered
      <4> HIDE DEF q
      <4> QED
        BY <1>1, <4>1, <4>2
    <3> QED
      BY <2>3, <3>3, <3>4, <3>5
  <2> QED
    BY <1>1, <2>1, <2>2, <2>3
<1>6. \A s \in net' : s.op = "settings" => /\ s.arg.key <= clicks
                                           /\ s.arg.key # 0 => s.arg.section = "websearch"
                                           /\ s.arg.section = "websearch" => "websearch" \in admin.saving
  BY <1>1, <1>4 DEF AdminInv
<1>7. \A s, q \in net' : OfSearch(s) /\ OfSearch(q) => s.id = q.id
  BY <1>1, <1>4 DEF AdminInv, OfSearch
<1>8. faults = 0 => KeysOnce'
  <2> SUFFICES ASSUME faults = 0
               PROVE  KeysOnce'
    OBVIOUS
  <2>0. KeysOnce
    BY DEF AdminInv
  <2>1. CASE instance'.keys = instance.keys
    <3>1. \A s \in net' : s.op = "settings" /\ s.arg.key # 0 /\ s.state # "answered" => ~KeyStored(instance.keys, s.arg.key)
      BY <1>1, <1>4, <2>0 DEF KeysOnce
    <3>2. admin.key # 0 /\ KeyStored(instance.keys, admin.key) => \E s \in net' : OfSearch(s) /\ s.state = "answered"
      BY <1>1, <1>4, <2>0 DEF KeysOnce
    <3> QED
      BY <1>2, <2>0, <2>1, <3>1, <3>2 DEF KeysOnce, OfSearch, KeyStored
  <2>2. CASE /\ r.op = "settings" /\ r.arg.key # 0 /\ instance'.keys = Append(instance.keys, r.arg.key)
             /\ \A s \in net' : s \in net \/ s.state = "answered"
             /\ \E s \in net' : s.op = r.op /\ s.arg = r.arg /\ s.state = "answered"
             /\ r \notin net'
    <3> DEFINE n == Len(instance.keys)
               k == r.arg.key
    <3>1. instance.keys \in Seq(Nat \ {0}) /\ n \in Nat /\ k \in Nat /\ DOMAIN instance.keys = 1..n
      BY <1>0, <1>1, InstanceFields
    <3>2. /\ DOMAIN instance'.keys = 1..(n + 1) /\ instance'.keys[n + 1] = k
          /\ \A i \in 1..n : instance'.keys[i] = instance.keys[i]
          /\ \A i \in 1..(n + 1) : i \in 1..n \/ i = n + 1
      BY <2>2, <3>1
    <3>3. ~KeyStored(instance.keys, k)
      BY <1>1, <2>0, <2>2 DEF KeysOnce
    <3>4. \A i, j \in DOMAIN instance'.keys : instance'.keys[i] = instance'.keys[j] => i = j
      BY <2>0, <3>1, <3>2, <3>3 DEF KeysOnce, KeyStored
    <3>5. \A i \in DOMAIN instance'.keys : instance'.keys[i] <= clicks
      BY <1>1, <2>0, <2>2, <3>1, <3>2 DEF KeysOnce, AdminInv
    <3>6. OfSearch(r)
      BY <1>1, <2>2 DEF AdminInv, OfSearch
    <3>7. \A s \in net' : s.op = "settings" /\ s.arg.key # 0 => s.state = "answered"
      BY <1>0, <1>1, <2>2, <3>6 DEF AdminInv, OfSearch
    <3>8. \E s \in net' : OfSearch(s) /\ s.state = "answered"
      BY <2>2, <3>6 DEF OfSearch
    <3> QED
      BY <1>2, <3>4, <3>5, <3>7, <3>8 DEF KeysOnce, OfSearch, KeyStored
  <2> QED
    BY <1>5, <2>1, <2>2
<1> QED
  BY <1>0, <1>2, <1>4, <1>5, <1>6, <1>7, <1>8 DEF AdminInv, OfSearch

LEMMA AdminAttemptFails ==
    ASSUME AdminInv, FailAttempt, UNCHANGED adminVars
    PROVE  AdminInv'
<1>0. UnderWay(AdminNames, AdminParams) /\ admin' = admin /\ instance' = instance
  BY AdminNow DEF adminVars
<1>1. /\ UnderWay(AdminNames, AdminParams)' /\ faults' = faults + 1 /\ clicks' = clicks
      /\ \A s \in net' : s \in net \/ \E r \in net : s.op = r.op /\ s.arg = r.arg /\ s.id = r.id
  BY <1>0, AttemptFailed
<1>2. faults' # 0
  <2>1. faults \in Nat
    BY <1>0, TaskFields DEF UnderWay
  <2> QED
    BY <1>1, <2>1
<1>3. \A s \in net' : s.op = "settings" => /\ s.arg.key <= clicks
                                           /\ s.arg.key # 0 => s.arg.section = "websearch"
                                           /\ s.arg.section = "websearch" => "websearch" \in admin.saving
  BY <1>1 DEF AdminInv
<1>4. \A s, q \in net' : OfSearch(s) /\ OfSearch(q) => s.id = q.id
  BY <1>1 DEF AdminInv, OfSearch
<1> QED
  BY <1>0, <1>1, <1>2, <1>3, <1>4 DEF AdminInv, OfSearch

LEMMA AdminStarts ==
    ASSUME InitRequests("admin"), InitAdmin
    PROVE  AdminInv
<1>1. task \in Tasks /\ clicks = 0 /\ faults = 0 /\ net = {}
  BY DEF InitRequests, InitAdmin
<1>2. clicks \in 0..task.clicks /\ faults \in 0..task.faults
  BY <1>1, TaskFields
<1>3. UnderWay(AdminNames, AdminParams)
  BY <1>1, <1>2, FS_EmptySet DEF UnderWay
<1>4. [s \in Sections |-> 0] \in [Sections -> Nat] /\ <<>> \in Seq(Nat \ {0})
  OBVIOUS
<1>5. instance \in Instances /\ instance.keys = <<>>
  BY <1>4 DEF InitAdmin, NoInstance, Instances
<1>6. DOMAIN instance.keys = {}
  BY <1>5
<1>7. admin \in AdminPages /\ admin.key = 0
  BY OpenedAdminIsPage DEF InitAdmin
<1>8. KeysOnce
  BY <1>1, <1>6, <1>7 DEF KeysOnce
<1> QED
  BY <1>1, <1>3, <1>5, <1>7, <1>8 DEF AdminInv

LEMMA AdminSteps ==
    ASSUME AdminInv, NextAdmin
    PROVE  AdminInv' /\ task' = task
<1>1. AdminInv'
  BY AdminIsServed, AdminIsTypedIn, SectionIsSaved, SectionWasSaved, TestIsRun, TestCame, AdminButtons,
     AdminButtonsAnswered, AdminIsReloaded DEF NextAdmin
<1>2. task' = task
  BY DEF NextAdmin, ServeAdmin, TypeAdmin, SaveSection, SectionSaved, TypeQuery, RunTest, TestBack, StopBackground,
         StopAnswer, ReloadAdmin, ToggleTools, ToolsLoaded, AdminDoes, AdminTurns, Click, React
<1> QED
  BY <1>1, <1>2

LEMMA AdminPromises ==
    ASSUME AdminInv
    PROVE  /\ TypeOKRequests /\ TypeOKAdmin
           /\ faults = 0 => \A i, j \in DOMAIN instance.keys : instance.keys[i] = instance.keys[j] => i = j
<1>0. /\ UnderWay(AdminNames, AdminParams) /\ admin \in AdminPages /\ instance \in Instances
      /\ \A r \in net : r \in RequestsFor(AdminNames, AdminParams)
  BY AdminNow
<1>1. TypeOKRequests
  BY <1>0, FieldsOfRequests DEF TypeOKRequests, UnderWay
<1>2. TypeOKAdmin
  BY <1>0, AdminFields, InstanceFields DEF TypeOKAdmin
<1> QED
  BY <1>1, <1>2 DEF AdminInv, KeysOnce

-----------------------------------------------------------------------------
(* The panels of the vector storage. *)

MaybeGeneration == Generations \cup {NoGeneration}
MaybeOwner == Owners \cup {NoOwner}
PanelNames ==
    {"users", "list", "watch", "prepare", "checkmodel", "create", "compare", "delivery", "points", "connection"}
PanelDoes == {"load", "start", "pause", "resume", "save", "disable", "check"}
Statuses == [known: BOOLEAN, enabled: BOOLEAN, points: BOOLEAN]
PanelParams ==
    [owner: MaybeOwner, gen: MaybeGeneration, job: Jobs, num: Nat, do: PanelDoes, rows: SUBSET Generations,
     state: JobStates \cup {"unknown"}, status: Statuses, flag: BOOLEAN]
Watches ==
    [of: MaybeGeneration, shown: JobStates \cup {"unknown"}, from: MaybeGeneration, loading: BOOLEAN, busy: BOOLEAN, num: Nat]
GenerationRows == [gen: Generations, by: {"load", "create"}]
PanelPages ==
    [users: {"none", "loading", "loaded", "error"}, owner: MaybeOwner, rows: SUBSET GenerationRows,
     selected: MaybeGeneration, epoch: Nat, loading: BOOLEAN, checking: BOOLEAN, notice: MaybeGeneration,
     creating: BOOLEAN, comparing: BOOLEAN, watch: [Jobs -> Watches], status: Statuses, refreshing: BOOLEAN,
     error: BOOLEAN, saving: BOOLEAN, busy: BOOLEAN, ready: BOOLEAN]
Storages ==
    [made: SUBSET Owners, enabled: BOOLEAN, points: BOOLEAN, jobs: [Generations -> [Jobs -> JobStates]]]

(* What the page shows belongs to its owner and to the selected generation;  *)
(* a watch has a number just when it is open.                                *)
PageBelongs(p) ==
    /\ \A row \in p.rows : row.by = "load" => row.gen[1] = p.owner
    /\ p.notice \in {NoGeneration, p.selected}
    /\ \A j \in Jobs : /\ p.watch[j].of \in {NoGeneration, p.selected}
                       /\ p.watch[j].from \in {NoGeneration, p.watch[j].of}
                       /\ p.watch[j].of = NoGeneration <=> p.watch[j].num = 0

(* A request that is newest was sent for what the page shows; r is a request *)
(* or what is asked.                                                         *)
Belongs(r, p) ==
    /\ r.op = "list" => r.arg.num <= p.epoch /\ (r.arg.num = p.epoch => r.arg.owner = p.owner)
    /\ r.op = "checkmodel" =>
          r.arg.num <= p.epoch /\ (r.arg.num = p.epoch => r.arg.gen = p.selected /\ p.checking)
    /\ r.op \in {"watch", "prepare"} => r.arg.num # 0
    /\ r.op = "watch" => /\ r.arg.gen \in Generations
                         /\ r.arg.num = p.watch[r.arg.job].num => r.arg.gen = p.watch[r.arg.job].of
    /\ r.op = "create" => r.arg.owner \in Owners

AnswerBelongs(r) ==
    r.state = "answered" => /\ r.op = "watch" => r.got.gen = r.arg.gen
                            /\ r.op = "list" => \A g \in r.got.rows : g[1] = r.arg.owner

NewestCheck(r, p) == r.op = "checkmodel" /\ r.arg.num = p.epoch

PanelsInv ==
    /\ UnderWay(PanelNames, PanelParams)
    /\ panel \in PanelPages /\ storage \in Storages
    /\ PageBelongs(panel)
    /\ \A r \in net : Belongs(r, panel) /\ AnswerBelongs(r)
    /\ \A r, q \in net : NewestCheck(r, panel) /\ NewestCheck(q, panel) => r.id = q.id

LEMMA PanelFields ==
    ASSUME NEW p \in PanelPages
    PROVE  /\ p.users \in {"none", "loading", "loaded", "error"} /\ p.owner \in MaybeOwner
           /\ p.rows \in SUBSET GenerationRows /\ p.selected \in MaybeGeneration /\ p.epoch \in Nat
           /\ p.loading \in BOOLEAN /\ p.checking \in BOOLEAN /\ p.notice \in MaybeGeneration /\ p.creating \in BOOLEAN
           /\ p.comparing \in BOOLEAN /\ p.watch \in [Jobs -> Watches] /\ p.status \in Statuses
           /\ p.refreshing \in BOOLEAN /\ p.error \in BOOLEAN /\ p.saving \in BOOLEAN /\ p.busy \in BOOLEAN
           /\ p.ready \in BOOLEAN
BY DEF PanelPages

LEMMA WatchFields ==
    ASSUME NEW w \in Watches
    PROVE  /\ w.of \in MaybeGeneration /\ w.shown \in JobStates \cup {"unknown"} /\ w.from \in MaybeGeneration
           /\ w.loading \in BOOLEAN /\ w.busy \in BOOLEAN /\ w.num \in Nat
BY DEF Watches

LEMMA PanelParamFields ==
    ASSUME NEW a \in PanelParams
    PROVE  /\ a.owner \in MaybeOwner /\ a.gen \in MaybeGeneration /\ a.job \in Jobs /\ a.num \in Nat /\ a.do \in PanelDoes
           /\ a.rows \in SUBSET Generations /\ a.state \in JobStates \cup {"unknown"} /\ a.status \in Statuses
           /\ a.flag \in BOOLEAN
BY DEF PanelParams

LEMMA StorageFields ==
    ASSUME NEW s \in Storages
    PROVE  /\ s.made \in SUBSET Owners /\ s.enabled \in BOOLEAN /\ s.points \in BOOLEAN
           /\ s.jobs \in [Generations -> [Jobs -> JobStates]]
BY DEF Storages

LEMMA NoneIsTyped ==
    /\ NoGeneration \notin Generations /\ NoGeneration \in MaybeGeneration /\ NoOwner \in MaybeOwner
    /\ NoStatus \in Statuses
    /\ NoWatch \in Watches /\ NoWatch.of = NoGeneration /\ NoWatch.from = NoGeneration /\ NoWatch.num = 0
    /\ \A g \in Generations : g[1] \in Owners /\ g \in MaybeGeneration
    /\ Jobs = {"build", "verification"} /\ "build" \in Jobs /\ "verification" \in Jobs
<1>1. NoGeneration \notin Generations
  BY OwnerAssumption DEF NoGeneration, Generations
<1>2. NoStatus \in Statuses
  BY DEF NoStatus, Statuses
<1>3. NoWatch \in Watches /\ NoWatch.of = NoGeneration /\ NoWatch.from = NoGeneration /\ NoWatch.num = 0
  BY DEF NoWatch, Watches, MaybeGeneration
<1> QED
  BY <1>1, <1>2, <1>3 DEF MaybeGeneration, MaybeOwner, Generations, Jobs

LEMMA PanelsNow ==
    ASSUME PanelsInv
    PROVE  /\ UnderWay(PanelNames, PanelParams) /\ panel \in PanelPages /\ storage \in Storages
           /\ \A r \in net : /\ r \in RequestsFor(PanelNames, PanelParams) /\ r.op \in PanelNames
                             /\ r.arg \in PanelParams /\ r.got \in PanelParams
                             /\ r.state \in {"sent", "answered", "failed"} /\ r.arg.num \in Nat
           /\ \A r, q \in net : NewestCheck(r, panel) /\ NewestCheck(q, panel) => r = q
<1>1. /\ UnderWay(PanelNames, PanelParams) /\ panel \in PanelPages /\ storage \in Storages
      /\ net \subseteq RequestsFor(PanelNames, PanelParams)
  BY DEF PanelsInv, UnderWay
<1>2. \A r, q \in net : NewestCheck(r, panel) /\ NewestCheck(q, panel) => r = q
  BY DEF PanelsInv, UnderWay
<1> QED
  BY <1>1, <1>2, FieldsOfRequests, PanelParamFields

(* A step of the page. *)
LEMMA PanelsMove ==
    ASSUME PanelsInv, NEW done, NEW asks \in Seq(AsksFor(PanelNames, PanelParams)), Exchange(done, asks),
           Len(asks) \in {0, 1},
           task' = task, clicks' \in 0..task.clicks, faults' = faults, storage' = storage,
           panel' \in PanelPages, PageBelongs(panel'),
           \A r \in net : r \notin done => Belongs(r, panel'),
           \A i \in DOMAIN asks : Belongs(asks[i], panel'),
           \/ panel'.epoch = panel.epoch /\ \A i \in DOMAIN asks : asks[i].op # "checkmodel"
           \/ panel'.epoch = panel.epoch + 1
    PROVE  PanelsInv'
<1>0. /\ UnderWay(PanelNames, PanelParams) /\ storage \in Storages /\ panel.epoch \in Nat
      /\ \A r \in net : r.arg.num \in Nat
  BY PanelsNow, PanelFields
<1>1. /\ UnderWay(PanelNames, PanelParams)'
      /\ \A r \in net' : (r \in net /\ r \notin done) \/ (r \notin net /\ \E i \in DOMAIN asks : SentFor(r, asks[i]))
      /\ Len(asks) = 1 => \A r, q \in net' \ net : r = q
  BY <1>0, Exchanged
<1>2. \A r \in net' : Belongs(r, panel')
  BY <1>1 DEF Belongs, SentFor
<1>3. \A r \in net' : AnswerBelongs(r)
  BY <1>1 DEF PanelsInv, AnswerBelongs, SentFor
<1>4. \A r, q \in net' : NewestCheck(r, panel') /\ NewestCheck(q, panel') => r.id = q.id
  <2>1. CASE panel'.epoch = panel.epoch /\ \A i \in DOMAIN asks : asks[i].op # "checkmodel"
    BY <1>1, <2>1 DEF PanelsInv, NewestCheck, SentFor
  <2>2. CASE panel'.epoch = panel.epoch + 1
    <3>1. \A r \in net : ~NewestCheck(r, panel')
      BY <1>0, <2>2 DEF PanelsInv, NewestCheck, Belongs
    <3>2. CASE Len(asks) = 1
      BY <1>1, <3>1, <3>2
    <3>3. CASE Len(asks) = 0
      BY <1>1, <3>1, <3>3
    <3> QED
      BY <3>2, <3>3
  <2> QED
    BY <2>1, <2>2
<1> QED
  BY <1>0, <1>1, <1>2, <1>3, <1>4 DEF PanelsInv, Belongs, AnswerBelongs, NewestCheck, PageBelongs

(* q shows for what p shows. *)
SameWatch(w, v) ==
    \A j \in Jobs : w[j].of = v[j].of /\ w[j].from = v[j].from /\ w[j].num = v[j].num
SameShown(p, q) ==
    /\ p.owner = q.owner /\ p.rows = q.rows /\ p.selected = q.selected /\ p.epoch = q.epoch /\ p.checking = q.checking
    /\ p.notice = q.notice /\ SameWatch(p.watch, q.watch)

LEMMA SameBelongs ==
    ASSUME NEW p, NEW q, SameShown(p, q)
    PROVE  /\ PageBelongs(p) => PageBelongs(q)
           /\ \A r : r.arg.job \in Jobs /\ Belongs(r, p) => Belongs(r, q)
BY DEF SameShown, SameWatch, PageBelongs, Belongs

(* What is shown stays. *)
LEMMA PanelsStay ==
    ASSUME PanelsInv, NEW done, NEW asks \in Seq(AsksFor(PanelNames, PanelParams)), Exchange(done, asks),
           Len(asks) \in {0, 1}, task' = task, clicks' \in 0..task.clicks, faults' = faults, storage' = storage,
           panel' \in PanelPages, SameShown(panel, panel'),
           \A i \in DOMAIN asks : asks[i].op # "checkmodel" /\ Belongs(asks[i], panel)
    PROVE  PanelsInv'
<1>1. PageBelongs(panel')
  BY SameBelongs DEF PanelsInv
<1>2. \A r \in net : r.arg.job \in Jobs
  BY PanelsNow, PanelParamFields
<1>3. \A i \in DOMAIN asks : asks[i].arg.job \in Jobs
  <2>1. \A i \in DOMAIN asks : asks[i] \in AsksFor(PanelNames, PanelParams)
    OBVIOUS
  <2>2. \A a \in AsksFor(PanelNames, PanelParams) : a.arg \in PanelParams
    BY DEF AsksFor
  <2> QED
    BY <2>1, <2>2, PanelParamFields
<1>4. \A r \in net : Belongs(r, panel')
  BY <1>2, SameBelongs DEF PanelsInv
<1>5. \A i \in DOMAIN asks : Belongs(asks[i], panel')
  BY <1>3, SameBelongs
<1>6. panel'.epoch = panel.epoch
  BY DEF SameShown
<1> QED
  BY <1>1, <1>4, <1>5, <1>6, PanelsMove

LEMMA PanelAsked ==
    ASSUME NEW op \in PanelNames, NEW P \in PanelParams
    PROVE  /\ Asked(op, P) \in Seq(AsksFor(PanelNames, PanelParams)) /\ Len(Asked(op, P)) = 1
           /\ Single(Asked(op, P), op, P)
<1> DEFINE asks == <<Ask(op, FALSE, P)>>
<1>1. asks = <<Ask(op, FALSE, P)>> /\ Asked(op, P) = asks
  BY DEF Asked
<1> HIDE DEF asks
<1> QED
  BY <1>1, OneAsk

LEMMA PanelPressed ==
    ASSUME PanelsInv, NEW act, NEW p, NEW asks, Pressed(act, p, asks)
    PROVE  /\ panel' = p /\ storage' = storage /\ Exchange({}, asks) /\ task' = task /\ clicks' \in 0..task.clicks
           /\ faults' = faults
<1>1. UnderWay(PanelNames, PanelParams) /\ Click(act, asks) /\ panel' = p /\ storage' = storage
  BY PanelsNow DEF Pressed
<1> QED
  BY <1>1, Clicked1

LEMMA PanelTurned ==
    ASSUME PanelsInv, NEW p, NEW done, NEW asks, Turns(p, done, asks)
    PROVE  /\ panel' = p /\ storage' = storage /\ Exchange(done, asks) /\ task' = task /\ clicks' \in 0..task.clicks
           /\ faults' = faults
<1>1. UnderWay(PanelNames, PanelParams) /\ React(done, asks) /\ panel' = p /\ storage' = storage
  BY PanelsNow DEF Turns
<1> QED
  BY <1>1, Reacted

LEMMA SameAsBefore ==
    ASSUME NEW p \in PanelPages
    PROVE  SameShown(p, p)
BY DEF SameShown, SameWatch

(* A click, or an answer, that changes nothing of what is shown. *)
LEMMA PanelPressedOn ==
    ASSUME PanelsInv, NEW p \in PanelPages, SameShown(panel, p), NEW act, NEW op \in PanelNames, NEW P \in PanelParams,
           op \notin {"list", "checkmodel", "watch", "prepare", "create"} \/ Belongs(Ask(op, FALSE, P), panel),
           op # "checkmodel",
           Pressed(act, p, Asked(op, P))
    PROVE  PanelsInv'
<1> DEFINE asks == Asked(op, P)
           done == {}
<1>1. /\ asks \in Seq(AsksFor(PanelNames, PanelParams)) /\ Len(asks) \in {0, 1} /\ Single(asks, op, P)
  BY PanelAsked
<1>2. Pressed(act, p, asks)
  OBVIOUS
<1> HIDE DEF asks
<1>3. /\ panel' = p /\ storage' = storage /\ Exchange(done, asks) /\ task' = task /\ clicks' \in 0..task.clicks
      /\ faults' = faults
  BY <1>2, PanelPressed
<1>4. \A i \in DOMAIN asks : asks[i].op # "checkmodel" /\ Belongs(asks[i], panel)
  <2>1. Ask(op, FALSE, P).op = op /\ Ask(op, FALSE, P).arg = P
    BY DEF Ask
  <2> QED
    BY <1>1, <2>1 DEF Single, Belongs
<1> HIDE DEF done
<1> QED
  BY <1>1, <1>3, <1>4, PanelsStay

LEMMA PanelTurnedOn ==
    ASSUME PanelsInv, NEW p \in PanelPages, SameShown(panel, p), NEW done, Turns(p, done, <<>>)
    PROVE  PanelsInv'
<1> DEFINE none == <<>>
<1>1. none \in Seq(AsksFor(PanelNames, PanelParams)) /\ Len(none) \in {0, 1} /\ DOMAIN none = {}
  OBVIOUS
<1>2. Turns(p, done, none)
  OBVIOUS
<1> HIDE DEF none
<1>3. /\ panel' = p /\ storage' = storage /\ Exchange(done, none) /\ task' = task /\ clicks' \in 0..task.clicks
      /\ faults' = faults
  BY <1>2, PanelTurned
<1> QED
  BY <1>1, <1>3, PanelsStay

LEMMA PanelTurnedAsking ==
    ASSUME PanelsInv, NEW p \in PanelPages, SameShown(panel, p), NEW done, NEW op \in PanelNames, NEW P \in PanelParams,
           op \notin {"list", "checkmodel", "watch", "prepare", "create"} \/ Belongs(Ask(op, FALSE, P), panel),
           op # "checkmodel",
           Turns(p, done, Asked(op, P))
    PROVE  PanelsInv'
<1> DEFINE asks == Asked(op, P)
<1>1. /\ asks \in Seq(AsksFor(PanelNames, PanelParams)) /\ Len(asks) \in {0, 1} /\ Single(asks, op, P)
  BY PanelAsked
<1>2. Turns(p, done, asks)
  OBVIOUS
<1> HIDE DEF asks
<1>3. /\ panel' = p /\ storage' = storage /\ Exchange(done, asks) /\ task' = task /\ clicks' \in 0..task.clicks
      /\ faults' = faults
  BY <1>2, PanelTurned
<1>4. \A i \in DOMAIN asks : asks[i].op # "checkmodel" /\ Belongs(asks[i], panel)
  <2>1. Ask(op, FALSE, P).op = op /\ Ask(op, FALSE, P).arg = P
    BY DEF Ask
  <2> QED
    BY <1>1, <2>1 DEF Single, Belongs
<1> QED
  BY <1>1, <1>3, <1>4, PanelsStay

(* A new panel takes a number that no request under way has.                 *)
LEMMA FreshNumberIsFree ==
    ASSUME PanelsInv
    PROVE  /\ FreshNumber \in Nat \ {0}
           /\ \A r \in net : r.op \in {"watch", "prepare"} => r.arg.num # FreshNumber
<1> DEFINE asked == Open("watch") \cup Open("prepare")
           used == {r.arg.num : r \in asked}
           all == 1..(Cardinality(net) + 1)
           free == all \ used
<1>0. IsFiniteSet(net) /\ Cardinality(net) \in Nat /\ asked \subseteq net /\ \A r \in net : r.arg.num \in Nat
  BY PanelsNow, FS_CardinalityType DEF UnderWay, Open
<1>1. IsFiniteSet(used) /\ Cardinality(used) <= Cardinality(net) /\ Cardinality(used) \in Nat
  <2> DEFINE f == [r \in asked |-> r.arg.num]
  <2>1. f \in Surjection(asked, used)
    BY DEF Surjection
  <2> HIDE DEF f, used, asked
  <2>2. IsFiniteSet(asked) /\ Cardinality(asked) <= Cardinality(net)
    BY <1>0, FS_Subset
  <2>3. IsFiniteSet(used) /\ Cardinality(used) <= Cardinality(asked)
    BY <2>1, <2>2, FS_Surjection
  <2>4. Cardinality(used) \in Nat /\ Cardinality(asked) \in Nat
    BY <2>2, <2>3, FS_CardinalityType
  <2> QED
    BY <1>0, <2>2, <2>3, <2>4
<1>2. IsFiniteSet(all) /\ Cardinality(all) = Cardinality(net) + 1
  <2>1. Cardinality(net) + 1 \in Nat
    BY <1>0
  <2> HIDE DEF used, asked
  <2> QED
    BY <2>1, Interval
<1>3. free # {}
  <2> HIDE DEF used, all, asked
  <2> SUFFICES ASSUME all \subseteq used
               PROVE  FALSE
    OBVIOUS
  <2>1. Cardinality(all) <= Cardinality(used)
    BY <1>1, FS_Subset
  <2> QED
    BY <1>0, <1>1, <1>2, <2>1
<1>4. free \in SUBSET Nat
  BY <1>0
<1>5. PICK n \in free : \A m \in free : n <= m
  <2> HIDE DEF free
  <2> QED BY <1>3, <1>4, LeastMember
<1>6. \A x \in 1..(n - 1) : x \in used
  <2> SUFFICES ASSUME NEW x \in 1..(n - 1), x \notin used
               PROVE  FALSE
    OBVIOUS
  <2>1. n \in all /\ n \in Nat
    BY <1>4, <1>5
  <2>2. x \in all /\ x < n /\ x \in Nat
    BY <1>0, <2>1
  <2> QED
    BY <1>5, <2>1, <2>2
<1>7. FreshNumber = CHOOSE x \in free : \A m \in 1..(x - 1) : m \in used
  BY DEF FreshNumber
<1>8. FreshNumber \in free
  <2> HIDE DEF used, free
  <2> QED BY <1>5, <1>6, <1>7
<1>9. \A x \in all : x \in Nat \ {0}
  BY <1>0
<1>a. \A r \in net : r.op \in {"watch", "prepare"} => r.arg.num \in used
  BY DEF Open
<1> HIDE DEF used, all, asked
<1> QED
  BY <1>8, <1>9, <1>a

LEMMA PanelQueries ==
    /\ Query \in PanelParams
    /\ \A owner \in MaybeOwner, n \in Nat :
          LET P == [Query EXCEPT !.owner = owner, !.num = n] IN P \in PanelParams /\ P.owner = owner /\ P.num = n
    /\ \A owner \in MaybeOwner, g \in MaybeGeneration, n \in Nat :
          LET P == [Query EXCEPT !.owner = owner, !.gen = g, !.num = n]
          IN  P \in PanelParams /\ P.owner = owner /\ P.gen = g /\ P.num = n
    /\ \A owner \in MaybeOwner : LET P == [Query EXCEPT !.owner = owner] IN P \in PanelParams /\ P.owner = owner
    /\ \A flag \in BOOLEAN : [Query EXCEPT !.flag = flag] \in PanelParams
    /\ \A do \in PanelDoes, flag \in BOOLEAN : [Query EXCEPT !.do = do, !.flag = flag] \in PanelParams
<1>1. Query \in PanelParams
  BY NoneIsTyped DEF Query, PanelParams, PanelDoes
<1>2. \A P \in PanelParams, owner \in MaybeOwner, n \in Nat :
         LET Q == [P EXCEPT !.owner = owner, !.num = n] IN Q \in PanelParams /\ Q.owner = owner /\ Q.num = n
  BY DEF PanelParams
<1>3. \A P \in PanelParams, owner \in MaybeOwner, g \in MaybeGeneration, n \in Nat :
         LET Q == [P EXCEPT !.owner = owner, !.gen = g, !.num = n]
         IN  Q \in PanelParams /\ Q.owner = owner /\ Q.gen = g /\ Q.num = n
  BY DEF PanelParams
<1>4. \A P \in PanelParams, owner \in MaybeOwner : LET Q == [P EXCEPT !.owner = owner] IN Q \in PanelParams /\ Q.owner = owner
  BY DEF PanelParams
<1>6. \A P \in PanelParams, flag \in BOOLEAN : [P EXCEPT !.flag = flag] \in PanelParams
  BY DEF PanelParams
<1>7. \A P \in PanelParams, do \in PanelDoes, flag \in BOOLEAN : [P EXCEPT !.do = do, !.flag = flag] \in PanelParams
  BY DEF PanelParams
<1> HIDE DEF PanelParams
<1> QED
  BY <1>1, <1>2, <1>3, <1>4, <1>6, <1>7

LEMMA WatchAsked ==
    ASSUME NEW p \in PanelPages, NEW j \in Jobs, NEW do \in PanelDoes, NEW asks, asks = WatchAsk(p, j, do)
    PROVE  /\ asks \in Seq(AsksFor(PanelNames, PanelParams)) /\ Len(asks) = 1
           /\ \A i \in DOMAIN asks : /\ asks[i].op = "watch" /\ asks[i].arg.gen = p.watch[j].of
                                     /\ asks[i].arg.job = j /\ asks[i].arg.num = p.watch[j].num
<1> DEFINE owner == p.owner
           of == p.watch[j].of
           num == p.watch[j].num
           P == [Query EXCEPT !.owner = owner, !.gen = of, !.job = j, !.num = num, !.do = do]
<1>1. owner \in MaybeOwner /\ of \in MaybeGeneration /\ num \in Nat
  BY PanelFields, WatchFields
<1>2. asks = Asked("watch", P) /\ "watch" \in PanelNames /\ of = p.watch[j].of /\ num = p.watch[j].num
  BY DEF WatchAsk, PanelNames
<1>3. P = [Query EXCEPT !.owner = owner, !.gen = of, !.job = j, !.num = num, !.do = do]
  OBVIOUS
<1> HIDE DEF owner, of, num, P
<1>4. P \in PanelParams /\ P.gen = of /\ P.job = j /\ P.num = num
  BY <1>1, <1>3, PanelQueries DEF PanelParams
<1>5. asks \in Seq(AsksFor(PanelNames, PanelParams)) /\ Len(asks) = 1 /\ Single(asks, "watch", P)
  BY <1>2, <1>4, PanelAsked
<1> QED
  BY <1>2, <1>4, <1>5 DEF Single

(* A panel begins to watch g. *)
LEMMA WatchIsMounted ==
    ASSUME NEW p \in PanelPages, NEW j \in Jobs, NEW g \in Generations, FreshNumber \in Nat \ {0},
           NEW q, q = MountedFor(p, j, g)
    PROVE  /\ q \in PanelPages
           /\ q.owner = p.owner /\ q.rows = p.rows /\ q.selected = p.selected /\ q.epoch = p.epoch
           /\ q.checking = p.checking /\ q.notice = p.notice
           /\ q.watch[j].of = g /\ q.watch[j].from = NoGeneration /\ q.watch[j].num = FreshNumber
           /\ \A i \in Jobs : i # j => q.watch[i] = p.watch[i]
<1> DEFINE w == [NoWatch EXCEPT !.of = g, !.num = FreshNumber]
           v == [w EXCEPT !.loading = TRUE]
           watch == [p.watch EXCEPT ![j] = v]
<1>0. g \in MaybeGeneration /\ p.watch \in [Jobs -> Watches]
  BY NoneIsTyped, PanelFields
<1>1. w \in Watches /\ w.of = g /\ w.from = NoGeneration /\ w.num = FreshNumber
  BY <1>0, NoneIsTyped DEF Watches
<1>2. q = [p EXCEPT !.watch = watch]
  <2>1. MountedFor(p, j, g) = [[p EXCEPT !.watch[j] = w] EXCEPT !.watch[j].loading = TRUE]
    BY DEF MountedFor, Requested
  <2> HIDE DEF w
  <2>2. [p EXCEPT !.watch[j] = w].watch = [p.watch EXCEPT ![j] = w] /\ [p.watch EXCEPT ![j] = w][j] = w
    BY <1>0 DEF PanelPages
  <2>3. [[p EXCEPT !.watch[j] = w] EXCEPT !.watch[j].loading = TRUE] = [p EXCEPT !.watch = watch]
    BY <1>0, <2>2 DEF PanelPages
  <2> QED
    BY <2>1, <2>3
<1> HIDE DEF w
<1>3. v \in Watches /\ v.of = g /\ v.from = NoGeneration /\ v.num = FreshNumber
  BY <1>1 DEF Watches
<1> HIDE DEF v
<1>4. watch \in [Jobs -> Watches] /\ watch[j] = v /\ \A i \in Jobs : i # j => watch[i] = p.watch[i]
  BY <1>0, <1>3
<1> HIDE DEF watch
<1>5. /\ q \in PanelPages /\ q.owner = p.owner /\ q.rows = p.rows /\ q.selected = p.selected /\ q.epoch = p.epoch
      /\ q.checking = p.checking /\ q.notice = p.notice /\ q.watch = watch
  BY <1>2, <1>4 DEF PanelPages
<1> QED
  BY <1>3, <1>4, <1>5

(* A generation is selected: its build is watched under a fresh number. *)
LEMMA GenerationWatched ==
    ASSUME PanelsInv, NEW q \in PanelPages, q.owner = panel.owner, q.epoch = panel.epoch, q.checking = panel.checking,
           \A row \in q.rows : row.by = "load" => row.gen[1] = q.owner,
           NEW g \in Generations, NEW p, p = SelectedGeneration(q, g),
           NEW done, Exchange(done, WatchAsk(p, "build", "load")),
           task' = task, clicks' \in 0..task.clicks, faults' = faults, storage' = storage, panel' = p
    PROVE  PanelsInv'
<1> DEFINE epoch == IF q.checking THEN q.epoch + 1 ELSE q.epoch
           watch == [q.watch EXCEPT !["verification"] = NoWatch]
           n == [q EXCEPT !.selected = g, !.notice = NoGeneration, !.watch = watch, !.epoch = epoch, !.checking = FALSE]
           asks == WatchAsk(p, "build", "load")
<1>0. /\ FreshNumber \in Nat \ {0}
      /\ \A r \in net : r.op \in {"watch", "prepare"} => r.arg.num # FreshNumber
      /\ q.epoch \in Nat /\ q.checking \in BOOLEAN /\ q.watch \in [Jobs -> Watches]
  BY FreshNumberIsFree, PanelFields
<1>1. p = MountedFor(n, "build", g)
  <2>1. [q EXCEPT !.selected = g, !.notice = NoGeneration, !.watch["verification"] = NoWatch,
                   !.epoch = IF q.checking THEN @ + 1 ELSE @, !.checking = FALSE] = n
    BY DEF PanelPages
  <2> HIDE DEF n
  <2> QED
    BY <2>1 DEF SelectedGeneration
<1>2. epoch \in Nat /\ watch \in [Jobs -> Watches] /\ g \in MaybeGeneration /\ watch["verification"] = NoWatch
  BY <1>0, NoneIsTyped
<1>3. (q.checking => epoch = q.epoch + 1) /\ (~q.checking => epoch = q.epoch)
  OBVIOUS
<1> HIDE DEF epoch, watch
<1>4. /\ n \in PanelPages /\ n.selected = g /\ n.notice = NoGeneration /\ n.watch = watch /\ n.epoch = epoch
      /\ ~n.checking /\ n.owner = q.owner /\ n.rows = q.rows
  BY <1>2, NoneIsTyped DEF PanelPages
<1> HIDE DEF n
<1>5. /\ p \in PanelPages
      /\ p.owner = q.owner /\ p.rows = q.rows /\ p.selected = g /\ p.epoch = epoch
      /\ ~p.checking /\ p.notice = NoGeneration
      /\ p.watch["build"].of = g /\ p.watch["build"].from = NoGeneration /\ p.watch["build"].num = FreshNumber
      /\ p.watch["verification"] = NoWatch
  <2>1. "build" \in Jobs /\ "verification" \in Jobs /\ "verification" # "build"
    BY NoneIsTyped
  <2> QED
    BY <1>0, <1>1, <1>2, <1>4, <2>1, WatchIsMounted
<1>6. /\ asks \in Seq(AsksFor(PanelNames, PanelParams)) /\ Len(asks) = 1
      /\ \A i \in DOMAIN asks : /\ asks[i].op = "watch" /\ asks[i].arg.gen = g
                                /\ asks[i].arg.job = "build" /\ asks[i].arg.num = FreshNumber
  <2>1. "build" \in Jobs /\ "load" \in PanelDoes
    BY NoneIsTyped DEF PanelDoes
  <2> QED
    BY <1>5, <2>1, WatchAsked
<1>7. Exchange(done, asks)
  OBVIOUS
<1> HIDE DEF asks
<1>8. PageBelongs(panel')
  <2>1. g # NoGeneration
    BY NoneIsTyped
  <2>2. \A j \in Jobs : /\ p.watch[j].of \in {NoGeneration, g}
                        /\ p.watch[j].from \in {NoGeneration, p.watch[j].of}
                        /\ p.watch[j].of = NoGeneration <=> p.watch[j].num = 0
    <3>1. \A j \in Jobs : j = "build" \/ j = "verification"
      BY NoneIsTyped
    <3> QED
      BY <1>0, <1>5, <2>1, <3>1, NoneIsTyped
  <2> QED
    BY <1>5, <2>2 DEF PageBelongs
<1>9. \A r \in net : Belongs(r, panel')
  <2> SUFFICES ASSUME NEW r \in net
               PROVE  Belongs(r, p)
    OBVIOUS
  <2>1. Belongs(r, panel) /\ r.arg.num \in Nat /\ r.arg.job \in Jobs
    BY PanelsNow, PanelParamFields DEF PanelsInv
  <2>2. r.op = "list" => r.arg.num <= p.epoch /\ (r.arg.num = p.epoch => r.arg.owner = p.owner)
    BY <1>0, <1>3, <1>5, <2>1 DEF Belongs
  <2>3. r.op = "checkmodel" => r.arg.num <= p.epoch /\ r.arg.num # p.epoch
    BY <1>0, <1>3, <1>5, <2>1 DEF Belongs
  <2>4. r.op \in {"watch", "prepare"} => r.arg.num # 0
    BY <2>1 DEF Belongs
  <2>5. r.op = "watch" => r.arg.gen \in Generations /\ r.arg.num # p.watch[r.arg.job].num
    <3>1. r.arg.job = "build" \/ r.arg.job = "verification"
      BY <2>1, NoneIsTyped
    <3> QED
      BY <1>0, <1>5, <2>1, <2>4, <3>1, NoneIsTyped DEF Belongs
  <2> QED
    BY <2>1, <2>2, <2>3, <2>4, <2>5 DEF Belongs
<1>a. \A i \in DOMAIN asks : Belongs(asks[i], panel')
  BY <1>0, <1>5, <1>6 DEF Belongs
<1>b. \/ panel'.epoch = panel.epoch /\ \A i \in DOMAIN asks : asks[i].op # "checkmodel"
      \/ panel'.epoch = panel.epoch + 1
  BY <1>0, <1>3, <1>5, <1>6
<1> QED
  BY <1>5, <1>6, <1>7, <1>8, <1>9, <1>a, <1>b, PanelsMove

LEMMA GenerationIsSelected ==
    ASSUME PanelsInv, SelectGeneration
    PROVE  PanelsInv'
<1>1. PICK row \in panel.rows :
        LET p == SelectedGeneration(panel, row.gen) IN Pressed("generation", p, WatchAsk(p, "build", "load"))
  BY DEF SelectGeneration
<1> DEFINE p == SelectedGeneration(panel, row.gen)
           asks == WatchAsk(p, "build", "load")
<1>2. row.gen \in Generations /\ panel \in PanelPages
  BY PanelsNow, PanelFields DEF GenerationRows
<1>3. Pressed("generation", p, asks)
  BY <1>1
<1>4. p = SelectedGeneration(panel, row.gen) /\ asks = WatchAsk(p, "build", "load")
  OBVIOUS
<1>5. \A x \in panel.rows : x.by = "load" => x.gen[1] = panel.owner
  BY DEF PanelsInv, PageBelongs
<1> HIDE DEF p, asks
<1>6. /\ panel' = p /\ storage' = storage /\ Exchange({}, asks) /\ task' = task /\ clicks' \in 0..task.clicks
      /\ faults' = faults
  BY <1>3, PanelPressed
<1> QED
  BY <1>2, <1>4, <1>5, <1>6, GenerationWatched

(* A generation was created: it is selected, whoever the owner is by now. *)
LEMMA GenerationWasCreated ==
    ASSUME PanelsInv, CreatedBack
    PROVE  PanelsInv'
<1>0. panel \in PanelPages
  BY PanelsNow
<1> DEFINE Gen(r) == <<r.arg.owner, "qdrant">>
           Rows(r) == {row \in panel.rows : row.gen # Gen(r)} \cup {[gen |-> Gen(r), by |-> "create"]}
           Made(r) == [panel EXCEPT !.creating = FALSE, !.rows = Rows(r)]
           Page(r) == SelectedGeneration(Made(r), Gen(r))
<1>1. PICK r \in Back("create") :
        IF r.state = "answered" THEN Turns(Page(r), {r}, WatchAsk(Page(r), "build", "load"))
        ELSE Turns([panel EXCEPT !.creating = FALSE], {r}, <<>>)
  BY <1>0 DEF CreatedBack, PanelPages
<1>2. CASE r.state = "answered"
  <2> DEFINE g == Gen(r)
             q == Made(r)
             rows == Rows(r)
             p == Page(r)
             asks == WatchAsk(p, "build", "load")
  <2>1. r.arg.owner \in Owners
    BY DEF Back, Open, PanelsInv, Belongs
  <2>2. g \in Generations
    BY <2>1 DEF Generations
  <2>3. rows \in SUBSET GenerationRows /\ \A row \in rows : row \in panel.rows \/ row.by = "create"
    BY <1>0, <2>2, PanelFields DEF GenerationRows
  <2>4. p = SelectedGeneration(q, g) /\ asks = WatchAsk(p, "build", "load") /\ Turns(p, {r}, asks)
    BY <1>1, <1>2
  <2>5. q = [panel EXCEPT !.creating = FALSE, !.rows = rows]
    OBVIOUS
  <2> HIDE DEF g, q, rows, p, asks, Gen, Rows, Made, Page
  <2>6. q \in PanelPages /\ q.owner = panel.owner /\ q.epoch = panel.epoch /\ q.checking = panel.checking /\ q.rows = rows
    BY <1>0, <2>3, <2>5 DEF PanelPages
  <2>7. \A row \in q.rows : row.by = "load" => row.gen[1] = q.owner
    BY <2>3, <2>6 DEF PanelsInv, PageBelongs
  <2>8. /\ panel' = p /\ storage' = storage /\ Exchange({r}, asks) /\ task' = task /\ clicks' \in 0..task.clicks
        /\ faults' = faults
    BY <2>4, PanelTurned
  <2> QED
    BY <2>2, <2>4, <2>6, <2>7, <2>8, GenerationWatched
<1>3. CASE r.state # "answered"
  <2> DEFINE p == [panel EXCEPT !.creating = FALSE]
  <2>1. p \in PanelPages /\ SameShown(panel, p)
    BY <1>0 DEF PanelPages, SameShown, SameWatch
  <2>2. Turns(p, {r}, <<>>)
    BY <1>1, <1>3
  <2> HIDE DEF p
  <2> QED
    BY <2>1, <2>2, PanelTurnedOn
<1> QED
  BY <1>2, <1>3

(* An owner is chosen: what was shown goes away, and his generations are     *)
(* asked for under the next number.                                          *)
LEMMA OwnerIsChosen ==
    ASSUME PanelsInv, ChooseOwner
    PROVE  PanelsInv'
<1>0. panel \in PanelPages /\ panel.epoch \in Nat
  BY PanelsNow, PanelFields
<1>1. PICK owner \in Owners :
        LET p == ListingFor(panel, owner) IN Pressed("owner", p, ListAskFor(p))
  BY DEF ChooseOwner
<1> DEFINE epoch == panel.epoch + 1
           watch == [j \in Jobs |-> NoWatch]
           p == [panel EXCEPT !.owner = owner, !.epoch = epoch, !.loading = TRUE, !.checking = FALSE,
                    !.selected = NoGeneration, !.notice = NoGeneration, !.rows = {}, !.watch = watch]
           P == [Query EXCEPT !.owner = p.owner, !.num = p.epoch]
           asks == Asked("list", P)
           done == {}
<1>2. Pressed("owner", p, asks)
  <2>1. ListingFor(panel, owner) = p
    BY <1>0 DEF ListingFor, PanelPages
  <2> HIDE DEF p
  <2> QED
    BY <1>1, <2>1 DEF ListAskFor
<1>3. /\ owner \in MaybeOwner /\ epoch \in Nat /\ epoch = panel.epoch + 1 /\ watch \in [Jobs -> Watches]
      /\ NoGeneration \in MaybeGeneration /\ {} \in SUBSET GenerationRows
      /\ \A j \in Jobs : watch[j].of = NoGeneration /\ watch[j].from = NoGeneration /\ watch[j].num = 0
  BY <1>0, NoneIsTyped DEF MaybeOwner
<1> HIDE DEF epoch, watch
<1>4. /\ p \in PanelPages /\ p.owner = owner /\ p.epoch = epoch /\ p.rows = {} /\ p.selected = NoGeneration
      /\ p.notice = NoGeneration /\ p.watch = watch
  BY <1>0, <1>3 DEF PanelPages
<1> HIDE DEF p
<1> DEFINE to == p.owner
           num == p.epoch
<1>b. P = [Query EXCEPT !.owner = to, !.num = num] /\ to = owner /\ num = epoch
  BY <1>4
<1> HIDE DEF P, to, num
<1>5. P \in PanelParams /\ P.owner = owner /\ P.num = epoch /\ "list" \in PanelNames
  BY <1>3, <1>b, PanelQueries DEF PanelNames, PanelParams
<1>6. asks \in Seq(AsksFor(PanelNames, PanelParams)) /\ Len(asks) \in {0, 1} /\ Single(asks, "list", P)
  BY <1>5, PanelAsked
<1> HIDE DEF asks
<1>7. /\ panel' = p /\ storage' = storage /\ Exchange(done, asks) /\ task' = task /\ clicks' \in 0..task.clicks
      /\ faults' = faults
  BY <1>2, PanelPressed
<1> HIDE DEF done
<1>8. PageBelongs(panel')
  BY <1>3, <1>4, <1>7 DEF PageBelongs
<1>9. \A r \in net : Belongs(r, panel')
  <2> SUFFICES ASSUME NEW r \in net
               PROVE  Belongs(r, p)
    BY <1>7
  <2>1. Belongs(r, panel) /\ r.arg.num \in Nat /\ r.arg.job \in Jobs
    BY PanelsNow, PanelParamFields DEF PanelsInv
  <2> QED
    BY <1>0, <1>3, <1>4, <2>1 DEF Belongs
<1>a. \A i \in DOMAIN asks : Belongs(asks[i], panel')
  <2>1. epoch <= epoch
    BY <1>3
  <2> QED
    BY <1>4, <1>5, <1>6, <1>7, <2>1 DEF Belongs, Single
<1> QED
  BY <1>3, <1>4, <1>6, <1>7, <1>8, <1>9, <1>a, PanelsMove

LEMMA GenerationsCame ==
    ASSUME PanelsInv, GenerationsBack
    PROVE  PanelsInv'
<1>0. /\ panel \in PanelPages
      /\ \A r \in net : r.got \in PanelParams
  BY PanelsNow
<1> DEFINE Rows(r) == IF r.state = "answered" THEN {[gen |-> g, by |-> "load"] : g \in r.got.rows} ELSE panel.rows
<1>1. PICK r \in Back("list") :
        Turns(IF ~IsNewest(r) THEN panel ELSE [panel EXCEPT !.loading = FALSE, !.rows = Rows(r)], {r}, <<>>)
  BY <1>0 DEF GenerationsBack, PanelPages
<1>2. r \in net /\ r.op = "list"
  BY DEF Back, Open
<1>3. CASE ~IsNewest(r)
  <2>1. Turns(panel, {r}, <<>>)
    BY <1>1, <1>3
  <2> QED
    BY <1>0, <2>1, SameAsBefore, PanelTurnedOn
<1>4. CASE IsNewest(r)
  <2> DEFINE rows == Rows(r)
             p == [panel EXCEPT !.loading = FALSE, !.rows = rows]
             none == <<>>
             done == {r}
  <2>1. rows \in SUBSET GenerationRows
    <3>1. r.got.rows \in SUBSET Generations /\ panel.rows \in SUBSET GenerationRows
      BY <1>0, <1>2, PanelParamFields, PanelFields
    <3> QED
      BY <3>1 DEF GenerationRows
  <2>2. \A row \in rows : row.by = "load" => row.gen[1] = panel.owner
    <3>1. r.state = "answered" => \A g \in r.got.rows : g[1] = r.arg.owner
      BY <1>2 DEF PanelsInv, AnswerBelongs
    <3>2. r.arg.owner = panel.owner
      BY <1>2, <1>4 DEF PanelsInv, Belongs, IsNewest
    <3> QED
      BY <3>1, <3>2 DEF PanelsInv, PageBelongs
  <2>3. Turns(p, done, none) /\ none \in Seq(AsksFor(PanelNames, PanelParams)) /\ Len(none) \in {0, 1} /\ DOMAIN none = {}
    BY <1>1, <1>4
  <2> HIDE DEF rows, none, done, Rows
  <2>4. /\ p \in PanelPages /\ p.owner = panel.owner /\ p.rows = rows /\ p.selected = panel.selected /\ p.epoch = panel.epoch
        /\ p.checking = panel.checking /\ p.notice = panel.notice /\ p.watch = panel.watch
    BY <1>0, <2>1 DEF PanelPages
  <2> HIDE DEF p
  <2>5. /\ panel' = p /\ storage' = storage /\ Exchange(done, none) /\ task' = task /\ clicks' \in 0..task.clicks
        /\ faults' = faults
    BY <2>3, PanelTurned
  <2>6. PageBelongs(panel') /\ \A q \in net : Belongs(q, panel')
    BY <2>2, <2>4, <2>5 DEF PanelsInv, PageBelongs, Belongs
  <2> QED
    BY <2>3, <2>4, <2>5, <2>6, PanelsMove
<1> QED
  BY <1>3, <1>4

(* The watch of a job changes, but for what it watches. *)
LEMMA WatchChanges ==
    ASSUME NEW p \in PanelPages, NEW j \in Jobs, NEW w \in Watches,
           w.of = p.watch[j].of, w.from = p.watch[j].from, w.num = p.watch[j].num, NEW q, q = [p EXCEPT !.watch[j] = w]
    PROVE  q \in PanelPages /\ SameShown(p, q) /\ q.watch[j] = w
<1> DEFINE watch == [p.watch EXCEPT ![j] = w]
<1>1. /\ watch \in [Jobs -> Watches] /\ watch[j] = w /\ SameWatch(p.watch, watch)
  BY PanelFields DEF SameWatch
<1>2. q = [p EXCEPT !.watch = watch]
  BY DEF PanelPages
<1> HIDE DEF watch
<1>3. /\ q \in PanelPages /\ q.owner = p.owner /\ q.rows = p.rows /\ q.selected = p.selected /\ q.epoch = p.epoch
      /\ q.checking = p.checking /\ q.notice = p.notice /\ q.watch = watch
  BY <1>1, <1>2 DEF PanelPages
<1> QED
  BY <1>1, <1>3 DEF SameShown

LEMMA JobIsRequested ==
    ASSUME NEW p \in PanelPages, NEW j \in Jobs
    PROVE  /\ Requested(p, j) \in PanelPages /\ SameShown(p, Requested(p, j))
           /\ \A b \in BOOLEAN : [Requested(p, j) EXCEPT !.watch[j].busy = b] \in PanelPages
                                 /\ SameShown(p, [Requested(p, j) EXCEPT !.watch[j].busy = b])
           /\ \A b \in BOOLEAN : [p EXCEPT !.watch[j].busy = b] \in PanelPages
                                 /\ SameShown(p, [p EXCEPT !.watch[j].busy = b])
<1> DEFINE v == p.watch[j]
           w == [v EXCEPT !.loading = TRUE]
<1>0. v \in Watches /\ v = p.watch[j]
  BY PanelFields
<1> HIDE DEF v
<1>1. w \in Watches /\ w.of = v.of /\ w.from = v.from /\ w.num = v.num
  BY <1>0 DEF Watches
<1>2. Requested(p, j) = [p EXCEPT !.watch[j] = w]
  BY <1>0, PanelFields DEF Requested, PanelPages
<1> HIDE DEF w
<1>3. Requested(p, j) \in PanelPages /\ SameShown(p, Requested(p, j)) /\ Requested(p, j).watch[j] = w
  BY <1>0, <1>1, <1>2, WatchChanges
<1>4. ASSUME NEW b \in BOOLEAN, NEW q \in PanelPages, NEW u \in Watches, u = q.watch[j]
      PROVE  [q EXCEPT !.watch[j].busy = b] \in PanelPages /\ SameShown(q, [q EXCEPT !.watch[j].busy = b])
  <2> DEFINE x == [u EXCEPT !.busy = b]
  <2>1. x \in Watches /\ x.of = u.of /\ x.from = u.from /\ x.num = u.num
    BY DEF Watches
  <2>2. [q EXCEPT !.watch[j].busy = b] = [q EXCEPT !.watch[j] = x]
    BY <1>4, PanelFields DEF PanelPages
  <2> HIDE DEF x
  <2> QED
    BY <1>4, <2>1, <2>2, WatchChanges
<1>5. ASSUME NEW b \in BOOLEAN
      PROVE  /\ [Requested(p, j) EXCEPT !.watch[j].busy = b] \in PanelPages
             /\ SameShown(Requested(p, j), [Requested(p, j) EXCEPT !.watch[j].busy = b])
             /\ [p EXCEPT !.watch[j].busy = b] \in PanelPages /\ SameShown(p, [p EXCEPT !.watch[j].busy = b])
  BY <1>0, <1>1, <1>3, <1>4
<1>6. \A q, n : SameShown(p, q) /\ SameShown(q, n) => SameShown(p, n)
  BY DEF SameShown, SameWatch
<1> QED
  BY <1>3, <1>5, <1>6

(* A request of a panel that is open. *)
LEMMA PanelWatches ==
    ASSUME PanelsInv, NEW p \in PanelPages, SameShown(panel, p), NEW j \in Jobs, NEW do \in PanelDoes,
           panel.watch[j].of # NoGeneration,
           NEW done, Exchange(done, WatchAsk(p, j, do)), panel' = p, storage' = storage, task' = task,
           clicks' \in 0..task.clicks, faults' = faults
    PROVE  PanelsInv'
<1> DEFINE asks == WatchAsk(p, j, do)
<1>1. /\ asks \in Seq(AsksFor(PanelNames, PanelParams)) /\ Len(asks) \in {0, 1}
      /\ \A i \in DOMAIN asks : /\ asks[i].op = "watch" /\ asks[i].arg.gen = p.watch[j].of
                                /\ asks[i].arg.job = j /\ asks[i].arg.num = p.watch[j].num
  BY WatchAsked
<1>2. Exchange(done, asks)
  OBVIOUS
<1> HIDE DEF asks
<1>3. p.watch[j].of = panel.watch[j].of /\ p.watch[j].num = panel.watch[j].num
  BY DEF SameShown, SameWatch
<1>4. panel.watch[j].of \in Generations /\ panel.watch[j].num # 0
  <2>1. panel.watch[j] \in Watches
    BY PanelsNow, PanelFields
  <2> QED
    BY <2>1, WatchFields DEF PanelsInv, PageBelongs, MaybeGeneration
<1>5. \A i \in DOMAIN asks : asks[i].op # "checkmodel" /\ Belongs(asks[i], panel)
  BY <1>1, <1>3, <1>4 DEF Belongs
<1> QED
  BY <1>1, <1>2, <1>5, PanelsStay

LEMMA PanelIsControlled ==
    ASSUME PanelsInv, Control \/ WatchTick
    PROVE  PanelsInv'
<1>0. panel \in PanelPages
  BY PanelsNow
<1>1. CASE Control
  <2>1. PICK j \in Jobs, do \in {"load", "start", "pause", "resume"} :
          /\ WatchIdle(j)
          /\ LET p == [Requested(panel, j) EXCEPT !.watch[j].busy = do # "load"]
             IN  Pressed("control", p, WatchAsk(p, j, do))
    BY <1>1 DEF Control
  <2> DEFINE b == do # "load"
             p == [Requested(panel, j) EXCEPT !.watch[j].busy = b]
             asks == WatchAsk(p, j, do)
  <2>2. b \in BOOLEAN /\ do \in PanelDoes /\ panel.watch[j].of # NoGeneration
    BY <2>1 DEF PanelDoes, WatchIdle
  <2>3. Pressed("control", p, asks) /\ asks = WatchAsk(p, j, do)
    BY <2>1
  <2> HIDE DEF b
  <2>4. p \in PanelPages /\ SameShown(panel, p)
    BY <1>0, <2>2, JobIsRequested
  <2> HIDE DEF p, asks
  <2>5. /\ panel' = p /\ storage' = storage /\ Exchange({}, asks) /\ task' = task /\ clicks' \in 0..task.clicks
        /\ faults' = faults
    BY <2>3, PanelPressed
  <2> QED
    BY <2>2, <2>3, <2>4, <2>5, PanelWatches
<1>2. CASE WatchTick
  <2>1. PICK j \in Jobs : WatchIdle(j) /\ Turns(Requested(panel, j), {}, WatchAsk(Requested(panel, j), j, "load"))
    BY <1>2 DEF WatchTick
  <2> DEFINE p == Requested(panel, j)
             asks == WatchAsk(p, j, "load")
  <2>2. "load" \in PanelDoes /\ panel.watch[j].of # NoGeneration
    BY <2>1 DEF PanelDoes, WatchIdle
  <2>3. Turns(p, {}, asks) /\ asks = WatchAsk(p, j, "load")
    BY <2>1
  <2>4. p \in PanelPages /\ SameShown(panel, p)
    BY <1>0, JobIsRequested
  <2> HIDE DEF p, asks
  <2>5. /\ panel' = p /\ storage' = storage /\ Exchange({}, asks) /\ task' = task /\ clicks' \in 0..task.clicks
        /\ faults' = faults
    BY <2>3, PanelTurned
  <2> QED
    BY <2>2, <2>3, <2>4, <2>5, PanelWatches
<1> QED
  BY <1>1, <1>2

LEMMA CollectionIsPrepared ==
    ASSUME PanelsInv, PrepareCollection \/ PrepareBack
    PROVE  PanelsInv'
<1>0. panel \in PanelPages /\ "build" \in Jobs /\ panel.watch["build"] \in Watches /\ panel.watch["build"].num \in Nat
      /\ panel.owner \in MaybeOwner /\ panel.selected \in MaybeGeneration
  BY PanelsNow, PanelFields, NoneIsTyped, WatchFields
<1>1. CASE PrepareCollection
  <2> DEFINE p == [panel EXCEPT !.watch["build"].busy = TRUE]
             P == [Query EXCEPT !.owner = panel.owner, !.gen = panel.selected, !.num = panel.watch["build"].num]
  <2>1. Pressed("prepare", p, Asked("prepare", P)) /\ panel.watch["build"].of # NoGeneration
    BY <1>1 DEF PrepareCollection, WatchIdle
  <2> DEFINE owner == panel.owner
             of == panel.selected
             num == panel.watch["build"].num
  <2>6. P = [Query EXCEPT !.owner = owner, !.gen = of, !.num = num] /\ num = panel.watch["build"].num
    OBVIOUS
  <2>7. owner \in MaybeOwner /\ of \in MaybeGeneration /\ num \in Nat
    BY <1>0
  <2>3. p \in PanelPages /\ SameShown(panel, p)
    BY <1>0, JobIsRequested
  <2> HIDE DEF p, P, owner, of, num
  <2>2. P \in PanelParams /\ P.num = panel.watch["build"].num /\ "prepare" \in PanelNames
    BY <2>6, <2>7, PanelQueries DEF PanelNames, PanelParams
  <2>4. panel.watch["build"].num # 0
    BY <1>0, <2>1 DEF PanelsInv, PageBelongs
  <2>5. Belongs(Ask("prepare", FALSE, P), panel)
    <3>1. Ask("prepare", FALSE, P).op = "prepare" /\ Ask("prepare", FALSE, P).arg = P
      BY DEF Ask
    <3> QED
      BY <2>2, <2>4, <3>1 DEF Belongs
  <2> QED
    BY <2>1, <2>2, <2>3, <2>5, PanelPressedOn
<1>2. CASE PrepareBack
  <2> DEFINE p == Requested(panel, "build")
             q == [panel EXCEPT !.watch["build"].busy = FALSE]
             asks == WatchAsk(p, "build", "load")
  <2>1. PICK r \in Back("prepare") :
          \/ Turns(panel, {r}, <<>>)
          \/ r.arg.num = panel.watch["build"].num /\ Turns(p, {r}, asks)
          \/ Turns(q, {r}, <<>>)
    BY <1>2 DEF PrepareBack
  <2>2. p \in PanelPages /\ SameShown(panel, p) /\ q \in PanelPages /\ SameShown(panel, q)
    BY <1>0, JobIsRequested
  <2>3. asks = WatchAsk(p, "build", "load")
    OBVIOUS
  <2> HIDE DEF p, q, asks
  <2>4. CASE Turns(panel, {r}, <<>>)
    BY <1>0, <2>4, SameAsBefore, PanelTurnedOn
  <2>5. CASE Turns(q, {r}, <<>>)
    BY <2>2, <2>5, PanelTurnedOn
  <2>6. CASE r.arg.num = panel.watch["build"].num /\ Turns(p, {r}, asks)
    <3>1. panel.watch["build"].num # 0
      BY <2>6 DEF PanelsInv, Belongs, Back, Open
    <3>2. panel.watch["build"].of # NoGeneration
      BY <1>0, <3>1 DEF PanelsInv, PageBelongs
    <3>3. /\ panel' = p /\ storage' = storage /\ Exchange({r}, asks) /\ task' = task /\ clicks' \in 0..task.clicks
          /\ faults' = faults
      BY <2>6, PanelTurned
    <3>4. "load" \in PanelDoes
      BY DEF PanelDoes
    <3> QED
      BY <1>0, <2>2, <2>3, <3>2, <3>3, <3>4, PanelWatches
  <2> QED
    BY <2>1, <2>4, <2>5, <2>6
<1> QED
  BY <1>1, <1>2

(* The watches change: one stays with what it watches, goes, or begins under *)
(* a fresh number.                                                           *)
LEMMA WatchesMove ==
    ASSUME PanelsInv, NEW p \in PanelPages,
           p.owner = panel.owner, p.rows = panel.rows, p.selected = panel.selected, p.epoch = panel.epoch,
           p.checking = panel.checking, p.notice = panel.notice,
           \A i \in Jobs :
              \/ /\ p.watch[i].of = panel.watch[i].of /\ p.watch[i].num = panel.watch[i].num
                 /\ p.watch[i].from \in {NoGeneration, p.watch[i].of}
              \/ p.watch[i] = NoWatch
              \/ /\ p.watch[i].of = p.selected /\ p.selected # NoGeneration /\ p.watch[i].num = FreshNumber
                 /\ p.watch[i].from = NoGeneration
    PROVE  PageBelongs(p) /\ \A r \in net : Belongs(r, p)
<1>0. /\ FreshNumber \in Nat \ {0}
      /\ \A r \in net : r.op \in {"watch", "prepare"} => r.arg.num # FreshNumber
      /\ NoWatch.of = NoGeneration /\ NoWatch.from = NoGeneration /\ NoWatch.num = 0
  BY FreshNumberIsFree, NoneIsTyped
<1>1. \A i \in Jobs : /\ p.watch[i].of \in {NoGeneration, p.selected}
                      /\ p.watch[i].from \in {NoGeneration, p.watch[i].of}
                      /\ p.watch[i].of = NoGeneration <=> p.watch[i].num = 0
  BY <1>0 DEF PanelsInv, PageBelongs
<1>2. PageBelongs(p)
  BY <1>1 DEF PanelsInv, PageBelongs
<1>3. ASSUME NEW r \in net
      PROVE  Belongs(r, p)
  <2>1. Belongs(r, panel) /\ r.arg.job \in Jobs
    BY PanelsNow, PanelParamFields DEF PanelsInv
  <2>2. r.op = "watch" /\ r.arg.num = p.watch[r.arg.job].num => r.arg.gen = p.watch[r.arg.job].of
    BY <1>0, <2>1 DEF Belongs
  <2> QED
    BY <2>1, <2>2 DEF Belongs
<1> QED
  BY <1>2, <1>3

(* The watch of a job is replaced. *)
WatchPut(q, p, j, w) == q = [p EXCEPT !.watch = [p.watch EXCEPT ![j] = w]]

LEMMA WatchIsPut ==
    ASSUME NEW p \in PanelPages, NEW j \in Jobs, NEW w \in Watches, NEW q, WatchPut(q, p, j, w)
    PROVE  /\ q \in PanelPages /\ q.owner = p.owner /\ q.rows = p.rows /\ q.selected = p.selected
           /\ q.epoch = p.epoch /\ q.checking = p.checking /\ q.notice = p.notice
           /\ q.watch[j] = w /\ \A i \in Jobs : i # j => q.watch[i] = p.watch[i]
<1> DEFINE watch == [p.watch EXCEPT ![j] = w]
<1>1. watch \in [Jobs -> Watches] /\ watch[j] = w /\ \A i \in Jobs : i # j => watch[i] = p.watch[i]
  BY PanelFields
<1>2. q = [p EXCEPT !.watch = watch]
  BY DEF WatchPut
<1> HIDE DEF watch
<1> QED
  BY <1>1, <1>2 DEF PanelPages

WatchAccepted(q, p, j, shown, from) ==
    q = [[[[p EXCEPT !.watch[j].loading = FALSE] EXCEPT !.watch[j].busy = FALSE]
                    EXCEPT !.watch[j].shown = shown] EXCEPT !.watch[j].from = from]

LEMMA WatchIsAccepted ==
    ASSUME NEW p \in PanelPages, NEW j \in Jobs, NEW shown \in JobStates \cup {"unknown"}, NEW from \in MaybeGeneration,
           NEW q, WatchAccepted(q, p, j, shown, from)
    PROVE  /\ q \in PanelPages /\ q.owner = p.owner /\ q.rows = p.rows /\ q.selected = p.selected
           /\ q.epoch = p.epoch /\ q.checking = p.checking /\ q.notice = p.notice
           /\ q.watch[j].of = p.watch[j].of /\ q.watch[j].num = p.watch[j].num /\ q.watch[j].from = from
           /\ \A i \in Jobs : i # j => q.watch[i] = p.watch[i]
<1> DEFINE no == FALSE
           p1 == [p EXCEPT !.watch[j].loading = no]
           p2 == [p1 EXCEPT !.watch[j].busy = no]
           p3 == [p2 EXCEPT !.watch[j].shown = shown]
           v0 == p.watch[j]
           v1 == [v0 EXCEPT !.loading = no]
           v2 == [v1 EXCEPT !.busy = no]
           v3 == [v2 EXCEPT !.shown = shown]
           v4 == [v3 EXCEPT !.from = from]
<1>0. no \in BOOLEAN /\ q = [p3 EXCEPT !.watch[j].from = from]
  BY DEF WatchAccepted
<1>1. WatchPut(p1, p, j, v1) /\ v0 \in Watches
  BY PanelFields DEF PanelPages, WatchPut
<1> HIDE DEF no, p1, v0
<1>2. v1 \in Watches /\ v1.of = v0.of /\ v1.num = v0.num
  BY <1>0, <1>1 DEF Watches
<1> HIDE DEF v1
<1>3. /\ p1 \in PanelPages /\ p1.owner = p.owner /\ p1.rows = p.rows /\ p1.selected = p.selected
      /\ p1.epoch = p.epoch /\ p1.checking = p.checking /\ p1.notice = p.notice
      /\ p1.watch[j] = v1 /\ \A i \in Jobs : i # j => p1.watch[i] = p.watch[i]
  BY <1>1, <1>2, WatchIsPut
<1>4. WatchPut(p2, p1, j, v2)
  BY <1>3, PanelFields DEF PanelPages, WatchPut
<1> HIDE DEF p2
<1>5. v2 \in Watches /\ v2.of = v1.of /\ v2.num = v1.num
  BY <1>0, <1>2 DEF Watches
<1> HIDE DEF v2
<1>6. /\ p2 \in PanelPages /\ p2.owner = p1.owner /\ p2.rows = p1.rows /\ p2.selected = p1.selected
      /\ p2.epoch = p1.epoch /\ p2.checking = p1.checking /\ p2.notice = p1.notice
      /\ p2.watch[j] = v2 /\ \A i \in Jobs : i # j => p2.watch[i] = p1.watch[i]
  BY <1>3, <1>4, <1>5, WatchIsPut
<1>7. WatchPut(p3, p2, j, v3)
  BY <1>6, PanelFields DEF PanelPages, WatchPut
<1> HIDE DEF p3
<1>8. v3 \in Watches /\ v3.of = v2.of /\ v3.num = v2.num
  BY <1>5 DEF Watches
<1> HIDE DEF v3
<1>9. /\ p3 \in PanelPages /\ p3.owner = p2.owner /\ p3.rows = p2.rows /\ p3.selected = p2.selected
      /\ p3.epoch = p2.epoch /\ p3.checking = p2.checking /\ p3.notice = p2.notice
      /\ p3.watch[j] = v3 /\ \A i \in Jobs : i # j => p3.watch[i] = p2.watch[i]
  BY <1>6, <1>7, <1>8, WatchIsPut
<1>a. WatchPut(q, p3, j, v4)
  BY <1>0, <1>9, PanelFields DEF PanelPages, WatchPut
<1>b. v4 \in Watches /\ v4.of = v3.of /\ v4.num = v3.num /\ v4.from = from
  BY <1>8 DEF Watches
<1> HIDE DEF v4
<1>c. /\ q \in PanelPages /\ q.owner = p3.owner /\ q.rows = p3.rows /\ q.selected = p3.selected
      /\ q.epoch = p3.epoch /\ q.checking = p3.checking /\ q.notice = p3.notice
      /\ q.watch[j] = v4 /\ \A i \in Jobs : i # j => q.watch[i] = p3.watch[i]
  BY <1>9, <1>a, <1>b, WatchIsPut
<1>d. v0 = p.watch[j]
  BY DEF v0
<1> QED
  BY <1>2, <1>3, <1>5, <1>6, <1>8, <1>9, <1>b, <1>c, <1>d

(* The answer to the newest request of a watch is accepted; once the build   *)
(* is done its verification is watched.                                      *)
LEMMA WatchAnswered ==
    ASSUME PanelsInv, WatchBack
    PROVE  PanelsInv'
<1>0. panel \in PanelPages /\ panel.epoch \in Nat /\ panel.watch \in [Jobs -> Watches] /\ FreshNumber \in Nat \ {0}
      /\ "build" \in Jobs /\ "verification" \in Jobs /\ \A i \in Jobs : i = "build" \/ i = "verification"
  BY PanelsNow, PanelFields, NoneIsTyped, FreshNumberIsFree
<1> DEFINE Accepted(r) ==
             [panel EXCEPT !.watch[r.arg.job].loading = FALSE, !.watch[r.arg.job].busy = FALSE,
                           !.watch[r.arg.job].shown = IF r.state = "answered" THEN r.got.state ELSE @,
                           !.watch[r.arg.job].from = IF r.state = "answered" THEN r.got.gen ELSE @]
           Opens(p) == p.watch["build"].shown = "done" /\ p.watch["verification"].of = NoGeneration
           Mounts(p) == MountedFor(p, "verification", p.watch["build"].of)
           Closed(p) == IF p.watch["build"].shown # "done" THEN [p EXCEPT !.watch["verification"] = NoWatch] ELSE p
<1>1. PICK r \in Back("watch") :
        IF r.arg.num # panel.watch[r.arg.job].num THEN Turns(panel, {r}, <<>>)
        ELSE IF Opens(Accepted(r))
             THEN Turns(Mounts(Accepted(r)), {r}, WatchAsk(Mounts(Accepted(r)), "verification", "load"))
             ELSE Turns(Closed(Accepted(r)), {r}, <<>>)
  BY DEF WatchBack
<1>2. /\ r \in net /\ r.op = "watch" /\ r.arg.job \in Jobs /\ Belongs(r, panel) /\ AnswerBelongs(r)
      /\ r.got.state \in JobStates \cup {"unknown"} /\ r.got.gen \in MaybeGeneration
  <2>1. r \in net /\ r.op = "watch"
    BY DEF Back, Open
  <2>2. r.arg \in PanelParams /\ r.got \in PanelParams /\ Belongs(r, panel) /\ AnswerBelongs(r)
    BY <2>1, PanelsNow DEF PanelsInv
  <2> QED
    BY <2>1, <2>2, PanelParamFields
<1> HIDE DEF Opens, Mounts, Closed
<1>3. CASE r.arg.num # panel.watch[r.arg.job].num
  <2>1. Turns(panel, {r}, <<>>)
    BY <1>1, <1>3
  <2> QED
    BY <1>0, <2>1, SameAsBefore, PanelTurnedOn
<1>4. CASE r.arg.num = panel.watch[r.arg.job].num
  <2> DEFINE j == r.arg.job
             v == panel.watch[j]
             shown == IF r.state = "answered" THEN r.got.state ELSE v.shown
             from == IF r.state = "answered" THEN r.got.gen ELSE v.from
             p == Accepted(r)
             done == {r}
  <2>1. v \in Watches /\ v = panel.watch[j] /\ r.arg.gen \in Generations /\ v.of = r.arg.gen /\ j \in Jobs
    BY <1>0, <1>2, <1>4 DEF Belongs
  <2>2. shown \in JobStates \cup {"unknown"} /\ from \in MaybeGeneration /\ from \in {NoGeneration, v.of}
    <3>1. v.shown \in JobStates \cup {"unknown"} /\ v.from \in MaybeGeneration /\ v.from \in {NoGeneration, v.of}
      BY <2>1, WatchFields DEF PanelsInv, PageBelongs
    <3>2. r.state = "answered" => r.got.gen = r.arg.gen
      BY <1>2 DEF AnswerBelongs
    <3> QED
      BY <1>2, <2>1, <3>1, <3>2
  <2>3. WatchAccepted(p, panel, j, shown, from)
    BY <1>0, <2>1 DEF PanelPages, WatchAccepted
  <2> HIDE DEF shown, from, v, p
  <2>6. /\ p \in PanelPages /\ p.owner = panel.owner /\ p.rows = panel.rows /\ p.selected = panel.selected
        /\ p.epoch = panel.epoch /\ p.checking = panel.checking /\ p.notice = panel.notice
        /\ p.watch[j].of = panel.watch[j].of /\ p.watch[j].num = panel.watch[j].num /\ p.watch[j].from = from
        /\ \A i \in Jobs : i # j => p.watch[i] = panel.watch[i]
    BY <1>0, <2>1, <2>2, <2>3, WatchIsAccepted
  <2>7. \A i \in Jobs : /\ p.watch[i].of = panel.watch[i].of /\ p.watch[i].num = panel.watch[i].num
                        /\ p.watch[i].from \in {NoGeneration, p.watch[i].of}
    BY <2>1, <2>2, <2>6 DEF PanelsInv, PageBelongs
  <2>8. /\ Opens(p) => Turns(Mounts(p), done, WatchAsk(Mounts(p), "verification", "load"))
        /\ ~Opens(p) => Turns(Closed(p), done, <<>>)
    BY <1>1, <1>4 DEF p
  <2> HIDE DEF j, done
  <2>9. CASE Opens(p)
    <3> DEFINE g == p.watch["build"].of
               q == Mounts(p)
               asks == WatchAsk(q, "verification", "load")
    <3>1. Turns(q, done, asks) /\ asks = WatchAsk(q, "verification", "load")
      BY <2>8, <2>9
    <3>2. g \in Generations
      <4>1. p.watch["verification"].of = NoGeneration
        BY <2>9 DEF Opens
      <4>2. j = "build"
        BY <1>0, <2>1, <2>7, <4>1, NoneIsTyped
      <4> QED
        BY <2>1, <2>7, <4>2
    <3>3. q = MountedFor(p, "verification", g)
      BY DEF Mounts
    <3>4. g = p.watch["build"].of
      OBVIOUS
    <3> HIDE DEF g, q, asks
    <3>5. /\ q \in PanelPages
          /\ q.owner = p.owner /\ q.rows = p.rows /\ q.selected = p.selected /\ q.epoch = p.epoch
          /\ q.checking = p.checking /\ q.notice = p.notice
          /\ q.watch["verification"].of = g /\ q.watch["verification"].from = NoGeneration
          /\ q.watch["verification"].num = FreshNumber
          /\ q.watch["build"] = p.watch["build"]
      BY <1>0, <2>6, <3>2, <3>3, WatchIsMounted
    <3>6. g = q.selected /\ g # NoGeneration
      BY <1>0, <2>6, <2>7, <3>2, <3>4, <3>5, NoneIsTyped DEF PanelsInv, PageBelongs
    <3>7. PageBelongs(q) /\ \A s \in net : Belongs(s, q)
      BY <1>0, <2>6, <2>7, <3>5, <3>6, WatchesMove
    <3>8. /\ panel' = q /\ storage' = storage /\ Exchange(done, asks) /\ task' = task /\ clicks' \in 0..task.clicks
          /\ faults' = faults
      BY <3>1, PanelTurned
    <3>9. /\ asks \in Seq(AsksFor(PanelNames, PanelParams)) /\ Len(asks) = 1
          /\ \A i \in DOMAIN asks : /\ asks[i].op = "watch" /\ asks[i].arg.gen = g
                                    /\ asks[i].arg.job = "verification" /\ asks[i].arg.num = FreshNumber
      <4>1. "load" \in PanelDoes
        BY DEF PanelDoes
      <4> QED
        BY <1>0, <3>1, <3>5, <4>1, WatchAsked
    <3>a. \A i \in DOMAIN asks : Belongs(asks[i], q)
      BY <1>0, <3>2, <3>5, <3>9 DEF Belongs
    <3> QED
      BY <2>6, <3>5, <3>7, <3>8, <3>9, <3>a, PanelsMove
  <2>b. CASE ~Opens(p)
    <3> DEFINE q == Closed(p)
               none == <<>>
    <3>1. Turns(q, done, none) /\ none \in Seq(AsksFor(PanelNames, PanelParams)) /\ Len(none) \in {0, 1} /\ DOMAIN none = {}
      BY <2>8, <2>b
    <3>2. /\ q \in PanelPages
          /\ q.owner = p.owner /\ q.rows = p.rows /\ q.selected = p.selected /\ q.epoch = p.epoch
          /\ q.checking = p.checking /\ q.notice = p.notice
          /\ q.watch = p.watch \/ q.watch = [p.watch EXCEPT !["verification"] = NoWatch]
      <4>1. NoWatch \in Watches /\ p.watch \in [Jobs -> Watches]
        BY <2>6, NoneIsTyped, PanelFields
      <4>2. q = p \/ q = [p EXCEPT !.watch["verification"] = NoWatch]
        BY DEF Closed
      <4>3. CASE q = [p EXCEPT !.watch["verification"] = NoWatch]
        <5> DEFINE new == [p.watch EXCEPT !["verification"] = NoWatch]
        <5>1. new \in [Jobs -> Watches] /\ new = [p.watch EXCEPT !["verification"] = NoWatch]
          BY <4>1
        <5>2. q = [p EXCEPT !.watch = new]
          BY <2>6, <4>3 DEF PanelPages
        <5> HIDE DEF q, new
        <5> QED
          BY <2>6, <5>1, <5>2 DEF PanelPages
      <4> HIDE DEF q
      <4> QED
        BY <2>6, <4>2, <4>3
    <3> HIDE DEF q, none
    <3>3. \A i \in Jobs : q.watch[i] = p.watch[i] \/ q.watch[i] = NoWatch
      <4>1. p.watch \in [Jobs -> Watches]
        BY <2>6, PanelFields
      <4> QED
        BY <3>2, <4>1
    <3>4. PageBelongs(q) /\ \A s \in net : Belongs(s, q)
      BY <2>6, <2>7, <3>2, <3>3, WatchesMove
    <3>5. /\ panel' = q /\ storage' = storage /\ Exchange(done, none) /\ task' = task /\ clicks' \in 0..task.clicks
          /\ faults' = faults
      BY <3>1, PanelTurned
    <3> QED
      BY <2>6, <3>1, <3>2, <3>4, <3>5, PanelsMove
  <2> QED
    BY <2>9, <2>b
<1> QED
  BY <1>3, <1>4

(* The selected generation is checked, under the next number.                *)
LEMMA GenerationIsChecked ==
    ASSUME PanelsInv, CheckGeneration
    PROVE  PanelsInv'
<1>0. panel \in PanelPages /\ panel.epoch \in Nat /\ panel.owner \in MaybeOwner /\ panel.selected \in MaybeGeneration
  BY PanelsNow, PanelFields
<1> DEFINE epoch == panel.epoch + 1
           yes == TRUE
           p == [panel EXCEPT !.epoch = epoch, !.checking = yes, !.notice = NoGeneration]
           P == [Query EXCEPT !.owner = p.owner, !.gen = p.selected, !.num = p.epoch]
           asks == Asked("checkmodel", P)
           done == {}
<1>1. Pressed("checkmodel", p, asks)
  <2>1. p = [panel EXCEPT !.epoch = @ + 1, !.checking = TRUE, !.notice = NoGeneration]
    BY <1>0 DEF PanelPages
  <2> HIDE DEF p
  <2> QED
    BY <2>1 DEF CheckGeneration
<1>2. yes \in BOOLEAN /\ yes /\ epoch \in Nat /\ epoch = panel.epoch + 1 /\ NoGeneration \in MaybeGeneration
  BY <1>0, NoneIsTyped
<1> HIDE DEF epoch, yes
<1>3. /\ p \in PanelPages /\ p.owner = panel.owner /\ p.rows = panel.rows /\ p.selected = panel.selected
      /\ p.epoch = epoch /\ p.checking = yes /\ p.notice = NoGeneration /\ p.watch = panel.watch
  BY <1>0, <1>2 DEF PanelPages
<1> HIDE DEF p
<1> DEFINE owner == p.owner
           of == p.selected
           num == p.epoch
<1>4. P = [Query EXCEPT !.owner = owner, !.gen = of, !.num = num] /\ of = panel.selected /\ num = epoch
  BY <1>3
<1>5. owner \in MaybeOwner /\ of \in MaybeGeneration /\ num \in Nat
  BY <1>0, <1>2, <1>3
<1> HIDE DEF P, owner, of, num
<1>6. P \in PanelParams /\ P.gen = panel.selected /\ P.num = epoch /\ "checkmodel" \in PanelNames
  BY <1>4, <1>5, PanelQueries DEF PanelNames, PanelParams
<1>7. asks \in Seq(AsksFor(PanelNames, PanelParams)) /\ Len(asks) \in {0, 1} /\ Single(asks, "checkmodel", P)
  BY <1>6, PanelAsked
<1> HIDE DEF asks
<1>8. /\ panel' = p /\ storage' = storage /\ Exchange(done, asks) /\ task' = task /\ clicks' \in 0..task.clicks
      /\ faults' = faults
  BY <1>1, PanelPressed
<1> HIDE DEF done
<1>9. PageBelongs(panel')
  BY <1>3, <1>8 DEF PanelsInv, PageBelongs
<1>a. \A r \in net : Belongs(r, panel')
  <2> SUFFICES ASSUME NEW r \in net
               PROVE  Belongs(r, p)
    BY <1>8
  <2>1. Belongs(r, panel) /\ r.arg.num \in Nat
    BY PanelsNow DEF PanelsInv
  <2> QED
    BY <1>0, <1>2, <1>3, <2>1 DEF Belongs
<1>b. \A i \in DOMAIN asks : Belongs(asks[i], panel')
  <2>1. epoch <= epoch
    BY <1>2
  <2> QED
    BY <1>2, <1>3, <1>6, <1>7, <1>8, <2>1 DEF Belongs, Single
<1> QED
  BY <1>2, <1>3, <1>7, <1>8, <1>9, <1>a, <1>b, PanelsMove

LEMMA CheckAnswered ==
    ASSUME PanelsInv, CheckBack
    PROVE  PanelsInv'
<1>0. panel \in PanelPages
  BY PanelsNow
<1>1. PICK r \in Back("checkmodel") :
        Turns(IF ~IsNewest(r) THEN panel ELSE [panel EXCEPT !.checking = FALSE, !.notice = r.arg.gen], {r}, <<>>)
  BY DEF CheckBack
<1>2. r \in net /\ r.op = "checkmodel" /\ Belongs(r, panel) /\ r.arg.gen \in MaybeGeneration
  <2>1. r \in net /\ r.op = "checkmodel"
    BY DEF Back, Open
  <2>2. r.arg \in PanelParams
    BY <2>1, PanelsNow
  <2> QED
    BY <2>1, <2>2, PanelParamFields DEF PanelsInv
<1>3. CASE ~IsNewest(r)
  <2>1. Turns(panel, {r}, <<>>)
    BY <1>1, <1>3
  <2> QED
    BY <1>0, <2>1, SameAsBefore, PanelTurnedOn
<1>4. CASE IsNewest(r)
  <2> DEFINE no == FALSE
             of == r.arg.gen
             p == [panel EXCEPT !.checking = no, !.notice = of]
             none == <<>>
             done == {r}
  <2>1. /\ Turns(p, done, none) /\ none \in Seq(AsksFor(PanelNames, PanelParams)) /\ Len(none) \in {0, 1}
        /\ DOMAIN none = {}
    BY <1>1, <1>4
  <2>2. no \in BOOLEAN /\ of \in MaybeGeneration /\ of = panel.selected
    BY <1>2, <1>4 DEF Belongs, IsNewest
  <2>3. \A q \in net : q \notin done => ~NewestCheck(q, panel)
    BY <1>2, <1>4, PanelsNow DEF NewestCheck, IsNewest
  <2> HIDE DEF no, of, none, done
  <2>4. /\ p \in PanelPages /\ p.owner = panel.owner /\ p.rows = panel.rows /\ p.selected = panel.selected
        /\ p.epoch = panel.epoch /\ p.notice = of /\ p.watch = panel.watch
    BY <1>0, <2>2 DEF PanelPages
  <2> HIDE DEF p
  <2>5. /\ panel' = p /\ storage' = storage /\ Exchange(done, none) /\ task' = task /\ clicks' \in 0..task.clicks
        /\ faults' = faults
    BY <2>1, PanelTurned
  <2>6. PageBelongs(panel')
    BY <2>2, <2>4, <2>5 DEF PanelsInv, PageBelongs
  <2>7. \A q \in net : q \notin done => Belongs(q, panel')
    BY <2>3, <2>4, <2>5 DEF PanelsInv, Belongs, NewestCheck
  <2> QED
    BY <2>1, <2>4, <2>5, <2>6, <2>7, PanelsMove
<1> QED
  BY <1>3, <1>4

(* The accounts, the comparison, the delivery and the connection change      *)
(* nothing of what is shown for a generation.                                *)
LEMMA UsersAreLoaded ==
    ASSUME PanelsInv, LoadUsers \/ UsersBack
    PROVE  PanelsInv'
<1>0. panel \in PanelPages
  BY PanelsNow
<1>1. CASE LoadUsers
  <2> DEFINE p == [panel EXCEPT !.users = "loading"]
             asks == <<Ask("users", TRUE, Query)>>
             done == {}
  <2>1. p \in PanelPages /\ SameShown(panel, p)
    BY <1>0 DEF PanelPages, SameShown, SameWatch
  <2>2. Pressed("users", p, asks) /\ asks = <<Ask("users", TRUE, Query)>>
    BY <1>1 DEF LoadUsers
  <2>3. "users" \in PanelNames /\ Query \in PanelParams
    BY PanelQueries DEF PanelNames
  <2> HIDE DEF p, asks
  <2>4. asks \in Seq(AsksFor(PanelNames, PanelParams)) /\ Len(asks) \in {0, 1} /\ Single(asks, "users", Query)
    BY <2>2, <2>3, OneAsk
  <2>5. /\ panel' = p /\ storage' = storage /\ Exchange(done, asks) /\ task' = task /\ clicks' \in 0..task.clicks
        /\ faults' = faults
    BY <2>2, PanelPressed
  <2>6. \A i \in DOMAIN asks : asks[i].op # "checkmodel" /\ Belongs(asks[i], panel)
    BY <2>4 DEF Single, Belongs
  <2> HIDE DEF done
  <2> QED
    BY <2>1, <2>4, <2>5, <2>6, PanelsStay
<1>2. CASE UsersBack
  <2>1. PICK r \in Back("users") : Turns([panel EXCEPT !.users = IF r.state = "answered" THEN "loaded" ELSE "error"], {r}, <<>>)
    BY <1>2 DEF UsersBack
  <2> DEFINE users == IF r.state = "answered" THEN "loaded" ELSE "error"
             p == [panel EXCEPT !.users = users]
  <2>2. users \in {"none", "loading", "loaded", "error"} /\ Turns(p, {r}, <<>>)
    BY <2>1
  <2> HIDE DEF users
  <2>3. p \in PanelPages /\ SameShown(panel, p)
    BY <1>0, <2>2 DEF PanelPages, SameShown, SameWatch
  <2> HIDE DEF p
  <2> QED
    BY <2>2, <2>3, PanelTurnedOn
<1> QED
  BY <1>1, <1>2

LEMMA QdrantIsCreated ==
    ASSUME PanelsInv, CreateQdrant
    PROVE  PanelsInv'
<1>0. panel \in PanelPages /\ panel.owner \in MaybeOwner /\ panel.selected \in MaybeGeneration
  BY PanelsNow, PanelFields
<1> DEFINE yes == TRUE
           p == [panel EXCEPT !.creating = yes]
           P == [Query EXCEPT !.owner = panel.owner]
           owner == panel.owner
<1>1. Pressed("create", p, Asked("create", P)) /\ panel.selected = <<panel.owner, "sql">>
  BY DEF CreateQdrant
<1>2. owner \in Owners /\ owner = panel.owner
  BY <1>0, <1>1 DEF MaybeGeneration, Generations, NoGeneration
<1>3. yes \in BOOLEAN /\ P = [Query EXCEPT !.owner = owner] /\ owner \in MaybeOwner
  BY <1>0
<1> HIDE DEF yes, P, owner
<1>4. p \in PanelPages /\ SameShown(panel, p)
  BY <1>0, <1>3 DEF PanelPages, SameShown, SameWatch
<1>5. P \in PanelParams /\ P.owner = owner /\ "create" \in PanelNames
  BY <1>3, PanelQueries DEF PanelNames, PanelParams
<1> HIDE DEF p
<1>6. Belongs(Ask("create", FALSE, P), panel)
  <2>1. Ask("create", FALSE, P).op = "create" /\ Ask("create", FALSE, P).arg = P
    BY DEF Ask
  <2> QED
    BY <1>2, <1>5, <2>1 DEF Belongs
<1> QED
  BY <1>1, <1>4, <1>5, <1>6, PanelPressedOn

LEMMA GenerationsAreCompared ==
    ASSUME PanelsInv, Compare \/ CompareBack
    PROVE  PanelsInv'
<1> DEFINE yes == TRUE
           no == FALSE
           p == [panel EXCEPT !.comparing = yes]
           q == [panel EXCEPT !.comparing = no]
<1>0. panel \in PanelPages /\ yes \in BOOLEAN /\ no \in BOOLEAN /\ Query \in PanelParams /\ "compare" \in PanelNames
  BY PanelsNow, PanelQueries DEF PanelNames
<1>1. \/ Pressed("compare", p, Asked("compare", Query))
      \/ \E r \in Back("compare") : Turns(q, {r}, <<>>)
  BY DEF Compare, CompareBack
<1> HIDE DEF yes, no
<1>2. p \in PanelPages /\ SameShown(panel, p) /\ q \in PanelPages /\ SameShown(panel, q)
  BY <1>0 DEF PanelPages, SameShown, SameWatch
<1> HIDE DEF p, q
<1> QED
  BY <1>0, <1>1, <1>2, PanelPressedOn, PanelTurnedOn

LEMMA DeliveryIsRefreshed ==
    ASSUME NEW p \in PanelPages
    PROVE  /\ Refreshing(p) \in PanelPages /\ SameShown(p, Refreshing(p))
           /\ RefreshAsks(p) = <<>> \/ RefreshAsks(p) = Asked("delivery", Query)
<1>1. RefreshAsks(p) = <<>> \/ RefreshAsks(p) = Asked("delivery", Query)
  BY DEF RefreshAsks
<1>2. CASE p.refreshing
  <2>1. Refreshing(p) = p
    BY <1>2 DEF Refreshing
  <2> QED
    BY <1>1, <2>1, SameAsBefore
<1>3. CASE ~p.refreshing
  <2> DEFINE yes == TRUE
             no == FALSE
             q == [p EXCEPT !.refreshing = yes, !.error = no, !.status = NoStatus]
  <2>1. Refreshing(p) = q /\ yes \in BOOLEAN /\ no \in BOOLEAN /\ NoStatus \in Statuses
    BY <1>3, NoneIsTyped DEF Refreshing
  <2> HIDE DEF yes, no
  <2>2. q \in PanelPages /\ SameShown(p, q)
    BY <2>1 DEF PanelPages, SameShown, SameWatch
  <2> HIDE DEF q
  <2> QED
    BY <1>1, <2>1, <2>2
<1> QED
  BY <1>2, <1>3

LEMMA PanelTurnedRefreshing ==
    ASSUME PanelsInv, NEW p \in PanelPages, SameShown(panel, p), NEW done, Turns(Refreshing(p), done, RefreshAsks(p))
    PROVE  PanelsInv'
<1>1. Refreshing(p) \in PanelPages /\ SameShown(p, Refreshing(p))
  BY DeliveryIsRefreshed
<1>2. SameShown(panel, Refreshing(p))
  BY <1>1 DEF SameShown, SameWatch
<1>3. Query \in PanelParams /\ "delivery" \in PanelNames
  BY PanelQueries DEF PanelNames
<1> DEFINE q == Refreshing(p)
<1>4. Turns(q, done, <<>>) \/ Turns(q, done, Asked("delivery", Query))
  BY DeliveryIsRefreshed
<1> HIDE DEF q
<1>5. q \in PanelPages /\ SameShown(panel, q)
  BY <1>1, <1>2 DEF q
<1> QED
  BY <1>3, <1>4, <1>5, PanelTurnedOn, PanelTurnedAsking

LEMMA DeliveryTurns ==
    ASSUME PanelsInv, RefreshDelivery \/ DeliveryBack \/ SetPointDelivery \/ PointsBack
    PROVE  PanelsInv'
<1> DEFINE yes == TRUE
           no == FALSE
<1>0. /\ panel \in PanelPages /\ yes \in BOOLEAN /\ no \in BOOLEAN /\ Query \in PanelParams
      /\ "delivery" \in PanelNames /\ "points" \in PanelNames
  BY PanelsNow, PanelQueries DEF PanelNames
<1>1. CASE RefreshDelivery
  <2> DEFINE p == Refreshing(panel)
  <2>1. p \in PanelPages /\ SameShown(panel, p) /\ Pressed("delivery", p, Asked("delivery", Query))
    BY <1>0, <1>1, DeliveryIsRefreshed DEF RefreshDelivery, RefreshAsks
  <2> HIDE DEF p
  <2> QED
    BY <1>0, <2>1, PanelPressedOn
<1>2. CASE DeliveryBack
  <2>1. PICK r \in Back("delivery") :
          Turns([panel EXCEPT !.refreshing = FALSE, !.error = r.state = "failed",
                    !.status = IF r.state = "answered" THEN r.got.status ELSE @], {r}, <<>>)
    BY <1>2 DEF DeliveryBack
  <2> DEFINE failed == r.state = "failed"
             status == IF r.state = "answered" THEN r.got.status ELSE panel.status
             p == [panel EXCEPT !.refreshing = no, !.error = failed, !.status = status]
  <2>2. r.got \in PanelParams
    BY PanelsNow DEF Back, Open
  <2>3. failed \in BOOLEAN /\ status \in Statuses
    BY <1>0, <2>2, PanelFields, PanelParamFields
  <2>4. Turns(p, {r}, <<>>)
    <3>1. [panel EXCEPT !.refreshing = FALSE, !.error = r.state = "failed",
                    !.status = IF r.state = "answered" THEN r.got.status ELSE @] = p
      BY <1>0 DEF PanelPages
    <3> HIDE DEF p
    <3> QED
      BY <2>1, <3>1
  <2> HIDE DEF failed, status, no
  <2>5. p \in PanelPages /\ SameShown(panel, p)
    BY <1>0, <2>3 DEF PanelPages, SameShown, SameWatch
  <2> HIDE DEF p
  <2> QED
    BY <2>4, <2>5, PanelTurnedOn
<1>3. CASE SetPointDelivery
  <2> DEFINE p == [panel EXCEPT !.saving = yes]
             flag == ~panel.status.points
             P == [Query EXCEPT !.flag = flag]
  <2>1. Pressed("points", p, Asked("points", P)) /\ flag \in BOOLEAN /\ P = [Query EXCEPT !.flag = flag]
    BY <1>3 DEF SetPointDelivery
  <2> HIDE DEF yes, flag, P
  <2>2. p \in PanelPages /\ SameShown(panel, p) /\ P \in PanelParams
    <3>1. p \in PanelPages /\ SameShown(panel, p)
      BY <1>0 DEF PanelPages, SameShown, SameWatch
    <3> HIDE DEF p
    <3>2. P \in PanelParams
      BY <2>1, PanelQueries DEF PanelParams
    <3> QED
      BY <3>1, <3>2
  <2> HIDE DEF p
  <2> QED
    BY <1>0, <2>1, <2>2, PanelPressedOn
<1>4. CASE PointsBack
  <2> DEFINE p == [panel EXCEPT !.saving = no]
  <2>1. PICK r \in Back("points") : Turns(Refreshing(p), {r}, RefreshAsks(p))
    BY <1>4 DEF PointsBack
  <2> HIDE DEF no
  <2>2. p \in PanelPages /\ SameShown(panel, p)
    BY <1>0 DEF PanelPages, SameShown, SameWatch
  <2> HIDE DEF p
  <2> QED
    BY <2>1, <2>2, PanelTurnedRefreshing
<1> HIDE DEF yes, no
<1> QED
  BY <1>1, <1>2, <1>3, <1>4

LEMMA ConnectionTurns ==
    ASSUME PanelsInv, UseConnection \/ ConnectionBack
    PROVE  PanelsInv'
<1> DEFINE yes == TRUE
           no == FALSE
<1>0. /\ panel \in PanelPages /\ yes \in BOOLEAN /\ no \in BOOLEAN /\ "connection" \in PanelNames /\ storage \in Storages
  BY PanelsNow DEF PanelNames
<1>1. CASE UseConnection
  <2>1. PICK do \in {"load", "save", "disable", "check"}, enable \in BOOLEAN :
          Pressed("connection", [panel EXCEPT !.busy = TRUE],
             Asked("connection", [Query EXCEPT !.do = do, !.flag = IF do = "check" THEN storage.enabled ELSE enable]))
    BY <1>1 DEF UseConnection
  <2> DEFINE p == [panel EXCEPT !.busy = yes]
             flag == IF do = "check" THEN storage.enabled ELSE enable
             P == [Query EXCEPT !.do = do, !.flag = flag]
  <2>2. Pressed("connection", p, Asked("connection", P)) /\ flag \in BOOLEAN /\ P = [Query EXCEPT !.do = do, !.flag = flag]
    BY <1>0, <2>1, StorageFields
  <2>3. do \in PanelDoes
    BY DEF PanelDoes
  <2> HIDE DEF yes, flag, P
  <2>4. p \in PanelPages /\ SameShown(panel, p)
    BY <1>0 DEF PanelPages, SameShown, SameWatch
  <2> HIDE DEF p
  <2>5. P \in PanelParams
    BY <2>2, <2>3, PanelQueries DEF PanelParams
  <2> QED
    BY <1>0, <2>2, <2>4, <2>5, PanelPressedOn
<1>2. CASE ConnectionBack
  <2> DEFINE Ready(r) == CASE r.arg.do = "load" -> panel.ready \/ r.state = "answered"
                           [] r.arg.do = "save" -> r.state = "answered"
                           [] OTHER -> panel.ready
             Page(r) == [panel EXCEPT !.busy = no, !.ready = Ready(r)]
  <2>1. PICK r \in Back("connection") :
          \/ Turns(Refreshing(Page(r)), {r}, RefreshAsks(Page(r)))
          \/ Turns(Page(r), {r}, <<>>)
    <3>1. \A r : Page(r) = [panel EXCEPT !.busy = FALSE,
                     !.ready = CASE r.arg.do = "load" -> @ \/ r.state = "answered"
                                 [] r.arg.do = "save" -> r.state = "answered"
                                 [] OTHER -> @]
      BY <1>0 DEF PanelPages
    <3> HIDE DEF Page
    <3> QED
      BY <1>2, <3>1 DEF ConnectionBack
  <2> DEFINE ready == Ready(r)
             p == Page(r)
  <2>2. ready \in BOOLEAN
    BY <1>0, PanelFields
  <2>3. p = [panel EXCEPT !.busy = no, !.ready = ready]
    OBVIOUS
  <2> HIDE DEF no, ready, Ready, p, Page
  <2>4. p \in PanelPages /\ SameShown(panel, p)
    BY <1>0, <2>2, <2>3 DEF PanelPages, SameShown, SameWatch
  <2>5. Turns(Refreshing(p), {r}, RefreshAsks(p)) \/ Turns(p, {r}, <<>>)
    BY <2>1 DEF p
  <2> QED
    BY <2>4, <2>5, PanelTurnedRefreshing, PanelTurnedOn
<1> HIDE DEF yes, no
<1> QED
  BY <1>1, <1>2

(* The server answers a request with what belongs to it. *)
LEMMA StorageServes ==
    ASSUME PanelsInv, ServePanels
    PROVE  PanelsInv'
<1>0. UnderWay(PanelNames, PanelParams) /\ panel \in PanelPages /\ storage \in Storages
  BY PanelsNow
<1> DEFINE Rows(r) == IF r.arg.owner \in Owners THEN Prepared(r.arg.owner) ELSE {}
           State(r, s) == IF r.arg.gen \in Generations THEN s.jobs[r.arg.gen][r.arg.job] ELSE "unknown"
           Status(s) == [known |-> TRUE, enabled |-> s.enabled, points |-> s.points]
           Got(r, s) == [Query EXCEPT !.rows = Rows(r), !.gen = r.arg.gen, !.state = State(r, s), !.status = Status(s)]
<1>1. PICK r \in net :
        /\ r.state = "sent"
        /\ storage' = CASE IsForeign(r) -> storage
                        [] r.op = "create" -> [storage EXCEPT !.made = @ \cup {r.arg.owner}]
                        [] r.op = "watch" -> [storage EXCEPT !.jobs[r.arg.gen][r.arg.job] = JobAfter(@, r.arg.do)]
                        [] r.op = "points" -> [storage EXCEPT !.points = r.arg.flag]
                        [] r.op = "connection" /\ r.arg.do # "load" -> [storage EXCEPT !.enabled = r.arg.flag]
                        [] OTHER -> storage
        /\ IF IsForeign(r) THEN Refused(r) ELSE Answered(r, Got(r, storage'))
  BY DEF ServePanels
<1>2. task' = task /\ clicks' = clicks /\ faults' = faults /\ panel' = panel
  BY DEF ServePanels
<1>3. r.arg \in PanelParams /\ Belongs(r, panel) /\ AnswerBelongs(r)
  BY PanelsNow DEF PanelsInv
<1> DEFINE owner == r.arg.owner
           gen == r.arg.gen
           job == r.arg.job
           flag == r.arg.flag
<1>4. owner \in MaybeOwner /\ gen \in MaybeGeneration /\ job \in Jobs /\ flag \in BOOLEAN
  BY <1>3, PanelParamFields
<1>5. storage' \in Storages
  <2>1. CASE storage' = [storage EXCEPT !.made = @ \cup {owner}] /\ r.op = "create"
    <3> DEFINE made == storage.made \cup {owner}
    <3>1. storage' = [storage EXCEPT !.made = made]
      BY <1>0, <2>1 DEF Storages
    <3>2. made \in SUBSET Owners
      BY <1>0, <1>3, <2>1, StorageFields DEF Belongs
    <3> HIDE DEF made, owner
    <3> QED
      BY <1>0, <3>1, <3>2 DEF Storages
  <2>2. CASE storage' = [storage EXCEPT !.jobs[gen][job] = JobAfter(@, r.arg.do)] /\ r.op = "watch"
    <3> DEFINE after == JobAfter(storage.jobs[gen][job], r.arg.do)
               jobs == [storage.jobs EXCEPT ![gen] = [storage.jobs[gen] EXCEPT ![job] = after]]
    <3>1. gen \in Generations
      BY <1>3, <2>2 DEF Belongs
    <3>2. storage.jobs \in [Generations -> [Jobs -> JobStates]] /\ storage.jobs[gen][job] \in JobStates
      BY <1>0, <1>4, <3>1, StorageFields
    <3>3. after \in JobStates
      BY <3>2 DEF JobAfter, JobStates
    <3>4. storage' = [storage EXCEPT !.jobs = jobs]
      BY <1>0, <2>2 DEF Storages
    <3> HIDE DEF after, gen, job
    <3>5. jobs \in [Generations -> [Jobs -> JobStates]]
      BY <1>4, <3>1, <3>2, <3>3
    <3> HIDE DEF jobs
    <3> QED
      BY <1>0, <3>4, <3>5 DEF Storages
  <2>3. CASE storage' = [storage EXCEPT !.points = flag]
    <3> HIDE DEF flag
    <3> QED
      BY <1>0, <1>4, <2>3 DEF Storages
  <2>4. CASE storage' = [storage EXCEPT !.enabled = flag]
    <3> HIDE DEF flag
    <3> QED
      BY <1>0, <1>4, <2>4 DEF Storages
  <2>5. CASE storage' = storage
    BY <1>0, <2>5
  <2> QED
    BY <1>1, <2>1, <2>2, <2>3, <2>4, <2>5
<1> DEFINE rows == Rows(r)
           state == State(r, storage')
           status == Status(storage')
           got == Got(r, storage')
<1>6. rows \in SUBSET Generations /\ (\A g \in rows : g[1] = r.arg.owner)
  BY DEF Prepared
<1>7. state \in JobStates \cup {"unknown"}
  BY <1>4, <1>5, StorageFields
<1>8. status \in Statuses
  <2> DEFINE yes == TRUE
             enabled == storage'.enabled
             points == storage'.points
  <2>1. status = [known |-> yes, enabled |-> enabled, points |-> points]
    OBVIOUS
  <2>2. yes \in BOOLEAN /\ enabled \in BOOLEAN /\ points \in BOOLEAN
    BY <1>5, StorageFields
  <2> HIDE DEF yes, enabled, points, status
  <2> QED
    BY <2>1, <2>2 DEF Statuses
<1>9. got = [Query EXCEPT !.rows = rows, !.gen = gen, !.state = state, !.status = status]
  OBVIOUS
<1>a. Refused(r) \/ Answered(r, got)
  BY <1>1
<1> HIDE DEF rows, state, status, got, owner, job, flag, Rows, State, Status, Got
<1>b. got \in PanelParams /\ got.gen = gen /\ got.rows = rows
  <2> HIDE DEF gen
  <2> QED BY <1>4, <1>6, <1>7, <1>8, <1>9, PanelQueries DEF PanelParams
<1>c. /\ UnderWay(PanelNames, PanelParams)'
      /\ \A s \in net' :
            \/ s \in net
            \/ /\ s.op = r.op /\ s.arg = r.arg /\ s.id = r.id
               /\ s.state \in {"answered", "failed"} /\ s.got = IF s.state = "answered" THEN got ELSE r.got
  BY <1>0, <1>1, <1>2, <1>a, <1>b, Served
<1>d. \A s \in net' : Belongs(s, panel')
  BY <1>2, <1>c DEF PanelsInv, Belongs
<1>e. \A s \in net' : AnswerBelongs(s)
  BY <1>6, <1>b, <1>c DEF PanelsInv, AnswerBelongs
<1>f. \A s, q \in net' : NewestCheck(s, panel') /\ NewestCheck(q, panel') => s.id = q.id
  BY <1>1, <1>2, <1>c DEF PanelsInv, NewestCheck
<1>g. PageBelongs(panel') /\ panel' \in PanelPages
  BY <1>0, <1>2 DEF PanelsInv
<1> QED
  BY <1>5, <1>c, <1>d, <1>e, <1>f, <1>g DEF PanelsInv, Belongs, AnswerBelongs, NewestCheck, PageBelongs

LEMMA PanelsOfJobs ==
    ASSUME PanelsInv, JobEnds
    PROVE  PanelsInv'
<1>0. storage \in Storages
  BY PanelsNow
<1>1. PICK g \in Generations, j \in Jobs : storage' = [storage EXCEPT !.jobs[g][j] = "done"]
  BY DEF JobEnds
<1> DEFINE jobs == [storage.jobs EXCEPT ![g] = [storage.jobs[g] EXCEPT ![j] = "done"]]
<1>2. storage' = [storage EXCEPT !.jobs = jobs]
  BY <1>0, <1>1 DEF Storages
<1>3. storage.jobs \in [Generations -> [Jobs -> JobStates]] /\ "done" \in JobStates
  BY <1>0, StorageFields DEF JobStates
<1>4. jobs \in [Generations -> [Jobs -> JobStates]]
  BY <1>3
<1> HIDE DEF jobs
<1>5. storage' \in Storages
  BY <1>0, <1>2, <1>4 DEF Storages
<1>6. panel' = panel /\ net' = net /\ task' = task /\ clicks' = clicks /\ faults' = faults
  BY DEF JobEnds, requestVars
<1> QED
  BY <1>5, <1>6 DEF PanelsInv, UnderWay, Belongs, AnswerBelongs, NewestCheck, PageBelongs

LEMMA PanelsAttemptFails ==
    ASSUME PanelsInv, FailAttempt, UNCHANGED panelVars
    PROVE  PanelsInv'
<1>0. UnderWay(PanelNames, PanelParams) /\ panel' = panel /\ storage' = storage
  BY PanelsNow DEF panelVars
<1>1. /\ UnderWay(PanelNames, PanelParams)'
      /\ \A s \in net' :
            \/ s \in net
            \/ /\ s.state \in {"sent", "failed"}
               /\ \E r \in net : s.op = r.op /\ s.arg = r.arg /\ s.id = r.id
  BY <1>0, AttemptFailed
<1>2. \A s \in net' : Belongs(s, panel')
  BY <1>0, <1>1 DEF PanelsInv, Belongs
<1>3. \A s \in net' : AnswerBelongs(s)
  BY <1>1 DEF PanelsInv, AnswerBelongs
<1>4. \A s \in net' : \E r \in net : s.op = r.op /\ s.arg = r.arg /\ s.id = r.id
  BY <1>1
<1>5. \A s, q \in net' : NewestCheck(s, panel') /\ NewestCheck(q, panel') => s.id = q.id
  BY <1>0, <1>4 DEF PanelsInv, NewestCheck
<1> QED
  BY <1>0, <1>1, <1>2, <1>3, <1>5 DEF PanelsInv, Belongs, AnswerBelongs, NewestCheck, PageBelongs

LEMMA PanelsStart ==
    ASSUME InitRequests("panels"), InitPanels
    PROVE  PanelsInv
<1>1. task \in Tasks /\ clicks = 0 /\ faults = 0
  BY DEF InitRequests
<1> DEFINE asks == Asked("delivery", Query)
<1>2. asks \in Seq(AsksFor(PanelNames, PanelParams)) /\ Len(asks) = 1 /\ Single(asks, "delivery", Query)
      /\ "delivery" \in PanelNames /\ Query \in PanelParams
  <2>1. "delivery" \in PanelNames /\ Query \in PanelParams
    BY PanelQueries DEF PanelNames
  <2> HIDE DEF asks
  <2> QED
    BY <2>1, PanelAsked DEF asks
<1>3. net = Sent(asks, <<1>>)
  BY DEF InitPanels
<1> HIDE DEF asks
<1>4. /\ UnderWay(PanelNames, PanelParams)
      /\ \A r \in net : r.op = "delivery" /\ r.state = "sent"
      /\ \A r, q \in net : r = q
  BY <1>1, <1>2, <1>3, FirstRequest
<1> DEFINE yes == TRUE
           no == FALSE
           watch == [j \in Jobs |-> NoWatch]
<1>5. panel = [users |-> "none", owner |-> NoOwner, rows |-> {}, selected |-> NoGeneration, epoch |-> 0,
               loading |-> no, checking |-> no, notice |-> NoGeneration, creating |-> no, comparing |-> no,
               watch |-> watch, status |-> NoStatus, refreshing |-> yes, error |-> no, saving |-> no,
               busy |-> no, ready |-> no]
  BY DEF InitPanels, OpenedPanels
<1>6. /\ yes \in BOOLEAN /\ no \in BOOLEAN /\ watch \in [Jobs -> Watches]
      /\ \A j \in Jobs : watch[j].of = NoGeneration /\ watch[j].from = NoGeneration /\ watch[j].num = 0
  BY NoneIsTyped
<1> HIDE DEF yes, no, watch
<1>7. /\ panel \in PanelPages /\ panel.rows = {} /\ panel.notice = NoGeneration /\ panel.watch = watch
  BY <1>5, <1>6, NoneIsTyped DEF PanelPages
<1>8. PageBelongs(panel)
  BY <1>6, <1>7 DEF PageBelongs
<1>9. storage \in Storages
  <2>1. PICK made \in {{}, Owners}, built \in BOOLEAN :
          storage = [made |-> made, enabled |-> FALSE, points |-> FALSE,
                     jobs |-> [g \in Generations |-> [j \in Jobs |->
                                 IF built /\ g[1] \in made /\ g[2] = "qdrant" /\ j = "build" THEN "done" ELSE "not_started"]]]
    BY DEF InitPanels
  <2> DEFINE off == FALSE
             jobs == [g \in Generations |-> [j \in Jobs |->
                        IF built /\ g[1] \in made /\ g[2] = "qdrant" /\ j = "build" THEN "done" ELSE "not_started"]]
  <2>2. off \in BOOLEAN /\ made \in SUBSET Owners /\ storage = [made |-> made, enabled |-> off, points |-> off, jobs |-> jobs]
    BY <2>1
  <2>3. jobs \in [Generations -> [Jobs -> JobStates]]
    BY DEF JobStates
  <2> HIDE DEF off, jobs
  <2> QED
    BY <2>2, <2>3 DEF Storages
<1> QED
  BY <1>4, <1>7, <1>8, <1>9 DEF PanelsInv, Belongs, AnswerBelongs

LEMMA PanelsKeepTask ==
    ASSUME NextPanels
    PROVE  task' = task
<1>1. \A act, p, asks : Pressed(act, p, asks) => task' = task
  BY DEF Pressed, Click
<1>2. \A p, done, asks : Turns(p, done, asks) => task' = task
  BY DEF Turns, React
<1>3. CASE ServePanels
  BY <1>3 DEF ServePanels
<1>4. CASE JobEnds
  BY <1>4 DEF JobEnds, requestVars
<1>5. CASE LoadUsers \/ UsersBack \/ ChooseOwner \/ GenerationsBack \/ SelectGeneration
  BY <1>1, <1>2, <1>5 DEF LoadUsers, UsersBack, ChooseOwner, GenerationsBack, SelectGeneration
<1>6. CASE Control \/ WatchTick \/ WatchBack \/ PrepareCollection \/ PrepareBack
  <2>1. Control => task' = task
    <3> SUFFICES ASSUME Control PROVE task' = task
      OBVIOUS
    <3>1. PICK j \in Jobs, do \in {"load", "start", "pause", "resume"} :
            LET p == [Requested(panel, j) EXCEPT !.watch[j].busy = do # "load"]
            IN  Pressed("control", p, WatchAsk(p, j, do))
      BY DEF Control
    <3> QED
      BY <1>1, <3>1
  <2>2. WatchTick => task' = task
    BY <1>2 DEF WatchTick
  <2>3. WatchBack => task' = task
    <3> SUFFICES ASSUME WatchBack PROVE task' = task
      OBVIOUS
    <3> DEFINE Accepted(r) ==
                 [panel EXCEPT !.watch[r.arg.job].loading = FALSE, !.watch[r.arg.job].busy = FALSE,
                               !.watch[r.arg.job].shown = IF r.state = "answered" THEN r.got.state ELSE @,
                               !.watch[r.arg.job].from = IF r.state = "answered" THEN r.got.gen ELSE @]
               Opens(p) == p.watch["build"].shown = "done" /\ p.watch["verification"].of = NoGeneration
               Mounts(p) == MountedFor(p, "verification", p.watch["build"].of)
               Closed(p) == IF p.watch["build"].shown # "done" THEN [p EXCEPT !.watch["verification"] = NoWatch] ELSE p
    <3>1. PICK r \in Back("watch") :
            IF r.arg.num # panel.watch[r.arg.job].num THEN Turns(panel, {r}, <<>>)
            ELSE IF Opens(Accepted(r))
                 THEN Turns(Mounts(Accepted(r)), {r}, WatchAsk(Mounts(Accepted(r)), "verification", "load"))
                 ELSE Turns(Closed(Accepted(r)), {r}, <<>>)
      BY DEF WatchBack
    <3> HIDE DEF Accepted, Opens, Mounts, Closed
    <3> QED
      BY <1>2, <3>1
  <2>4. PrepareCollection => task' = task
    BY <1>1 DEF PrepareCollection
  <2>5. PrepareBack => task' = task
    BY <1>2 DEF PrepareBack
  <2> QED
    BY <1>6, <2>1, <2>2, <2>3, <2>4, <2>5
<1>7. CASE CheckGeneration \/ CheckBack \/ CreateQdrant \/ CreatedBack \/ Compare \/ CompareBack
  <2>1. CheckGeneration => task' = task
    BY <1>1 DEF CheckGeneration
  <2>2. CheckBack => task' = task
    BY <1>2 DEF CheckBack
  <2>3. CreateQdrant => task' = task
    BY <1>1 DEF CreateQdrant
  <2>4. CreatedBack => task' = task
    BY <1>2 DEF CreatedBack
  <2>5. Compare \/ CompareBack => task' = task
    BY <1>1, <1>2 DEF Compare, CompareBack
  <2> QED
    BY <1>7, <2>1, <2>2, <2>3, <2>4, <2>5
<1>8. CASE RefreshDelivery \/ DeliveryBack \/ SetPointDelivery \/ PointsBack \/ UseConnection \/ ConnectionBack
  BY <1>1, <1>2, <1>8 DEF RefreshDelivery, DeliveryBack, SetPointDelivery, PointsBack, UseConnection, ConnectionBack
<1> QED
  BY <1>3, <1>4, <1>5, <1>6, <1>7, <1>8 DEF NextPanels

LEMMA PanelsSteps ==
    ASSUME PanelsInv, NextPanels
    PROVE  PanelsInv' /\ task' = task
<1>1. PanelsInv'
  BY StorageServes, PanelsOfJobs, UsersAreLoaded, OwnerIsChosen, GenerationsCame, GenerationIsSelected,
     PanelIsControlled, WatchAnswered, CollectionIsPrepared, GenerationIsChecked, CheckAnswered, QdrantIsCreated,
     GenerationWasCreated, GenerationsAreCompared, DeliveryTurns, ConnectionTurns DEF NextPanels
<1> QED
  BY <1>1, PanelsKeepTask

LEMMA PanelsPromises ==
    ASSUME PanelsInv
    PROVE  /\ TypeOKRequests /\ TypeOKPanels
           /\ \A row \in panel.rows : row.by = "load" => row.gen[1] = panel.owner
           /\ panel.notice \in {NoGeneration, panel.selected}
           /\ \A j \in Jobs : /\ panel.watch[j].of \in {NoGeneration, panel.selected}
                              /\ panel.watch[j].from \in {NoGeneration, panel.watch[j].of}
<1>1. TypeOKRequests
  BY FieldsOfRequests DEF PanelsInv, UnderWay, TypeOKRequests
<1>2. TypeOKPanels
  <2>1. panel \in PanelPages /\ storage \in Storages
    BY PanelsNow
  <2>2. \A j \in Jobs : panel.watch[j].shown \in JobStates \cup {"unknown"} /\ panel.watch[j].num \in Nat
    BY <2>1, PanelFields, WatchFields
  <2> QED
    BY <2>1, <2>2, PanelFields, StorageFields DEF TypeOKPanels, GenerationRows, MaybeGeneration, MaybeOwner
<1> QED
  BY <1>1, <1>2 DEF PanelsInv, PageBelongs

-----------------------------------------------------------------------------
(* The documents. *)

DocumentNames == {"documents", "moredocuments", "chunks", "start", "stop", "status"}
DocumentThens == {"nothing", "mount", "files", "mail", "poll", "stop", "load"}
DocumentNumbers == 1..MaxListed
DocumentParams ==
    [filter: Filters, offset: Nat, doc: Nat, epoch: Nat, then: DocumentThens, found: Seq(DocumentNumbers), total: 0..MaxListed, run: Runs]
Chunks == [status: {"none", "loading", "ready", "error"}, pages: Seq(Nat), more: BOOLEAN]
DocumentPages ==
    [list: Seq(DocumentNumbers), total: 0..MaxListed, filter: Filters, loading: BOOLEAN, more: BOOLEAN, hasMore: BOOLEAN,
     status: Runs \cup {"unknown"}, statusError: BOOLEAN, asking: BOOLEAN, indexing: BOOLEAN,
     stop: {"no", "asked", "waiting", "polling"}, polls: 0..StopPolls, timer: BOOLEAN, mounting: 0..2,
     expanded: SUBSET DocumentNumbers, cache: [DocumentNumbers -> Chunks], epoch: Nat, disposed: BOOLEAN]

(* Chunks are there once they came, and never more of them than there are.   *)
ChunksOK(c) ==
    /\ c.status = "ready" <=> c.pages # <<>>
    /\ Len(c.pages) <= ChunkPages

(* A request of the list that is shown is the one its document waits for. *)
ChunkFits(r, p) ==
    r.op = "chunks" =>
        /\ r.arg.doc \in DocumentNumbers /\ r.arg.epoch <= p.epoch
        /\ r.arg.epoch = p.epoch /\ ~p.disposed =>
              IF r.arg.offset = 0 THEN p.cache[r.arg.doc].status = "loading"
              ELSE /\ p.cache[r.arg.doc].status = "ready" /\ p.cache[r.arg.doc].more
                   /\ r.arg.offset = Len(p.cache[r.arg.doc].pages) /\ r.arg.offset < ChunkPages

ChunksOnce(rs, p) ==
    ~p.disposed => \A r, q \in rs :
        /\ r.op = "chunks" /\ q.op = "chunks" /\ r.arg.epoch = p.epoch /\ q.arg.epoch = p.epoch
        /\ r.arg.doc = q.arg.doc
        => r.id = q.id

ChunksCome(rs, p) ==
    \A d \in DocumentNumbers : p.cache[d].status = "loading" =>
        p.disposed \/ \E r \in rs : r.op = "chunks" /\ r.arg.doc = d /\ r.arg.epoch = p.epoch

(* The first list and the first status are each counted until they came. *)
MountOK(rs, p) ==
    /\ \A r \in rs : r.arg.then = "mount" => r.op \in {"documents", "status"} /\ p.mounting \in 1..2
    /\ \A r, q \in rs : r.arg.then = "mount" /\ q.arg.then = "mount" =>
          IF r.op = q.op THEN r.id = q.id ELSE p.mounting = 2

StopOK(p) == p.stop = "waiting" => p.polls < StopPolls

DocumentsInv ==
    /\ UnderWay(DocumentNames, DocumentParams)
    /\ page \in DocumentPages /\ StopOK(page) /\ (\A d \in DocumentNumbers : ChunksOK(page.cache[d]))
    /\ indexed \subseteq DocumentNumbers /\ run \in Runs
    /\ \A r \in net : ChunkFits(r, page)
    /\ ChunksOnce(net, page) /\ ChunksCome(net, page) /\ MountOK(net, page)

(* What a step may do to the chunks of a document. *)
ChunksGrow(old, new) ==
    /\ new.status = "ready" => old.status \in {"loading", "ready"}
    /\ new.pages # old.pages => new.pages = <<>> \/ new.pages = Append(old.pages, Len(old.pages))

DocumentsStep == \A d \in DocumentNumbers : ChunksGrow(page.cache[d], page'.cache[d])

LEMMA DocumentFields ==
    ASSUME NEW p \in DocumentPages
    PROVE  /\ p.list \in Seq(DocumentNumbers) /\ p.total \in 0..MaxListed /\ p.filter \in Filters /\ p.loading \in BOOLEAN
           /\ p.more \in BOOLEAN /\ p.hasMore \in BOOLEAN /\ p.status \in Runs \cup {"unknown"} /\ p.statusError \in BOOLEAN
           /\ p.asking \in BOOLEAN /\ p.indexing \in BOOLEAN /\ p.stop \in {"no", "asked", "waiting", "polling"}
           /\ p.polls \in 0..StopPolls /\ p.timer \in BOOLEAN /\ p.mounting \in 0..2 /\ p.expanded \in SUBSET DocumentNumbers
           /\ p.cache \in [DocumentNumbers -> Chunks] /\ p.epoch \in Nat /\ p.disposed \in BOOLEAN
BY DEF DocumentPages

LEMMA DocumentParamFields ==
    ASSUME NEW P \in DocumentParams
    PROVE  /\ P.filter \in Filters /\ P.offset \in Nat /\ P.doc \in Nat /\ P.epoch \in Nat /\ P.then \in DocumentThens
           /\ P.found \in Seq(DocumentNumbers) /\ P.total \in 0..MaxListed /\ P.run \in Runs
BY DEF DocumentParams

LEMMA ChunkFields ==
    ASSUME NEW c \in Chunks
    PROVE  c.status \in {"none", "loading", "ready", "error"} /\ c.pages \in Seq(Nat) /\ c.more \in BOOLEAN
BY DEF Chunks

LEMMA DocumentsNow ==
    ASSUME DocumentsInv
    PROVE  /\ UnderWay(DocumentNames, DocumentParams) /\ page \in DocumentPages
           /\ \A r \in net : /\ r \in RequestsFor(DocumentNames, DocumentParams) /\ r.op \in DocumentNames
                             /\ r.arg \in DocumentParams /\ r.got \in DocumentParams /\ r.arg.epoch \in Nat
                             /\ r.arg.offset \in Nat
<1>1. UnderWay(DocumentNames, DocumentParams) /\ page \in DocumentPages /\ net \subseteq RequestsFor(DocumentNames, DocumentParams)
  BY DEF DocumentsInv, UnderWay
<1> QED
  BY <1>1, FieldsOfRequests, DocumentParamFields

\* Two states of the page that differ in nothing the chunks depend on.
SameChunks(p, q) == q.cache = p.cache /\ q.epoch = p.epoch /\ q.disposed = p.disposed

SameRequest(s, r) == s.op = r.op /\ s.get = r.get /\ s.arg = r.arg /\ s.id = r.id

(* Requests are served or fail, and the page stays as it is. *)
LEMMA DocumentsCarried ==
    ASSUME DocumentsInv, UnderWay(DocumentNames, DocumentParams)', page' = page,
           indexed' \subseteq DocumentNumbers, run' \in Runs,
           \A s \in net' : \E r \in net : SameRequest(s, r),
           \A r \in net : \E s \in net' : SameRequest(s, r)
    PROVE  DocumentsInv' /\ DocumentsStep
<1>1. \A r \in net' : ChunkFits(r, page)
  BY DEF DocumentsInv, SameRequest, ChunkFits
<1>2. ChunksOnce(net', page)
  BY DEF DocumentsInv, SameRequest, ChunksOnce
<1>3. ChunksCome(net', page)
  BY DEF DocumentsInv, SameRequest, ChunksCome
<1>4. MountOK(net', page)
  BY DEF DocumentsInv, SameRequest, MountOK
<1>5. DocumentsStep
  BY DEF DocumentsStep, ChunksGrow
<1> QED
  BY <1>1, <1>2, <1>3, <1>4, <1>5 DEF DocumentsInv

\* asks asks for no chunks, and for nothing that is counted.
OtherAsks(asks) == \A i \in DOMAIN asks : asks[i].op # "chunks" /\ asks[i].arg.then # "mount"

(* A step that has nothing to do with the chunks. *)
LEMMA DocumentsStay ==
    ASSUME DocumentsInv, NEW done, NEW asks \in Seq(AsksFor(DocumentNames, DocumentParams)), OtherAsks(asks),
           Exchange(done, asks), task' = task, clicks' \in 0..task.clicks, faults' = faults,
           page' \in DocumentPages, StopOK(page'), SameChunks(page, page'),
           \A r \in net : r \in done => r.op # "chunks",
           \/ page'.mounting = page.mounting
           \/ \E r \in net : /\ done = {r} /\ r.arg.then = "mount" /\ page'.mounting = page.mounting - 1,
           UNCHANGED <<indexed, run>>
    PROVE  DocumentsInv' /\ DocumentsStep
<1>0. UnderWay(DocumentNames, DocumentParams) /\ page \in DocumentPages /\ indexed \subseteq DocumentNumbers /\ run \in Runs
  BY DEF DocumentsInv
<1>1. /\ UnderWay(DocumentNames, DocumentParams)'
      /\ \A r \in net' : (r \in net /\ r \notin done) \/ (r \notin net /\ \E i \in DOMAIN asks : SentFor(r, asks[i]))
      /\ \A r \in net \ done : r \in net'
  BY <1>0, Exchanged
<1>2. \A r \in net' : \/ r \in net /\ r \notin done
                      \/ r.op # "chunks" /\ r.arg.then # "mount"
  BY <1>1 DEF OtherAsks, SentFor
<1>3. \A r \in net' : ChunkFits(r, page')
  BY <1>2 DEF DocumentsInv, ChunkFits, SameChunks
<1>4. ChunksOnce(net', page')
  BY <1>2 DEF DocumentsInv, ChunksOnce, SameChunks
<1>5. ChunksCome(net', page')
  BY <1>1 DEF DocumentsInv, ChunksCome, SameChunks
<1>6. MountOK(net', page')
  <2>1. page.mounting \in 0..2 /\ page'.mounting \in 0..2
    BY <1>0, DocumentFields
  <2>2. \A r \in net' : r.arg.then = "mount" => r \in net /\ r \notin done
    BY <1>2
  <2>3. MountOK(net, page)
    BY DEF DocumentsInv
  <2>4. CASE page'.mounting = page.mounting
    BY <2>2, <2>3, <2>4 DEF MountOK
  <2>5. CASE \E r \in net : done = {r} /\ r.arg.then = "mount" /\ page'.mounting = page.mounting - 1
    <3>1. PICK r \in net : done = {r} /\ r.arg.then = "mount" /\ page'.mounting = page.mounting - 1
      BY <2>5
    <3>2. \A q \in net : q.id = r.id => q = r
      BY <1>0 DEF UnderWay
    <3>3. \A q \in net' : q.arg.then = "mount" => q \in net /\ q.id # r.id
      BY <2>2, <3>1, <3>2
    <3>4. \A q \in net' : q.arg.then = "mount" => q.op # r.op /\ page.mounting = 2
      BY <2>3, <3>1, <3>3 DEF MountOK
    <3>5. \A q \in net' : q.arg.then = "mount" => page'.mounting = 1 /\ q.op \in {"documents", "status"}
      BY <2>3, <3>1, <3>3, <3>4 DEF MountOK
    <3>6. r.op \in {"documents", "status"}
      BY <2>3, <3>1 DEF MountOK
    <3>7. \A q, s \in net' : q.arg.then = "mount" /\ s.arg.then = "mount" => q.op = s.op /\ q \in net /\ s \in net
      BY <3>3, <3>4, <3>5, <3>6
    <3>8. \A q, s \in net' : q.arg.then = "mount" /\ s.arg.then = "mount" => q.id = s.id
      BY <2>3, <3>7 DEF MountOK
    <3> QED
      BY <3>5, <3>7, <3>8 DEF MountOK
  <2> QED
    BY <2>4, <2>5
<1>7. DocumentsStep
  BY DEF DocumentsStep, ChunksGrow, SameChunks
<1>8. \A d \in DocumentNumbers : ChunksOK(page'.cache[d])
  BY DEF DocumentsInv, SameChunks
<1> QED
  BY <1>0, <1>1, <1>3, <1>4, <1>5, <1>6, <1>7, <1>8 DEF DocumentsInv

LEMMA DocumentsClicked ==
    ASSUME DocumentsInv, NEW act, NEW asks \in Seq(AsksFor(DocumentNames, DocumentParams)), OtherAsks(asks),
           Click(act, asks), page' \in DocumentPages, StopOK(page'), SameChunks(page, page'),
           page'.mounting = page.mounting, UNCHANGED <<indexed, run>>
    PROVE  DocumentsInv' /\ DocumentsStep
<1> DEFINE none == {}
<1>1. UnderWay(DocumentNames, DocumentParams)
  BY DEF DocumentsInv
<1>2. Exchange(none, asks) /\ task' = task /\ clicks' \in 0..task.clicks /\ faults' = faults
  BY <1>1, Clicked1
<1>3. \A r \in net : r \in none => r.op # "chunks"
  OBVIOUS
<1> HIDE DEF none
<1> QED
  BY <1>2, <1>3, DocumentsStay

LEMMA DocumentsReacted ==
    ASSUME DocumentsInv, NEW done, NEW asks \in Seq(AsksFor(DocumentNames, DocumentParams)), OtherAsks(asks),
           React(done, asks), page' \in DocumentPages, StopOK(page'), SameChunks(page, page'),
           \A r \in net : r \in done => r.op # "chunks",
           \/ page'.mounting = page.mounting
           \/ \E r \in net : /\ done = {r} /\ r.arg.then = "mount" /\ page'.mounting = page.mounting - 1,
           UNCHANGED <<indexed, run>>
    PROVE  DocumentsInv' /\ DocumentsStep
<1>1. UnderWay(DocumentNames, DocumentParams)
  BY DEF DocumentsInv
<1>2. Exchange(done, asks) /\ task' = task /\ clicks' \in 0..task.clicks /\ faults' = faults
  BY <1>1, Reacted
<1> QED
  BY <1>2, DocumentsStay

LEMMA NoAsks ==
    <<>> \in Seq(AsksFor(DocumentNames, DocumentParams)) /\ OtherAsks(<<>>)
BY DEF OtherAsks

(* One request that is not for chunks. *)
LEMMA OtherAsk ==
    ASSUME NEW op \in DocumentNames \ {"chunks"}, NEW P \in DocumentParams, P.then # "mount", NEW asks,
           asks = <<Ask(op, TRUE, P)>> \/ asks = <<Ask(op, FALSE, P)>>
    PROVE  asks \in Seq(AsksFor(DocumentNames, DocumentParams)) /\ OtherAsks(asks)
<1>1. asks \in Seq(AsksFor(DocumentNames, DocumentParams)) /\ Single(asks, op, P)
  BY OneAsk
<1> QED
  BY <1>1 DEF OtherAsks, Single

LEMMA WishIsParam ==
    Wish \in DocumentParams
<1>1. <<>> \in Seq(DocumentNumbers) /\ 0 \in 0..MaxListed
  BY DocumentsAssumption
<1> QED
  BY <1>1 DEF Wish, DocumentParams, DocumentThens, Filters, Runs

(* The requests for the list and for the status. *)
LEMMA ListIsAsked ==
    ASSUME NEW p \in DocumentPages
    PROVE  /\ StartsLoad(p) \in DocumentPages /\ SameChunks(p, StartsLoad(p)) /\ StartsLoad(p).mounting = p.mounting
           /\ StartsLoad(p).stop = p.stop /\ StartsLoad(p).polls = p.polls
           /\ LoadAsks(p) \in Seq(AsksFor(DocumentNames, DocumentParams)) /\ OtherAsks(LoadAsks(p))
           /\ <<ListWish(p, TRUE, "nothing")>> \in Seq(AsksFor(DocumentNames, DocumentParams))
           /\ OtherAsks(<<ListWish(p, TRUE, "nothing")>>)
<1>1. StartsLoad(p) \in DocumentPages /\ SameChunks(p, StartsLoad(p)) /\ StartsLoad(p).mounting = p.mounting
      /\ StartsLoad(p).stop = p.stop /\ StartsLoad(p).polls = p.polls
  BY DEF StartsLoad, DocumentPages, SameChunks
<1> DEFINE offset(more) == IF more THEN Len(p.list) ELSE 0
           P(more) == [Wish EXCEPT !.filter = p.filter, !.offset = offset(more), !.then = "nothing"]
<1>2. p.filter \in Filters /\ Len(p.list) \in Nat
  BY DocumentFields
<1>3. P(TRUE) \in DocumentParams /\ P(FALSE) \in DocumentParams /\ P(TRUE).then = "nothing" /\ P(FALSE).then = "nothing"
  BY <1>2, WishIsParam DEF DocumentParams, DocumentThens
<1>4. /\ ListWish(p, TRUE, "nothing") = Ask("moredocuments", TRUE, P(TRUE))
      /\ ListWish(p, FALSE, "nothing") = Ask("documents", TRUE, P(FALSE))
  BY DEF ListWish
<1> HIDE DEF P
<1> DEFINE first == <<ListWish(p, FALSE, "nothing")>>
           next == <<ListWish(p, TRUE, "nothing")>>
<1>5. first = <<Ask("documents", TRUE, P(FALSE))>> /\ next = <<Ask("moredocuments", TRUE, P(TRUE))>>
  BY <1>4
<1>6. LoadAsks(p) = first \/ LoadAsks(p) = <<>>
  BY DEF LoadAsks
<1> HIDE DEF first, next
<1>7. "documents" \in DocumentNames \ {"chunks"} /\ "moredocuments" \in DocumentNames \ {"chunks"}
  BY DEF DocumentNames
<1>8. /\ first \in Seq(AsksFor(DocumentNames, DocumentParams)) /\ OtherAsks(first)
      /\ next \in Seq(AsksFor(DocumentNames, DocumentParams)) /\ OtherAsks(next)
  BY <1>3, <1>5, <1>7, OtherAsk
<1>9. LoadAsks(p) \in Seq(AsksFor(DocumentNames, DocumentParams)) /\ OtherAsks(LoadAsks(p))
  BY <1>6, <1>8, NoAsks
<1> QED
  BY <1>1, <1>8, <1>9 DEF next

LEMMA StatusIsAsked ==
    ASSUME NEW then \in DocumentThens \ {"mount"}
    PROVE  <<StatusWish(then)>> \in Seq(AsksFor(DocumentNames, DocumentParams)) /\ OtherAsks(<<StatusWish(then)>>)
<1> DEFINE P == [Wish EXCEPT !.then = then]
           asks == <<StatusWish(then)>>
<1>1. P \in DocumentParams /\ P.then = then
  BY WishIsParam DEF DocumentParams
<1>2. asks = <<Ask("status", TRUE, P)>> /\ "status" \in DocumentNames \ {"chunks"}
  BY DEF StatusWish, DocumentNames
<1> HIDE DEF P, asks
<1>3. asks \in Seq(AsksFor(DocumentNames, DocumentParams)) /\ OtherAsks(asks)
  BY <1>1, <1>2, OtherAsk
<1> QED
  BY <1>3 DEF asks

(* The loop of a stop goes on, or ends with a status and a list. *)
LEMMA StopGoesOn ==
    ASSUME DocumentsInv, NEW p \in DocumentPages, SameChunks(page, p), p.mounting = page.mounting, NEW done,
           \A r \in net : r \in done => r.op # "chunks", GoesOn(p, done), UNCHANGED <<indexed, run>>
    PROVE  DocumentsInv' /\ DocumentsStep
<1>1. CASE Polls(p)
  <2>1. page' = [p EXCEPT !.stop = "waiting"] /\ React(done, <<>>)
    BY <1>1 DEF GoesOn
  <2>2. page' \in DocumentPages /\ StopOK(page') /\ SameChunks(page, page') /\ page'.mounting = page.mounting
    BY <1>1, <2>1 DEF Polls, StopOK, SameChunks, DocumentPages
  <2> QED
    BY <2>1, <2>2, NoAsks, DocumentsReacted
<1>2. CASE ~Polls(p)
  <2> DEFINE q == [p EXCEPT !.stop = "no"]
  <2>1. q \in DocumentPages /\ q.stop = "no" /\ SameChunks(page, q) /\ q.mounting = page.mounting
    BY DEF SameChunks, DocumentPages
  <2>2. IF q.asking THEN page' = StartsLoad(q) /\ React(done, LoadAsks(q))
                    ELSE page' = [q EXCEPT !.asking = TRUE] /\ React(done, <<StatusWish("load")>>)
    BY <1>2 DEF GoesOn
  <2> HIDE DEF q
  <2>3. CASE q.asking
    <3>1. page' = StartsLoad(q) /\ React(done, LoadAsks(q))
      BY <2>2, <2>3
    <3>2. page' \in DocumentPages /\ StopOK(page') /\ SameChunks(page, page') /\ page'.mounting = page.mounting
      BY <2>1, <3>1, ListIsAsked DEF StopOK, SameChunks
    <3>3. LoadAsks(q) \in Seq(AsksFor(DocumentNames, DocumentParams)) /\ OtherAsks(LoadAsks(q))
      BY <2>1, ListIsAsked
    <3> QED
      BY <3>1, <3>2, <3>3, DocumentsReacted
  <2>4. CASE ~q.asking
    <3>1. page' = [q EXCEPT !.asking = TRUE] /\ React(done, <<StatusWish("load")>>)
      BY <2>2, <2>4
    <3>2. page' \in DocumentPages /\ StopOK(page') /\ SameChunks(page, page') /\ page'.mounting = page.mounting
      BY <2>1, <3>1 DEF StopOK, SameChunks, DocumentPages
    <3>3. "load" \in DocumentThens \ {"mount"}
      BY DEF DocumentThens
    <3> QED
      BY <3>1, <3>2, <3>3, StatusIsAsked, DocumentsReacted
  <2> QED
    BY <2>3, <2>4
<1> QED
  BY <1>1, <1>2

(* The server answers, and the indexing ends. *)
LEMMA DocumentsAreServed ==
    ASSUME DocumentsInv, ServeDocuments
    PROVE  DocumentsInv' /\ DocumentsStep
<1>0. UnderWay(DocumentNames, DocumentParams) /\ indexed \subseteq DocumentNumbers /\ run \in Runs
  BY DEF DocumentsInv
<1>1. PICK r \in net :
          /\ r.state = "sent"
          /\ run' = RunAfter(r.op)
          /\ Answered(r, CASE r.op \in {"documents", "moredocuments"} -> DocumentsPage(r)
                           [] OTHER -> [Wish EXCEPT !.run = run'])
  BY DEF ServeDocuments
<1>2. UNCHANGED <<page, indexed, task, clicks, faults>>
  BY DEF ServeDocuments
<1>3. run' \in Runs
  BY <1>0, <1>1 DEF RunAfter, Runs
<1>4. [Wish EXCEPT !.run = run'] \in DocumentParams
  BY <1>3, WishIsParam DEF DocumentParams
<1>5. DocumentsPage(r) \in DocumentParams
  <2> DEFINE filter == r.arg.filter
             offset == r.arg.offset
             S == {d \in indexed : filter = "all" \/ d % 2 = 1}
             found == Matches(filter)
             got == IF offset < Len(found) THEN <<found[offset + 1]>> ELSE <<>>
  <2>0. filter \in Filters /\ offset \in Nat
    BY DocumentsNow, DocumentParamFields
  <2>1. S \subseteq DocumentNumbers /\ S \subseteq Nat
    <3>1. S \subseteq indexed
      OBVIOUS
    <3>2. DocumentNumbers \subseteq Nat
      BY DocumentsAssumption DEF DocumentNumbers
    <3> HIDE DEF S
    <3> QED
      BY <1>0, <3>1, <3>2
  <2>2. IsFiniteSet(DocumentNumbers) /\ Cardinality(DocumentNumbers) = MaxListed
    BY Interval, DocumentsAssumption DEF DocumentNumbers
  <2> HIDE DEF S
  <2>3. IsFiniteSet(S) /\ Cardinality(S) <= MaxListed
    BY <2>1, <2>2, FS_Subset
  <2>4. Cardinality(S) \in Nat /\ Ascending(S) \in [1..Cardinality(S) -> S]
    BY <2>1, <2>3, InOrder
  <2>5. Ascending(S) \in Seq(DocumentNumbers) /\ Len(Ascending(S)) = Cardinality(S)
    <3>1. Ascending(S) \in [1..Cardinality(S) -> DocumentNumbers]
      BY <2>1, <2>4
    <3> DEFINE m == Cardinality(S)
               s == Ascending(S)
    <3>2. m \in Nat /\ s \in [1..m -> DocumentNumbers]
      BY <2>4, <3>1
    <3> HIDE DEF m, s
    <3>3. s \in Seq(DocumentNumbers) /\ Len(s) = m
      BY <3>2
    <3> QED
      BY <3>3 DEF m, s
  <2>6. found = Reverse(Ascending(S))
    BY DEF Matches, S
  <2>7. found \in Seq(DocumentNumbers) /\ Len(found) = Cardinality(S)
    <3> DEFINE s == Ascending(S)
    <3>1. s \in Seq(DocumentNumbers) /\ Len(s) = Cardinality(S)
      BY <2>5
    <3> HIDE DEF s
    <3>2. Reverse(s) = [i \in 1..Len(s) |-> s[(Len(s) - i) + 1]]
      BY DEF Reverse
    <3>3. \A i \in 1..Len(s) : s[(Len(s) - i) + 1] \in DocumentNumbers
      BY <3>1
    <3>4. Len(s) \in Nat
      BY <3>1
    <3>5. Reverse(s) \in Seq(DocumentNumbers) /\ Len(Reverse(s)) = Len(s)
      BY <3>2, <3>3, <3>4
    <3> QED
      BY <2>6, <3>1, <3>5 DEF s
  <2>8. Len(found) \in 0..MaxListed
    BY <2>3, <2>4, <2>7, DocumentsAssumption
  <2> HIDE DEF found
  <2>9. got \in Seq(DocumentNumbers)
    BY <2>0, <2>7
  <2>10. DocumentsPage(r) = [Wish EXCEPT !.total = Len(found), !.found = got]
    BY DEF DocumentsPage, found
  <2> HIDE DEF got
  <2> QED
    BY <2>8, <2>9, <2>10, WishIsParam DEF DocumentParams
<1>6. PICK got \in DocumentParams : Answered(r, got)
  BY <1>1, <1>4, <1>5
<1>7. /\ UnderWay(DocumentNames, DocumentParams)'
      /\ \A s \in net' : s \in net \/ SameRequest(s, r)
      /\ \A s \in net : s \in net' \/ \E q \in net' : SameRequest(q, s)
  BY <1>0, <1>1, <1>2, <1>6, Served DEF SameRequest
<1>8. /\ \A s \in net' : \E q \in net : SameRequest(s, q)
      /\ \A s \in net : \E q \in net' : SameRequest(q, s)
  BY <1>7 DEF SameRequest
<1> QED
  BY <1>0, <1>2, <1>3, <1>7, <1>8, DocumentsCarried

LEMMA IndexingComesToAnEnd ==
    ASSUME DocumentsInv, IndexingEnds
    PROVE  DocumentsInv' /\ DocumentsStep
<1>0. UnderWay(DocumentNames, DocumentParams) /\ indexed \subseteq DocumentNumbers /\ run \in Runs
  BY DEF DocumentsInv
<1>1. UNCHANGED <<page, task, net, clicks, faults>> /\ run' = "idle"
  BY DEF IndexingEnds, requestVars
<1>2. indexed' \subseteq DocumentNumbers
  <2>1. IsFiniteSet(indexed)
    <3>1. IsFiniteSet(DocumentNumbers)
      BY Interval, DocumentsAssumption DEF DocumentNumbers
    <3> QED
      BY <1>0, <3>1, FS_Subset
  <2>2. Cardinality(indexed) \in Nat
    BY <2>1, FS_CardinalityType
  <2>3. indexed' = indexed \/ (Cardinality(indexed) < MaxListed /\ indexed' = indexed \cup {Cardinality(indexed) + 1})
    BY DEF IndexingEnds
  <2>4. Cardinality(indexed) < MaxListed => Cardinality(indexed) + 1 \in DocumentNumbers
    BY <2>2, DocumentsAssumption DEF DocumentNumbers
  <2> QED
    BY <1>0, <2>3, <2>4
<1>3. UnderWay(DocumentNames, DocumentParams)' /\ run' \in Runs
  BY <1>0, <1>1 DEF UnderWay, Runs
<1>4. /\ \A s \in net' : \E q \in net : SameRequest(s, q)
      /\ \A s \in net : \E q \in net' : SameRequest(q, s)
  BY <1>1 DEF SameRequest
<1> QED
  BY <1>1, <1>2, <1>3, <1>4, DocumentsCarried

(* The list. *)
LEMMA DocumentListSteps ==
    ASSUME DocumentsInv, Load \/ LoadMoreDocuments \/ TypeSearch
    PROVE  DocumentsInv' /\ DocumentsStep
<1>0. page \in DocumentPages /\ StopOK(page)
  BY DEF DocumentsInv
<1>1. CASE Load
  <2>1. Click("load", LoadAsks(page)) /\ page' = StartsLoad(page) /\ UNCHANGED <<indexed, run>>
    BY <1>1 DEF Load
  <2>2. page' \in DocumentPages /\ StopOK(page') /\ SameChunks(page, page') /\ page'.mounting = page.mounting
    BY <1>0, <2>1, ListIsAsked DEF StopOK
  <2> QED
    BY <1>0, <2>1, <2>2, ListIsAsked, DocumentsClicked
<1>2. CASE LoadMoreDocuments
  <2>1. /\ Click("moredocuments", <<ListWish(page, TRUE, "nothing")>>) /\ page' = [page EXCEPT !.more = TRUE]
        /\ UNCHANGED <<indexed, run>>
    BY <1>2 DEF LoadMoreDocuments
  <2>2. page' \in DocumentPages /\ StopOK(page') /\ SameChunks(page, page') /\ page'.mounting = page.mounting
    BY <1>0, <2>1 DEF StopOK, SameChunks, DocumentPages
  <2> QED
    BY <1>0, <2>1, <2>2, ListIsAsked, DocumentsClicked
<1>3. CASE TypeSearch
  <2>1. PICK q \in Filters : page' = [page EXCEPT !.filter = q]
    BY <1>3 DEF TypeSearch
  <2>2. Click("search", <<>>) /\ UNCHANGED <<indexed, run>>
    BY <1>3 DEF TypeSearch
  <2>3. page' \in DocumentPages /\ StopOK(page') /\ SameChunks(page, page') /\ page'.mounting = page.mounting
    BY <1>0, <2>1 DEF StopOK, SameChunks, DocumentPages
  <2> QED
    BY <2>2, <2>3, NoAsks, DocumentsClicked
<1> QED
  BY <1>1, <1>2, <1>3

LEMMA MountingGoesOn ==
    ASSUME NEW p \in DocumentPages, NEW then, then = "mount" => p.mounting \in 1..2
    PROVE  /\ Mounting(p, then) \in DocumentPages /\ SameChunks(p, Mounting(p, then))
           /\ Mounting(p, then).mounting = IF then = "mount" THEN p.mounting - 1 ELSE p.mounting
           /\ Mounting(p, then).stop = p.stop /\ Mounting(p, then).polls = p.polls
<1> DEFINE m == p.mounting - 1
           timer == p.mounting = 1 /\ ~p.disposed
<1>1. CASE then = "mount"
  <2>1. m \in 0..2 /\ timer \in BOOLEAN
    BY <1>1
  <2>2. Mounting(p, then) = [p EXCEPT !.mounting = m, !.timer = timer]
    BY <1>1 DEF Mounting
  <2> HIDE DEF m, timer
  <2>3. Mounting(p, then) \in DocumentPages /\ SameChunks(p, Mounting(p, then)) /\ Mounting(p, then).mounting = m
        /\ Mounting(p, then).stop = p.stop /\ Mounting(p, then).polls = p.polls
    BY <2>1, <2>2 DEF DocumentPages, SameChunks
  <2> QED
    BY <1>1, <2>3 DEF m
<1>2. CASE then # "mount"
  BY <1>2 DEF Mounting, SameChunks
<1> QED
  BY <1>1, <1>2

(* The list is replaced, and with it the chunks: what was asked for them     *)
(* does not count any more.                                                  *)
LEMMA ListIsReplaced ==
    ASSUME DocumentsInv, NEW q \in DocumentPages, StopOK(q), q.disposed = page.disposed, q.mounting = page.mounting,
           q.cache = [d \in DocumentNumbers |-> NoChunks], q.epoch = page.epoch + 1,
           NEW r \in net, r.op # "chunks", page' = Mounting(q, r.arg.then), React({r}, <<>>), UNCHANGED <<indexed, run>>
    PROVE  DocumentsInv' /\ DocumentsStep
<1> DEFINE none == <<>>
           done == {r}
<1>0. /\ UnderWay(DocumentNames, DocumentParams) /\ page \in DocumentPages /\ indexed \subseteq DocumentNumbers /\ run \in Runs
      /\ page.epoch \in Nat
  BY DocumentFields DEF DocumentsInv
<1>1. none \in Seq(AsksFor(DocumentNames, DocumentParams)) /\ DOMAIN none = {}
  OBVIOUS
<1>2. React(done, none) /\ \A s \in net : s \in done <=> s = r
  OBVIOUS
<1> HIDE DEF none, done
<1>3. Exchange(done, none) /\ task' = task /\ clicks' \in 0..task.clicks /\ faults' = faults
  BY <1>0, <1>2, Reacted
<1>4. /\ UnderWay(DocumentNames, DocumentParams)'
      /\ \A s \in net' : s \in net /\ s # r
  BY <1>0, <1>1, <1>2, <1>3, Exchanged
<1>5. MountOK(net, page) /\ (r.arg.then = "mount" => q.mounting \in 1..2)
  BY DEF DocumentsInv, MountOK
<1>6. /\ page' \in DocumentPages /\ SameChunks(q, page') /\ page'.stop = q.stop /\ page'.polls = q.polls
      /\ page'.mounting = IF r.arg.then = "mount" THEN page.mounting - 1 ELSE page.mounting
  BY <1>5, MountingGoesOn
<1>7. \A s \in net' : ChunkFits(s, page') /\ (s.op = "chunks" => s.arg.epoch \in Nat /\ s.arg.epoch < page'.epoch)
  BY <1>0, <1>4, <1>6, DocumentsNow DEF DocumentsInv, ChunkFits, SameChunks
<1>8. ChunksOnce(net', page')
  BY <1>0, <1>6, <1>7 DEF ChunksOnce, SameChunks
<1>9. \A d \in DocumentNumbers : page'.cache[d].status = "none" /\ page'.cache[d].pages = <<>>
  BY <1>6 DEF SameChunks, NoChunks
<1>10. ChunksCome(net', page') /\ DocumentsStep /\ \A d \in DocumentNumbers : ChunksOK(page'.cache[d])
  BY <1>9, DocumentsAssumption DEF ChunksCome, DocumentsStep, ChunksGrow, ChunksOK
<1>11. MountOK(net', page')
  <2>1. page.mounting \in 0..2
    BY <1>0, DocumentFields
  <2>2. \A s \in net' : s \in net /\ s.id # r.id
    BY <1>0, <1>4 DEF UnderWay
  <2>3. CASE r.arg.then # "mount"
    BY <1>5, <1>6, <2>2, <2>3 DEF MountOK
  <2>4. CASE r.arg.then = "mount"
    <3>1. \A s \in net' : s.arg.then = "mount" => s.op # r.op /\ page'.mounting = 1 /\ s.op \in {"documents", "status"}
      BY <1>5, <1>6, <2>2, <2>4 DEF MountOK
    <3>2. r.op \in {"documents", "status"}
      BY <1>5, <2>4 DEF MountOK
    <3>3. \A s, t \in net' : s.arg.then = "mount" /\ t.arg.then = "mount" => s.op = t.op /\ s.id = t.id
      BY <1>5, <2>2, <3>1, <3>2 DEF MountOK
    <3> QED
      BY <3>1, <3>3 DEF MountOK
  <2> QED
    BY <2>3, <2>4
<1>12. StopOK(page')
  BY <1>6 DEF StopOK
<1>13. indexed' \subseteq DocumentNumbers /\ run' \in Runs
  BY <1>0
<1> QED
  BY <1>4, <1>6, <1>7, <1>8, <1>10, <1>11, <1>12, <1>13 DEF DocumentsInv

LEMMA DocumentsCame ==
    ASSUME DocumentsInv, DocumentsBack
    PROVE  DocumentsInv' /\ DocumentsStep
<1>0. page \in DocumentPages /\ StopOK(page) /\ UNCHANGED <<indexed, run>>
  BY DEF DocumentsInv, DocumentsBack
<1>1. PICK r \in Back("documents") \cup Back("moredocuments") :
        LET more == r.op = "moredocuments"
            p == [page EXCEPT !.loading = FALSE, !.more = FALSE]
            q == IF more THEN [p EXCEPT !.list = @ \o r.got.found] ELSE Replaced(p, r.got.found)
            n == IF r.state = "failed" \/ page.disposed THEN p
                 ELSE [q EXCEPT !.total = r.got.total,
                          !.hasMore = r.got.found # <<>> /\ Len(q.list) < r.got.total]
        IN  /\ page' = Mounting(n, r.arg.then)
            /\ React({r}, <<>>)
  BY DEF DocumentsBack
<1>2. r \in net /\ r.op # "chunks" /\ r.op \in {"documents", "moredocuments"} /\ r.got \in DocumentParams
  BY <1>1, DocumentsNow DEF Back, Open
<1>3. r.got.found \in Seq(DocumentNumbers) /\ r.got.total \in 0..MaxListed /\ (r.arg.then = "mount" => page.mounting \in 1..2)
  BY <1>2, DocumentParamFields DEF DocumentsInv, MountOK
<1> DEFINE found == r.got.found
           total == r.got.total
           p == [page EXCEPT !.loading = FALSE, !.more = FALSE]
           q == IF r.op = "moredocuments" THEN [p EXCEPT !.list = @ \o found] ELSE Replaced(p, found)
           hasMore == found # <<>> /\ Len(q.list) < total
           n == [q EXCEPT !.total = total, !.hasMore = hasMore]
<1>4. /\ page' = Mounting(IF r.state = "failed" \/ page.disposed THEN p ELSE n, r.arg.then)
      /\ React({r}, <<>>)
  BY <1>1
<1>5. /\ p \in DocumentPages /\ SameChunks(page, p) /\ p.mounting = page.mounting /\ p.stop = page.stop /\ p.polls = page.polls
      /\ p.list = page.list
  BY <1>0 DEF DocumentPages, SameChunks
<1>6. ASSUME NEW m \in DocumentPages, SameChunks(page, m), m.mounting = page.mounting, m.stop = page.stop, m.polls = page.polls,
             page' = Mounting(m, r.arg.then)
      PROVE  DocumentsInv' /\ DocumentsStep
  <2>1. /\ page' \in DocumentPages /\ SameChunks(m, page') /\ page'.stop = m.stop /\ page'.polls = m.polls
        /\ page'.mounting = IF r.arg.then = "mount" THEN m.mounting - 1 ELSE m.mounting
    BY <1>3, <1>6, MountingGoesOn
  <2>2. SameChunks(page, page') /\ StopOK(page')
    BY <1>0, <1>6, <2>1 DEF SameChunks, StopOK
  <2> DEFINE done == {r}
  <2>3. React(done, <<>>) /\ \A s \in net : s \in done => s.op # "chunks"
    BY <1>2, <1>4
  <2>4. \/ page'.mounting = page.mounting
        \/ \E s \in net : done = {s} /\ s.arg.then = "mount" /\ page'.mounting = page.mounting - 1
    BY <1>2, <1>6, <2>1
  <2> HIDE DEF done
  <2> QED
    BY <1>0, <2>1, <2>2, <2>3, <2>4, NoAsks, DocumentsReacted
<1> HIDE DEF p
<1>7. CASE r.state = "failed" \/ page.disposed
  BY <1>4, <1>5, <1>6, <1>7
<1>8. CASE ~(r.state = "failed" \/ page.disposed) /\ r.op = "moredocuments"
  <2> DEFINE list == page.list \o found
  <2>1. list \in Seq(DocumentNumbers)
    BY <1>0, <1>3, DocumentFields
  <2>2. q = [p EXCEPT !.list = list]
    BY <1>5, <1>8
  <2> HIDE DEF list, found
  <2>3. q \in DocumentPages /\ SameChunks(page, q) /\ q.mounting = page.mounting /\ q.stop = page.stop /\ q.polls = page.polls
    BY <1>5, <2>1, <2>2 DEF DocumentPages, SameChunks
  <2>4. hasMore \in BOOLEAN /\ total \in 0..MaxListed
    BY <1>3
  <2> HIDE DEF q, hasMore, total
  <2>5. n \in DocumentPages /\ SameChunks(page, n) /\ n.mounting = page.mounting /\ n.stop = page.stop /\ n.polls = page.polls
    BY <2>3, <2>4 DEF DocumentPages, SameChunks
  <2>6. page' = Mounting(n, r.arg.then)
    BY <1>4, <1>8
  <2> HIDE DEF n
  <2> QED
    BY <1>6, <2>5, <2>6
<1>9. CASE ~(r.state = "failed" \/ page.disposed) /\ r.op = "documents"
  <2> DEFINE cache == [d \in DocumentNumbers |-> NoChunks]
             epoch == p.epoch + 1
  <2>1. cache \in [DocumentNumbers -> Chunks] /\ epoch \in Nat
    <3>1. <<>> \in Seq(Nat)
      OBVIOUS
    <3>2. NoChunks \in Chunks
      BY <3>1 DEF NoChunks, Chunks
    <3> QED
      BY <1>5, <3>2, DocumentFields
  <2>2. q = [p EXCEPT !.list = found, !.expanded = {}, !.cache = cache, !.epoch = epoch]
    BY <1>9 DEF Replaced, DocumentNumbers
  <2>f. found \in Seq(DocumentNumbers) /\ epoch = page.epoch + 1 /\ p.disposed = page.disposed
    BY <1>3, <1>5 DEF SameChunks
  <2> HIDE DEF cache, epoch, found
  <2>3. /\ q \in DocumentPages /\ q.cache = cache /\ q.epoch = epoch /\ q.disposed = page.disposed
        /\ q.mounting = page.mounting /\ q.stop = page.stop /\ q.polls = page.polls
    BY <1>5, <2>1, <2>2, <2>f DEF DocumentPages
  <2>4. hasMore \in BOOLEAN /\ total \in 0..MaxListed
    BY <1>3
  <2> HIDE DEF q, hasMore, total
  <2>5. /\ n \in DocumentPages /\ n.cache = cache /\ n.epoch = epoch /\ n.disposed = page.disposed
        /\ n.mounting = page.mounting /\ n.stop = page.stop /\ n.polls = page.polls
    BY <2>3, <2>4 DEF DocumentPages
  <2>6. page' = Mounting(n, r.arg.then)
    BY <1>4, <1>9
  <2> HIDE DEF n
  <2>7. n.cache = [d \in DocumentNumbers |-> NoChunks] /\ StopOK(n)
    BY <1>0, <2>5 DEF cache, StopOK
  <2> QED
    BY <1>0, <1>2, <1>4, <2>f, <2>5, <2>6, <2>7, ListIsReplaced
<1> QED
  BY <1>2, <1>7, <1>8, <1>9

(* The chunks of d are asked for, from an offset. *)
LEMMA ChunksAreAsked ==
    ASSUME DocumentsInv, NEW d, NEW offset \in Nat, NEW act, Click(act, <<ChunkWish(d, offset)>>),
           page' \in DocumentPages, page'.epoch = page.epoch, page'.disposed = page.disposed,
           page'.stop = page.stop, page'.polls = page.polls, page'.mounting = page.mounting, d \in DocumentNumbers,
           NEW c \in Chunks, page'.cache = [page.cache EXCEPT ![d] = c], ChunksOK(c),
           IF offset = 0 THEN /\ page.cache[d].status \in {"none", "error"} /\ c.status = "loading"
                         ELSE /\ page.cache[d].status = "ready" /\ ~page.cache[d].more
                              /\ c.status = "ready" /\ c.more /\ c.pages = page.cache[d].pages
                              /\ offset = Len(c.pages) /\ offset < ChunkPages,
           UNCHANGED <<indexed, run>>
    PROVE  DocumentsInv' /\ DocumentsStep
<1> DEFINE P == [Wish EXCEPT !.doc = d, !.offset = offset, !.epoch = page.epoch]
           asks == <<ChunkWish(d, offset)>>
           none == {}
<1>0. /\ UnderWay(DocumentNames, DocumentParams) /\ page \in DocumentPages /\ indexed \subseteq DocumentNumbers /\ run \in Runs
      /\ page.epoch \in Nat /\ page.cache \in [DocumentNumbers -> Chunks]
  BY DocumentFields DEF DocumentsInv
<1>1. P \in DocumentParams /\ P.doc = d /\ P.offset = offset /\ P.epoch = page.epoch /\ P.then = "nothing"
  <2>1. d \in Nat
    BY DocumentsAssumption DEF DocumentNumbers
  <2>2. Wish \in DocumentParams /\ Wish.then = "nothing"
    BY WishIsParam DEF Wish
  <2> QED
    BY <1>0, <2>1, <2>2 DEF DocumentParams
<1>2. asks = <<Ask("chunks", FALSE, P)>>
  BY DEF ChunkWish
<1>3. Click(act, asks) /\ \A r \in net : r \notin none
  OBVIOUS
<1>4. "chunks" \in DocumentNames
  BY DEF DocumentNames
<1> HIDE DEF P, asks, none
<1>5. asks \in Seq(AsksFor(DocumentNames, DocumentParams)) /\ Len(asks) = 1 /\ Single(asks, "chunks", P)
  BY <1>1, <1>2, <1>4, OneAsk
<1>6. Exchange({}, asks) /\ task' = task /\ clicks' \in 0..task.clicks /\ faults' = faults
  BY <1>0, <1>3, Clicked1
<1>7. /\ UnderWay(DocumentNames, DocumentParams)'
      /\ \A r \in net' : r \in net \/ (r \notin net /\ \E i \in DOMAIN asks : SentFor(r, asks[i]))
      /\ \A r \in net : r \in net'
      /\ \A i \in DOMAIN asks : \E r \in net' : SentFor(r, asks[i])
      /\ \A r, q \in net' \ net : r = q
  BY <1>0, <1>5, <1>6, Exchanged
<1>8. ASSUME NEW r \in net', r \notin net
      PROVE  r.op = "chunks" /\ r.arg = P
  BY <1>5, <1>7, <1>8 DEF Single, SentFor
<1>9. \E r \in net' : r.op = "chunks" /\ r.arg = P
  <2>1. 1 \in DOMAIN asks
    BY <1>5
  <2> QED
    BY <1>5, <1>7, <2>1 DEF Single, SentFor
\* No request of this list was under way for d.
<1>10. ASSUME NEW r \in net, r.op = "chunks", r.arg.epoch = page.epoch, ~page.disposed
       PROVE  r.arg.doc # d
  <2>1. ChunkFits(r, page)
    BY DEF DocumentsInv
  <2> QED
    BY <1>10, <2>1 DEF ChunkFits
<1>11. page'.cache[d] = c /\ \A e \in DocumentNumbers : e # d => page'.cache[e] = page.cache[e]
  BY <1>0
<1>12. \A r \in net' : ChunkFits(r, page')
  <2> SUFFICES ASSUME NEW r \in net', r.op = "chunks"
               PROVE  ChunkFits(r, page')
    BY DEF ChunkFits
  <2>1. CASE r \notin net
    BY <1>0, <1>1, <1>8, <1>11, <2>1 DEF ChunkFits
  <2>2. CASE r \in net
    <3>1. ChunkFits(r, page)
      BY <2>2 DEF DocumentsInv
    <3>2. r.arg.epoch = page.epoch /\ ~page.disposed => r.arg.doc # d
      BY <1>10, <2>2
    <3> QED
      BY <1>11, <3>1, <3>2 DEF ChunkFits
  <2> QED
    BY <2>1, <2>2
<1>13. ChunksOnce(net', page')
  <2> SUFFICES ASSUME NEW r \in net', NEW q \in net', ~page.disposed, r.op = "chunks", q.op = "chunks",
                      r.arg.epoch = page.epoch, q.arg.epoch = page.epoch, r.arg.doc = q.arg.doc
               PROVE  r.id = q.id
    BY DEF ChunksOnce
  <2>1. CASE r \in net /\ q \in net
    BY <2>1 DEF DocumentsInv, ChunksOnce
  <2>2. CASE r \notin net /\ q \notin net
    BY <1>7, <2>2
  <2>3. CASE r \in net /\ q \notin net
    BY <1>1, <1>8, <1>10, <2>3
  <2>4. CASE r \notin net /\ q \in net
    BY <1>1, <1>8, <1>10, <2>4
  <2> QED
    BY <2>1, <2>2, <2>3, <2>4
<1>14. ChunksCome(net', page')
  <2> SUFFICES ASSUME NEW e \in DocumentNumbers, page'.cache[e].status = "loading", ~page.disposed
               PROVE  \E r \in net' : r.op = "chunks" /\ r.arg.doc = e /\ r.arg.epoch = page.epoch
    BY DEF ChunksCome
  <2>1. CASE e = d
    BY <1>1, <1>9, <2>1
  <2>2. CASE e # d
    <3>1. \E r \in net : r.op = "chunks" /\ r.arg.doc = e /\ r.arg.epoch = page.epoch
      BY <1>11, <2>2 DEF DocumentsInv, ChunksCome
    <3> QED
      BY <1>7, <3>1
  <2> QED
    BY <2>1, <2>2
<1>15. MountOK(net', page')
  <2>1. \A r \in net' : r.arg.then = "mount" => r \in net
    BY <1>1, <1>8
  <2>2. MountOK(net, page)
    BY DEF DocumentsInv
  <2> QED
    BY <2>1, <2>2 DEF MountOK
<1>16. DocumentsStep
  <2>1. page.cache[d].status = "error" \/ page.cache[d].status = "none" => c.pages = <<>>
    BY DEF ChunksOK
  <2>2. ChunksGrow(page.cache[d], c)
    BY <2>1 DEF ChunksGrow
  <2> QED
    BY <1>11, <2>2 DEF DocumentsStep, ChunksGrow
<1>17. StopOK(page') /\ \A e \in DocumentNumbers : ChunksOK(page'.cache[e])
  BY <1>11 DEF DocumentsInv, StopOK
<1>18. indexed' \subseteq DocumentNumbers /\ run' \in Runs
  BY <1>0
<1> QED
  BY <1>7, <1>12, <1>13, <1>14, <1>15, <1>16, <1>17, <1>18 DEF DocumentsInv

LEMMA FreshChunks ==
    LET c == [NoChunks EXCEPT !.status = "loading"]
        e == [NoChunks EXCEPT !.status = "error"]
    IN  /\ c \in Chunks /\ c.status = "loading" /\ c.pages = <<>> /\ ChunksOK(c)
        /\ e \in Chunks /\ e.status = "error" /\ e.pages = <<>> /\ ChunksOK(e)
<1> DEFINE none == <<>>
           no == FALSE
           Of(status) == [status |-> status, pages |-> none, more |-> no]
<1>1. none \in Seq(Nat) /\ Len(none) = 0 /\ none = <<>> /\ no \in BOOLEAN
  OBVIOUS
<1>4. NoChunks = [status |-> "none", pages |-> none, more |-> no]
  BY DEF NoChunks
<1> HIDE DEF none, no
<1>2. [NoChunks EXCEPT !.status = "loading"] = Of("loading") /\ [NoChunks EXCEPT !.status = "error"] = Of("error")
  BY <1>4
<1>3. \A status \in {"loading", "error"} :
         Of(status) \in Chunks /\ Of(status).status = status /\ Of(status).pages = <<>> /\ ChunksOK(Of(status))
  BY <1>1, DocumentsAssumption DEF Chunks, ChunksOK
<1> HIDE DEF Of
<1> QED
  BY <1>2, <1>3

LEMMA DocumentIsToggled ==
    ASSUME DocumentsInv, ToggleDocument
    PROVE  DocumentsInv' /\ DocumentsStep
<1>0. page \in DocumentPages /\ page.cache \in [DocumentNumbers -> Chunks] /\ page.expanded \subseteq DocumentNumbers
      /\ page.list \in Seq(DocumentNumbers)
  BY DocumentFields DEF DocumentsInv
<1>1. PICK d \in ToSet(page.list) :
        LET opens == d \notin page.expanded
            loads == opens /\ page.cache[d].status \in {"none", "error"}
        IN  /\ page' = [page EXCEPT !.expanded = IF opens THEN @ \cup {d} ELSE @ \ {d},
                            !.cache[d] = IF loads THEN [NoChunks EXCEPT !.status = "loading"] ELSE @]
            /\ Click("open", IF loads THEN <<ChunkWish(d, 0)>> ELSE <<>>)
            /\ UNCHANGED <<indexed, run>>
  BY DEF ToggleDocument
<1>2. d \in DocumentNumbers
  BY <1>0 DEF ToSet
<1> DEFINE expanded == IF d \notin page.expanded THEN page.expanded \cup {d} ELSE page.expanded \ {d}
           c == [NoChunks EXCEPT !.status = "loading"]
           loaded == [page.cache EXCEPT ![d] = c]
           loads == d \notin page.expanded /\ page.cache[d].status \in {"none", "error"}
<1>3. expanded \subseteq DocumentNumbers
  BY <1>0, <1>2
<1>4. c \in Chunks /\ c.status = "loading" /\ c.pages = <<>> /\ ChunksOK(c)
  BY FreshChunks
<1>5. CASE loads
  <2>1. page' = [page EXCEPT !.expanded = expanded, !.cache = loaded]
    BY <1>0, <1>1, <1>5
  <2>2. loaded \in [DocumentNumbers -> Chunks]
    BY <1>0, <1>2, <1>4
  <2>3. Click("open", <<ChunkWish(d, 0)>>) /\ UNCHANGED <<indexed, run>>
    BY <1>1, <1>5
  <2>4. page.cache[d].status \in {"none", "error"}
    BY <1>5
  <2> HIDE DEF expanded, loaded, c
  <2>5. /\ page' \in DocumentPages /\ page'.epoch = page.epoch /\ page'.disposed = page.disposed
        /\ page'.stop = page.stop /\ page'.polls = page.polls /\ page'.mounting = page.mounting /\ page'.cache = loaded
    BY <1>0, <1>3, <2>1, <2>2 DEF DocumentPages
  <2>6. page'.cache = [page.cache EXCEPT ![d] = c]
    BY <2>5 DEF loaded
  <2> QED
    BY <1>2, <1>4, <2>3, <2>4, <2>5, <2>6, ChunksAreAsked
<1>6. CASE ~loads
  <2>1. page' = [page EXCEPT !.expanded = expanded]
    BY <1>0, <1>1, <1>6
  <2>2. Click("open", <<>>) /\ UNCHANGED <<indexed, run>>
    BY <1>1, <1>6
  <2> HIDE DEF expanded
  <2>3. page' \in DocumentPages /\ StopOK(page') /\ SameChunks(page, page') /\ page'.mounting = page.mounting
    BY <1>0, <1>3, <2>1 DEF DocumentsInv, StopOK, SameChunks, DocumentPages
  <2> QED
    BY <2>2, <2>3, NoAsks, DocumentsClicked
<1> QED
  BY <1>5, <1>6

LEMMA ChunksAreRetried ==
    ASSUME DocumentsInv, RetryChunks
    PROVE  DocumentsInv' /\ DocumentsStep
<1>0. page \in DocumentPages /\ page.cache \in [DocumentNumbers -> Chunks] /\ page.expanded \subseteq DocumentNumbers
  BY DocumentFields DEF DocumentsInv
<1>1. PICK d \in page.expanded :
        /\ page.cache[d].status = "error"
        /\ page' = [page EXCEPT !.cache[d] = [NoChunks EXCEPT !.status = "loading"]]
        /\ Click("retrychunks", <<ChunkWish(d, 0)>>)
        /\ UNCHANGED <<indexed, run>>
  BY DEF RetryChunks
<1>2. d \in DocumentNumbers
  BY <1>0
<1> DEFINE c == [NoChunks EXCEPT !.status = "loading"]
           loaded == [page.cache EXCEPT ![d] = c]
<1>3. c \in Chunks /\ c.status = "loading" /\ c.pages = <<>> /\ ChunksOK(c)
  BY FreshChunks
<1>4. page' = [page EXCEPT !.cache = loaded]
  BY <1>0, <1>1
<1>5. loaded \in [DocumentNumbers -> Chunks]
  BY <1>0, <1>2, <1>3
<1> HIDE DEF loaded, c
<1>6. /\ page' \in DocumentPages /\ page'.epoch = page.epoch /\ page'.disposed = page.disposed
      /\ page'.stop = page.stop /\ page'.polls = page.polls /\ page'.mounting = page.mounting /\ page'.cache = loaded
  BY <1>0, <1>4, <1>5 DEF DocumentPages
<1>7. page'.cache = [page.cache EXCEPT ![d] = c]
  BY <1>6 DEF loaded
<1> QED
  BY <1>1, <1>2, <1>3, <1>6, <1>7, ChunksAreAsked

LEMMA MoreChunksAreAsked ==
    ASSUME DocumentsInv, LoadMoreChunks
    PROVE  DocumentsInv' /\ DocumentsStep
<1>0. page \in DocumentPages /\ page.cache \in [DocumentNumbers -> Chunks] /\ page.expanded \subseteq DocumentNumbers
  BY DocumentFields DEF DocumentsInv
<1>1. PICK d \in page.expanded :
        /\ WantsMore(page.cache[d])
        /\ page' = [page EXCEPT !.cache[d].more = TRUE]
        /\ Click("morechunks", <<ChunkWish(d, Len(page.cache[d].pages))>>)
        /\ UNCHANGED <<indexed, run>>
  BY DEF LoadMoreChunks
<1>2. d \in DocumentNumbers /\ page.cache[d] \in Chunks /\ page.cache[d].pages \in Seq(Nat) /\ ChunksOK(page.cache[d])
  BY <1>0, ChunkFields DEF DocumentsInv
<1> DEFINE c == [page.cache[d] EXCEPT !.more = TRUE]
           loaded == [page.cache EXCEPT ![d] = c]
           offset == Len(page.cache[d].pages)
<1>3. c \in Chunks /\ c.status = page.cache[d].status /\ c.more /\ c.pages = page.cache[d].pages
  BY <1>2 DEF Chunks
<1>4. ChunksOK(c)
  BY <1>2, <1>3 DEF ChunksOK
<1>5. page' = [page EXCEPT !.cache = loaded]
  BY <1>0, <1>1
<1>6. loaded \in [DocumentNumbers -> Chunks]
  BY <1>0, <1>2, <1>3
<1>7. /\ page.cache[d].status = "ready" /\ ~page.cache[d].more /\ offset \in Nat /\ offset # 0 /\ offset < ChunkPages
      /\ offset = Len(c.pages)
  BY <1>1, <1>2, <1>3 DEF WantsMore, ChunksOK
<1>8. Click("morechunks", <<ChunkWish(d, offset)>>)
  BY <1>1
<1> HIDE DEF loaded, c, offset
<1>9. /\ page' \in DocumentPages /\ page'.epoch = page.epoch /\ page'.disposed = page.disposed
      /\ page'.stop = page.stop /\ page'.polls = page.polls /\ page'.mounting = page.mounting /\ page'.cache = loaded
  BY <1>0, <1>5, <1>6 DEF DocumentPages
<1>10. page'.cache = [page.cache EXCEPT ![d] = c]
  BY <1>9 DEF loaded
<1>11. UNCHANGED <<indexed, run>>
  BY <1>1
<1>12. IF offset = 0 THEN /\ page.cache[d].status \in {"none", "error"} /\ c.status = "loading"
                    ELSE /\ page.cache[d].status = "ready" /\ ~page.cache[d].more
                         /\ c.status = "ready" /\ c.more /\ c.pages = page.cache[d].pages
                         /\ offset = Len(c.pages) /\ offset < ChunkPages
  BY <1>3, <1>7
<1> QED
  BY <1>2, <1>3, <1>4, <1>7, <1>8, <1>9, <1>10, <1>11, <1>12, ChunksAreAsked

(* An answer goes to the document that waits for it, if the list is the same.*)
LEMMA ChunksCame ==
    ASSUME DocumentsInv, ChunksBack
    PROVE  DocumentsInv' /\ DocumentsStep
<1> DEFINE none == <<>>
<1>0. /\ UnderWay(DocumentNames, DocumentParams) /\ page \in DocumentPages /\ indexed \subseteq DocumentNumbers /\ run \in Runs
      /\ page.epoch \in Nat /\ page.cache \in [DocumentNumbers -> Chunks] /\ UNCHANGED <<indexed, run>>
  BY DocumentFields DEF DocumentsInv, ChunksBack
<1>1. PICK r \in Back("chunks") :
        LET d == r.arg.doc
            old == page.cache[d]
            new == IF r.state = "answered"
                   THEN [status |-> "ready", pages |-> IF r.arg.offset = 0 THEN <<0>> ELSE Append(old.pages, r.arg.offset),
                         more |-> FALSE]
                   ELSE IF r.arg.offset = 0 THEN [NoChunks EXCEPT !.status = "error"]
                   ELSE [old EXCEPT !.more = FALSE]
        IN  /\ page' = IF page.disposed \/ r.arg.epoch # page.epoch THEN page ELSE [page EXCEPT !.cache[d] = new]
            /\ React({r}, none)
  BY DEF ChunksBack
<1> DEFINE done == {r}
           d == r.arg.doc
           old == page.cache[d]
           new == IF r.state = "answered"
                  THEN [status |-> "ready", pages |-> IF r.arg.offset = 0 THEN <<0>> ELSE Append(old.pages, r.arg.offset),
                        more |-> FALSE]
                  ELSE IF r.arg.offset = 0 THEN [NoChunks EXCEPT !.status = "error"]
                  ELSE [old EXCEPT !.more = FALSE]
<1>2. r \in net /\ r.op = "chunks" /\ r.arg.offset \in Nat /\ ChunkFits(r, page)
  BY <1>1, DocumentsNow DEF Back, Open, DocumentsInv
<1>3. none \in Seq(AsksFor(DocumentNames, DocumentParams)) /\ DOMAIN none = {}
  OBVIOUS
<1>4. React(done, none) /\ \A s \in net : s \in done <=> s = r
  BY <1>1
<1> HIDE DEF none, done
<1>5. Exchange(done, none) /\ task' = task /\ clicks' \in 0..task.clicks /\ faults' = faults
  BY <1>0, <1>4, Reacted
<1>6. /\ UnderWay(DocumentNames, DocumentParams)'
      /\ \A s \in net' : s \in net /\ s # r /\ s.id # r.id
      /\ \A s \in net : s # r => s \in net'
  <2>1. /\ UnderWay(DocumentNames, DocumentParams)'
        /\ \A s \in net' : s \in net /\ s # r
        /\ \A s \in net : s # r => s \in net'
    BY <1>0, <1>3, <1>4, <1>5, Exchanged
  <2> QED
    BY <1>0, <1>2, <2>1 DEF UnderWay
<1>7. page' = IF page.disposed \/ r.arg.epoch # page.epoch THEN page ELSE [page EXCEPT !.cache[d] = new]
  BY <1>1
<1>8. CASE page.disposed \/ r.arg.epoch # page.epoch
  <2>1. page' = page
    BY <1>7, <1>8
  <2>2. (\A s \in net' : ChunkFits(s, page')) /\ ChunksOnce(net', page') /\ MountOK(net', page')
    BY <1>6, <2>1 DEF DocumentsInv, ChunksOnce, MountOK
  <2>3. ChunksCome(net', page')
    BY <1>6, <1>8, <2>1 DEF DocumentsInv, ChunksCome
  <2>4. DocumentsStep
    BY <2>1 DEF DocumentsStep, ChunksGrow
  <2> QED
    BY <1>0, <1>6, <2>1, <2>2, <2>3, <2>4 DEF DocumentsInv
<1>9. CASE ~page.disposed /\ r.arg.epoch = page.epoch
  <2>1. d \in DocumentNumbers /\ old \in Chunks /\ old.pages \in Seq(Nat) /\ ChunksOK(old)
    BY <1>0, <1>2, ChunkFields DEF ChunkFits, DocumentsInv
  <2>2. new \in Chunks /\ ChunksOK(new) /\ new.status # "loading" /\ ChunksGrow(old, new)
    <3>1. CASE r.arg.offset = 0
      <4>1. old.status = "loading" /\ old.pages = <<>>
        BY <1>2, <1>9, <2>1, <3>1 DEF ChunkFits, ChunksOK
      <4>2. CASE r.state = "answered"
        <5> DEFINE first == <<0>>
        <5>1. first \in Seq(Nat) /\ Len(first) = 1 /\ first # <<>> /\ first = Append(<<>>, 0) /\ Len(<<>>) = 0
          OBVIOUS
        <5>2. new = [status |-> "ready", pages |-> first, more |-> FALSE]
          BY <3>1, <4>2
        <5> HIDE DEF first, new
        <5> QED
          BY <4>1, <5>1, <5>2, DocumentsAssumption DEF Chunks, ChunksOK, ChunksGrow
      <4>3. CASE r.state # "answered"
        <5>1. new = [NoChunks EXCEPT !.status = "error"]
          BY <3>1, <4>3
        <5> HIDE DEF new
        <5> QED
          BY <4>1, <5>1, FreshChunks DEF ChunksGrow
      <4> QED
        BY <4>2, <4>3
    <3>2. CASE r.arg.offset # 0
      <4>1. /\ old.status = "ready" /\ old.pages # <<>> /\ r.arg.offset = Len(old.pages) /\ r.arg.offset < ChunkPages
        BY <1>2, <1>9, <2>1, <3>2 DEF ChunkFits, ChunksOK
      <4>2. CASE r.state = "answered"
        <5> DEFINE pages == Append(old.pages, r.arg.offset)
        <5>1. /\ pages \in Seq(Nat) /\ Len(pages) = Len(old.pages) + 1 /\ pages # <<>>
              /\ pages = Append(old.pages, Len(old.pages)) /\ Len(old.pages) \in Nat
          BY <1>2, <2>1, <4>1
        <5>2. new = [status |-> "ready", pages |-> pages, more |-> FALSE]
          BY <3>2, <4>2
        <5> HIDE DEF pages, new, old
        <5> QED
          BY <4>1, <5>1, <5>2, DocumentsAssumption DEF Chunks, ChunksOK, ChunksGrow
      <4>3. CASE r.state # "answered"
        <5>1. new = [old EXCEPT !.more = FALSE]
          BY <3>2, <4>3
        <5> HIDE DEF new, old
        <5>2. new \in Chunks /\ new.status = old.status /\ new.pages = old.pages
          BY <2>1, <5>1 DEF Chunks
        <5> QED
          BY <2>1, <4>1, <5>2 DEF ChunksOK, ChunksGrow
      <4> QED
        BY <4>2, <4>3
    <3> QED
      BY <3>1, <3>2
  <2> DEFINE loaded == [page.cache EXCEPT ![d] = new]
  <2>3. page' = [page EXCEPT !.cache = loaded]
    BY <1>0, <1>7, <1>9
  <2> HIDE DEF new
  <2>4. loaded \in [DocumentNumbers -> Chunks] /\ loaded[d] = new /\ \A e \in DocumentNumbers : e # d => loaded[e] = page.cache[e]
    BY <1>0, <2>1, <2>2
  <2> HIDE DEF loaded
  <2>5. /\ page' \in DocumentPages /\ page'.epoch = page.epoch /\ page'.disposed = page.disposed
        /\ page'.stop = page.stop /\ page'.polls = page.polls /\ page'.mounting = page.mounting /\ page'.cache = loaded
    BY <1>0, <2>3, <2>4 DEF DocumentPages
  <2>6. ASSUME NEW s \in net', s.op = "chunks", s.arg.epoch = page.epoch
        PROVE  s.arg.doc # d
    BY <1>2, <1>6, <1>9, <2>6 DEF DocumentsInv, ChunksOnce
  <2>7. \A s \in net' : ChunkFits(s, page')
    BY <1>6, <2>4, <2>5, <2>6 DEF DocumentsInv, ChunkFits
  <2>8. ChunksOnce(net', page') /\ MountOK(net', page')
    BY <1>6, <2>5 DEF DocumentsInv, ChunksOnce, MountOK
  <2>9. ChunksCome(net', page')
    BY <1>6, <2>2, <2>4, <2>5 DEF DocumentsInv, ChunksCome
  <2>10. DocumentsStep
    BY <2>2, <2>4, <2>5 DEF DocumentsStep, ChunksGrow
  <2>11. StopOK(page') /\ \A e \in DocumentNumbers : ChunksOK(page'.cache[e])
    BY <2>2, <2>4, <2>5 DEF DocumentsInv, StopOK
  <2> QED
    BY <1>0, <1>6, <2>5, <2>7, <2>8, <2>9, <2>10, <2>11 DEF DocumentsInv
<1> QED
  BY <1>8, <1>9

(* The indexing. *)
LEMMA IndexingSteps ==
    ASSUME DocumentsInv, StartIndexing \/ StopIndexing \/ StatusTick
    PROVE  DocumentsInv' /\ DocumentsStep
<1>0. page \in DocumentPages /\ StopOK(page)
  BY DEF DocumentsInv
<1>1. CASE StartIndexing
  <2>1. PICK kind \in {"files", "mail"} :
          /\ Click("start", <<Ask("start", FALSE, [Wish EXCEPT !.then = kind])>>)
          /\ page' = [page EXCEPT !.indexing = TRUE]
          /\ UNCHANGED <<indexed, run>>
    BY <1>1 DEF StartIndexing
  <2> DEFINE P == [Wish EXCEPT !.then = kind]
             asks == <<Ask("start", FALSE, P)>>
  <2>2. P \in DocumentParams /\ P.then = kind /\ "start" \in DocumentNames \ {"chunks"}
    BY WishIsParam DEF DocumentParams, DocumentThens, DocumentNames
  <2>3. asks = <<Ask("start", FALSE, P)>> /\ Click("start", asks)
    BY <2>1
  <2> HIDE DEF asks, P
  <2>4. asks \in Seq(AsksFor(DocumentNames, DocumentParams)) /\ OtherAsks(asks)
    BY <2>2, <2>3, OtherAsk
  <2>5. page' \in DocumentPages /\ StopOK(page') /\ SameChunks(page, page') /\ page'.mounting = page.mounting
    BY <1>0, <2>1 DEF StopOK, SameChunks, DocumentPages
  <2> QED
    BY <2>1, <2>3, <2>4, <2>5, DocumentsClicked
<1>2. CASE StopIndexing
  <2> DEFINE asks == <<Ask("stop", FALSE, Wish)>>
  <2>1. Click("stop", asks) /\ page' = [page EXCEPT !.stop = "asked", !.polls = 0] /\ UNCHANGED <<indexed, run>>
    BY <1>2 DEF StopIndexing
  <2>2. "stop" \in DocumentNames \ {"chunks"} /\ Wish.then # "mount" /\ asks = <<Ask("stop", FALSE, Wish)>>
    BY DEF DocumentNames, Wish
  <2> HIDE DEF asks
  <2>3. asks \in Seq(AsksFor(DocumentNames, DocumentParams)) /\ OtherAsks(asks)
    BY <2>2, WishIsParam, OtherAsk
  <2>5. 0 \in 0..StopPolls /\ page \in DocumentPages
    BY <1>0, DocumentsAssumption
  <2>6. page' \in DocumentPages
    BY <2>1, <2>5 DEF DocumentPages
  <2>7. /\ page'.stop = "asked" /\ page'.cache = page.cache /\ page'.epoch = page.epoch
        /\ page'.disposed = page.disposed /\ page'.mounting = page.mounting
    BY <2>1, <2>5 DEF DocumentPages
  <2>4. page' \in DocumentPages /\ StopOK(page') /\ SameChunks(page, page') /\ page'.mounting = page.mounting
    BY <2>6, <2>7 DEF StopOK, SameChunks
  <2> QED
    BY <2>1, <2>3, <2>4, DocumentsClicked
<1>3. CASE StatusTick
  <2> DEFINE asks == StatusAsks(page, "poll")
             done == {}
  <2>1. page' = [page EXCEPT !.timer = page.asking, !.asking = TRUE] /\ React(done, asks) /\ UNCHANGED <<indexed, run>>
    BY <1>3 DEF StatusTick
  <2>2. asks \in Seq(AsksFor(DocumentNames, DocumentParams)) /\ OtherAsks(asks)
    BY NoAsks, StatusIsAsked DEF StatusAsks, DocumentThens
  <2>3. page' \in DocumentPages /\ StopOK(page') /\ SameChunks(page, page') /\ page'.mounting = page.mounting
    BY <1>0, <2>1, DocumentFields DEF StopOK, SameChunks, DocumentPages
  <2>4. \A r \in net : r \in done => r.op # "chunks"
    OBVIOUS
  <2> HIDE DEF asks, done
  <2> QED
    BY <2>1, <2>2, <2>3, <2>4, DocumentsReacted
<1> QED
  BY <1>1, <1>2, <1>3

LEMMA IndexingAnswers ==
    ASSUME DocumentsInv, StartBack \/ StopBack \/ StopTick
    PROVE  DocumentsInv' /\ DocumentsStep
<1>0. page \in DocumentPages /\ StopOK(page)
  BY DEF DocumentsInv
<1>1. CASE StartBack
  <2>1. PICK r \in Back("start") :
        LET p == [page EXCEPT !.indexing = FALSE, !.status = IF r.state = "answered" THEN r.got.run ELSE @]
        IN  /\ page' = IF r.arg.then = "files" THEN StartsLoad(p) ELSE p
            /\ React({r}, IF r.arg.then = "files" THEN LoadAsks(p) ELSE <<>>)
            /\ UNCHANGED <<indexed, run>>
    BY <1>1 DEF StartBack
  <2> DEFINE status == IF r.state = "answered" THEN r.got.run ELSE page.status
             p == [page EXCEPT !.indexing = FALSE, !.status = status]
             done == {r}
             asks == IF r.arg.then = "files" THEN LoadAsks(p) ELSE <<>>
  <2>2. r \in net /\ r.op = "start" /\ r.got \in DocumentParams
    BY <2>1, DocumentsNow DEF Back, Open
  <2>3. status \in Runs \cup {"unknown"}
    BY <1>0, <2>2, DocumentFields, DocumentParamFields
  <2>4. page' = (IF r.arg.then = "files" THEN StartsLoad(p) ELSE p) /\ React(done, asks) /\ UNCHANGED <<indexed, run>>
    BY <2>1
  <2> HIDE DEF status
  <2>5. p \in DocumentPages /\ SameChunks(page, p) /\ p.mounting = page.mounting /\ p.stop = page.stop /\ p.polls = page.polls
    BY <1>0, <2>3 DEF DocumentPages, SameChunks
  <2> HIDE DEF p
  <2>6. page' \in DocumentPages /\ StopOK(page') /\ SameChunks(page, page') /\ page'.mounting = page.mounting
    BY <1>0, <2>4, <2>5, ListIsAsked DEF StopOK, SameChunks
  <2>7. asks \in Seq(AsksFor(DocumentNames, DocumentParams)) /\ OtherAsks(asks)
    BY <2>5, NoAsks, ListIsAsked
  <2>8. \A s \in net : s \in done => s.op # "chunks"
    BY <2>2
  <2> HIDE DEF asks, done
  <2> QED
    BY <2>4, <2>6, <2>7, <2>8, DocumentsReacted
<1>2. CASE StopBack
  <2>1. PICK r \in Back("stop") : GoesOn([page EXCEPT !.status = IF r.state = "answered" THEN r.got.run ELSE @], {r})
    BY <1>2 DEF StopBack
  <2> DEFINE status == IF r.state = "answered" THEN r.got.run ELSE page.status
             p == [page EXCEPT !.status = status]
             done == {r}
  <2>2. r \in net /\ r.op = "stop" /\ r.got \in DocumentParams
    BY <2>1, DocumentsNow DEF Back, Open
  <2>3. status \in Runs \cup {"unknown"}
    BY <1>0, <2>2, DocumentFields, DocumentParamFields
  <2>4. GoesOn(p, done) /\ UNCHANGED <<indexed, run>>
    BY <1>2, <2>1 DEF StopBack
  <2>5. \A s \in net : s \in done => s.op # "chunks"
    BY <2>2
  <2> HIDE DEF status, done
  <2>6. p \in DocumentPages /\ SameChunks(page, p) /\ p.mounting = page.mounting
    BY <1>0, <2>3 DEF DocumentPages, SameChunks
  <2> HIDE DEF p
  <2> QED
    BY <2>4, <2>5, <2>6, StopGoesOn
<1>3. CASE StopTick
  <2> DEFINE polls == page.polls + 1
             p == [page EXCEPT !.polls = polls]
             none == {}
  <2>1. polls \in 0..StopPolls
    BY <1>0, <1>3, DocumentFields, DocumentsAssumption DEF StopTick, StopOK
  <2>2. /\ IF p.asking THEN GoesOn(p, none)
           ELSE page' = [p EXCEPT !.stop = "polling", !.asking = TRUE] /\ React(none, <<StatusWish("stop")>>)
        /\ UNCHANGED <<indexed, run>>
    BY <1>3 DEF StopTick
  <2>3. \A s \in net : s \in none => s.op # "chunks"
    OBVIOUS
  <2> HIDE DEF polls, none
  <2>4. p \in DocumentPages /\ SameChunks(page, p) /\ p.mounting = page.mounting
    BY <1>0, <2>1 DEF DocumentPages, SameChunks
  <2> HIDE DEF p
  <2>5. CASE p.asking
    BY <2>2, <2>3, <2>4, <2>5, StopGoesOn
  <2>6. CASE ~p.asking
    <3>1. page' = [p EXCEPT !.stop = "polling", !.asking = TRUE] /\ React(none, <<StatusWish("stop")>>)
      BY <2>2, <2>6
    <3>2. page' \in DocumentPages /\ StopOK(page') /\ SameChunks(page, page') /\ page'.mounting = page.mounting
      BY <2>4, <3>1 DEF StopOK, SameChunks, DocumentPages
    <3>3. "stop" \in DocumentThens \ {"mount"}
      BY DEF DocumentThens
    <3> QED
      BY <2>2, <2>3, <3>1, <3>2, <3>3, StatusIsAsked, DocumentsReacted
  <2> QED
    BY <2>5, <2>6
<1> QED
  BY <1>1, <1>2, <1>3

LEMMA StatusCame ==
    ASSUME DocumentsInv, StatusBack
    PROVE  DocumentsInv' /\ DocumentsStep
<1>0. page \in DocumentPages /\ StopOK(page) /\ UNCHANGED <<indexed, run>>
  BY DEF DocumentsInv, StatusBack
<1>1. PICK r \in Back("status") :
        LET p == [page EXCEPT !.asking = FALSE, !.statusError = r.state = "failed",
                     !.status = IF r.state = "answered" THEN r.got.run ELSE @]
        IN  CASE r.arg.then = "stop" -> GoesOn(p, {r})
              [] r.arg.then = "load" -> page' = StartsLoad(p) /\ React({r}, LoadAsks(p))
              [] r.arg.then = "poll" -> page' = [p EXCEPT !.timer = ~p.disposed] /\ React({r}, <<>>)
              [] OTHER -> page' = Mounting(p, r.arg.then) /\ React({r}, <<>>)
  BY DEF StatusBack
<1> DEFINE status == IF r.state = "answered" THEN r.got.run ELSE page.status
           failed == r.state = "failed"
           p == [page EXCEPT !.asking = FALSE, !.statusError = failed, !.status = status]
           done == {r}
<1>2. r \in net /\ r.op = "status" /\ r.got \in DocumentParams
  BY <1>1, DocumentsNow DEF Back, Open
<1>3. status \in Runs \cup {"unknown"} /\ failed \in BOOLEAN
  BY <1>0, <1>2, DocumentFields, DocumentParamFields
<1>4. (CASE r.arg.then = "stop" -> GoesOn(p, done)
         [] r.arg.then = "load" -> page' = StartsLoad(p) /\ React(done, LoadAsks(p))
         [] r.arg.then = "poll" -> page' = [p EXCEPT !.timer = ~p.disposed] /\ React(done, <<>>)
         [] OTHER -> page' = Mounting(p, r.arg.then) /\ React(done, <<>>))
  BY <1>1
<1>5. (\A s \in net : s \in done => s.op # "chunks") /\ done = {r}
  BY <1>2
<1> HIDE DEF status, failed, done
<1>6. p \in DocumentPages /\ SameChunks(page, p) /\ p.mounting = page.mounting /\ p.stop = page.stop /\ p.polls = page.polls
  BY <1>0, <1>3 DEF DocumentPages, SameChunks
<1> HIDE DEF p
<1>7. CASE r.arg.then = "stop"
  BY <1>0, <1>4, <1>5, <1>6, <1>7, StopGoesOn
<1>8. CASE r.arg.then = "load"
  <2>1. page' = StartsLoad(p) /\ React(done, LoadAsks(p))
    BY <1>4, <1>8
  <2>2. page' \in DocumentPages /\ StopOK(page') /\ SameChunks(page, page') /\ page'.mounting = page.mounting
    BY <1>0, <1>6, <2>1, ListIsAsked DEF StopOK, SameChunks
  <2> QED
    BY <1>0, <1>5, <1>6, <2>1, <2>2, ListIsAsked, DocumentsReacted
<1>9. CASE r.arg.then = "poll"
  <2> DEFINE timer == ~p.disposed
  <2>1. page' = [p EXCEPT !.timer = timer] /\ React(done, <<>>) /\ timer \in BOOLEAN
    BY <1>4, <1>9
  <2> HIDE DEF timer
  <2>2. page' \in DocumentPages /\ StopOK(page') /\ SameChunks(page, page') /\ page'.mounting = page.mounting
    BY <1>0, <1>6, <2>1 DEF StopOK, SameChunks, DocumentPages
  <2> QED
    BY <1>0, <1>5, <2>1, <2>2, NoAsks, DocumentsReacted
<1>10. CASE r.arg.then \notin {"stop", "load", "poll"}
  <2>1. page' = Mounting(p, r.arg.then) /\ React(done, <<>>)
    BY <1>4, <1>10
  <2>2. r.arg.then = "mount" => p.mounting \in 1..2
    BY <1>2, <1>6 DEF DocumentsInv, MountOK
  <2>3. /\ page' \in DocumentPages /\ SameChunks(p, page') /\ page'.stop = p.stop /\ page'.polls = p.polls
        /\ page'.mounting = IF r.arg.then = "mount" THEN p.mounting - 1 ELSE p.mounting
    BY <1>6, <2>1, <2>2, MountingGoesOn
  <2>4. SameChunks(page, page') /\ StopOK(page')
    BY <1>0, <1>6, <2>3 DEF SameChunks, StopOK
  <2>5. \/ page'.mounting = page.mounting
        \/ \E s \in net : done = {s} /\ s.arg.then = "mount" /\ page'.mounting = page.mounting - 1
    BY <1>2, <1>5, <1>6, <2>3
  <2> QED
    BY <1>0, <1>5, <2>1, <2>3, <2>4, <2>5, NoAsks, DocumentsReacted
<1> QED
  BY <1>7, <1>8, <1>9, <1>10

LEMMA DocumentsAreClosed ==
    ASSUME DocumentsInv, CloseDocuments
    PROVE  DocumentsInv' /\ DocumentsStep
<1> DEFINE none == <<>>
           done == {}
<1>0. /\ UnderWay(DocumentNames, DocumentParams) /\ page \in DocumentPages /\ indexed \subseteq DocumentNumbers /\ run \in Runs
      /\ page.epoch \in Nat
  BY DocumentFields DEF DocumentsInv
<1>1. Click("close", none) /\ page' = [page EXCEPT !.disposed = TRUE, !.epoch = @ + 1, !.timer = FALSE]
      /\ UNCHANGED <<indexed, run>>
  BY DEF CloseDocuments
<1>2. none \in Seq(AsksFor(DocumentNames, DocumentParams)) /\ DOMAIN none = {}
  OBVIOUS
<1> HIDE DEF none
<1>3. Exchange({}, none) /\ task' = task /\ clicks' \in 0..task.clicks /\ faults' = faults
  BY <1>0, <1>1, Clicked1
<1>4. UnderWay(DocumentNames, DocumentParams)' /\ \A r \in net' : r \in net
  BY <1>0, <1>2, <1>3, Exchanged
<1> DEFINE later == page.epoch + 1
<1>a. later \in Nat /\ later = page.epoch + 1
  BY <1>0
<1>b. page' = [page EXCEPT !.disposed = TRUE, !.epoch = later, !.timer = FALSE]
  BY <1>1
<1> HIDE DEF later
<1>c. page' \in DocumentPages
  BY <1>0, <1>a, <1>b DEF DocumentPages
<1>d. /\ page'.cache = page.cache /\ page'.disposed /\ page'.epoch = later
      /\ page'.stop = page.stop /\ page'.polls = page.polls /\ page'.mounting = page.mounting
  BY <1>0, <1>b DEF DocumentPages
<1>5. /\ page' \in DocumentPages /\ page'.cache = page.cache /\ page'.disposed /\ page'.epoch = page.epoch + 1
      /\ page'.stop = page.stop /\ page'.polls = page.polls /\ page'.mounting = page.mounting
  BY <1>a, <1>c, <1>d
<1>6. \A r \in net' : ChunkFits(r, page')
  BY <1>0, <1>4, <1>5, DocumentsNow DEF DocumentsInv, ChunkFits
<1>7. ChunksOnce(net', page') /\ ChunksCome(net', page') /\ DocumentsStep
  BY <1>5 DEF ChunksOnce, ChunksCome, DocumentsStep, ChunksGrow
<1>8. MountOK(net', page') /\ StopOK(page') /\ \A d \in DocumentNumbers : ChunksOK(page'.cache[d])
  BY <1>4, <1>5 DEF DocumentsInv, MountOK, StopOK
<1>9. indexed' \subseteq DocumentNumbers /\ run' \in Runs
  BY <1>0, <1>1
<1> QED
  BY <1>4, <1>5, <1>6, <1>7, <1>8, <1>9 DEF DocumentsInv

LEMMA DocumentsSteps ==
    ASSUME DocumentsInv, NextDocuments
    PROVE  DocumentsInv' /\ DocumentsStep
BY DocumentsAreServed, IndexingComesToAnEnd, DocumentListSteps, DocumentsCame, DocumentIsToggled, ChunksAreRetried,
   MoreChunksAreAsked, ChunksCame, IndexingSteps, IndexingAnswers, StatusCame, DocumentsAreClosed DEF NextDocuments

LEMMA DocumentsAttemptFails ==
    ASSUME DocumentsInv, FailAttempt, UNCHANGED documentVars
    PROVE  DocumentsInv' /\ DocumentsStep
<1>0. UnderWay(DocumentNames, DocumentParams) /\ indexed \subseteq DocumentNumbers /\ run \in Runs
  BY DEF DocumentsInv
<1>1. UNCHANGED <<page, indexed, run>>
  BY DEF documentVars
<1>2. /\ UnderWay(DocumentNames, DocumentParams)'
      /\ \A s \in net' : s \in net \/ \E r \in net : SameRequest(s, r)
      /\ \A s \in net : s \in net' \/ \E q \in net' : SameRequest(q, s)
  BY <1>0, AttemptFailed DEF SameRequest
<1>3. /\ \A s \in net' : \E q \in net : SameRequest(s, q)
      /\ \A s \in net : \E q \in net' : SameRequest(q, s)
  BY <1>2 DEF SameRequest
<1> QED
  BY <1>0, <1>1, <1>2, <1>3, DocumentsCarried

LEMMA OpenedPageIsPage ==
    /\ OpenedPage \in DocumentPages /\ StopOK(OpenedPage) /\ OpenedPage.mounting = 2 /\ OpenedPage.filter = "all"
    /\ \A d \in DocumentNumbers : ChunksOK(OpenedPage.cache[d]) /\ OpenedPage.cache[d].status = "none"
<1> DEFINE none == <<>>
           cache == [d \in DocumentNumbers |-> NoChunks]
<1>1. none \in Seq(DocumentNumbers) /\ none \in Seq(Nat) /\ Len(none) = 0
  OBVIOUS
<1>2. NoChunks = [status |-> "none", pages |-> none, more |-> FALSE]
  BY DEF NoChunks
<1>3. OpenedPage =
        [list |-> none, total |-> 0, filter |-> "all", loading |-> TRUE, more |-> FALSE, hasMore |-> TRUE,
         status |-> "unknown", statusError |-> FALSE, asking |-> TRUE, indexing |-> FALSE,
         stop |-> "no", polls |-> 0, timer |-> FALSE, mounting |-> 2,
         expanded |-> {}, cache |-> cache, epoch |-> 0, disposed |-> FALSE]
  BY DEF OpenedPage, DocumentNumbers
<1>4. NoChunks \in Chunks /\ ChunksOK(NoChunks) /\ NoChunks.status = "none"
  <2>1. none = <<>>
    OBVIOUS
  <2> HIDE DEF none
  <2> QED
    BY <1>1, <1>2, <2>1, DocumentsAssumption DEF Chunks, ChunksOK
<1>5. cache \in [DocumentNumbers -> Chunks] /\ \A d \in DocumentNumbers : cache[d] = NoChunks
  BY <1>4
<1> HIDE DEF none, cache
<1>6. OpenedPage \in DocumentPages /\ OpenedPage.cache = cache /\ OpenedPage.stop = "no" /\ OpenedPage.mounting = 2
      /\ OpenedPage.filter = "all"
  BY <1>1, <1>3, <1>5, DocumentsAssumption DEF DocumentPages, Filters
<1> QED
  BY <1>4, <1>5, <1>6 DEF StopOK

LEMMA DocumentsStart ==
    ASSUME InitRequests("documents"), InitDocuments
    PROVE  DocumentsInv
<1> DEFINE P == [Wish EXCEPT !.filter = "all", !.offset = 0, !.then = "mount"]
           Q == [Wish EXCEPT !.then = "mount"]
           asks == <<Ask("documents", TRUE, P), Ask("status", TRUE, Q)>>
           ids == <<1, 2>>
<1>1. page = OpenedPage /\ run \in Runs /\ net = Sent(<<ListWish(OpenedPage, FALSE, "mount"), StatusWish("mount")>>, ids)
  BY DEF InitDocuments
<1>2. indexed \subseteq DocumentNumbers
  <2>1. PICK n \in 0..MaxListed : indexed = 1..n
    BY DEF InitDocuments
  <2> QED
    BY <2>1, DocumentsAssumption DEF DocumentNumbers
<1>3. ListWish(OpenedPage, FALSE, "mount") = Ask("documents", TRUE, P) /\ StatusWish("mount") = Ask("status", TRUE, Q)
  BY OpenedPageIsPage DEF ListWish, StatusWish
<1>4. net = Sent(asks, ids)
  BY <1>1, <1>3
<1>5. P \in DocumentParams /\ P.then = "mount" /\ Q \in DocumentParams /\ Q.then = "mount"
  BY WishIsParam DEF DocumentParams, DocumentThens, Filters
<1> HIDE DEF P, Q
<1>6. /\ Ask("documents", TRUE, P) \in AsksFor(DocumentNames, DocumentParams)
      /\ Ask("status", TRUE, Q) \in AsksFor(DocumentNames, DocumentParams)
      /\ Ask("documents", TRUE, P).op = "documents" /\ Ask("status", TRUE, Q).op = "status"
  BY <1>5 DEF Ask, AsksFor, DocumentNames
<1>7. /\ asks \in Seq(AsksFor(DocumentNames, DocumentParams)) /\ Len(asks) = 2 /\ DOMAIN asks = {1, 2}
      /\ asks[1].op = "documents" /\ asks[2].op = "status"
  <2>1. PICK a1 \in AsksFor(DocumentNames, DocumentParams), a2 \in AsksFor(DocumentNames, DocumentParams) :
            asks = <<a1, a2>> /\ a1.op = "documents" /\ a2.op = "status"
    BY <1>6
  <2> HIDE DEF asks
  <2>2. /\ asks \in Seq(AsksFor(DocumentNames, DocumentParams)) /\ Len(asks) = 2 /\ DOMAIN asks = {1, 2}
        /\ asks[1] = a1 /\ asks[2] = a2
    BY <2>1
  <2> QED
    BY <2>1, <2>2
<1>8. ids \in Seq(Nat \ {0}) /\ Len(ids) = Len(asks) /\ \A i, j \in DOMAIN ids : ids[i] = ids[j] => i = j
  BY <1>7
<1> HIDE DEF asks, ids
<1>9. /\ UnderWay(DocumentNames, DocumentParams)
      /\ \A r \in net : \E i \in DOMAIN asks : SentFor(r, asks[i]) /\ r.id = ids[i]
  <2>1. task \in Tasks /\ clicks = 0 /\ faults = 0
    BY DEF InitRequests
  <2> QED
    BY <1>4, <1>7, <1>8, <2>1, FirstRequests
<1>10. \A r \in net : (r.op = "documents" /\ r.id = ids[1]) \/ (r.op = "status" /\ r.id = ids[2])
  BY <1>7, <1>9 DEF SentFor
<1>11. \A r \in net : r.op \in {"documents", "status"}
  BY <1>10
<1>12. MountOK(net, page)
  <2>1. page.mounting = 2
    BY <1>1, OpenedPageIsPage
  <2>2. \A r, q \in net : r.op = q.op => r.id = q.id
    BY <1>10
  <2> QED
    BY <1>11, <2>1, <2>2 DEF MountOK
<1>13. (\A r \in net : ChunkFits(r, page)) /\ ChunksOnce(net, page)
  BY <1>11 DEF ChunkFits, ChunksOnce
<1>14. ChunksCome(net, page)
  BY <1>1, OpenedPageIsPage DEF ChunksCome
<1> QED
  BY <1>1, <1>2, <1>9, <1>12, <1>13, <1>14, OpenedPageIsPage DEF DocumentsInv

(* What the properties say of the page. *)
LEMMA DocumentsPromise ==
    ASSUME DocumentsInv
    PROVE  /\ TypeOKRequests /\ TypeOKDocuments
           /\ \A d \in 1..MaxListed : page.cache[d].status = "loading" =>
                 page.disposed \/ \E r \in net : r.op = "chunks" /\ r.arg.doc = d /\ r.arg.epoch = page.epoch
<1>1. TypeOKRequests
  BY FieldsOfRequests DEF DocumentsInv, UnderWay, TypeOKRequests
<1>2. \A d \in DocumentNumbers : page.cache[d] \in Chunks
  BY DocumentFields DEF DocumentsInv
<1>3. \A d \in DocumentNumbers :
         page.cache[d].status \in {"none", "loading", "ready", "error"} /\ Len(page.cache[d].pages) <= ChunkPages
  BY <1>2, ChunkFields DEF DocumentsInv, ChunksOK
<1>4. page \in DocumentPages /\ indexed \subseteq DocumentNumbers /\ run \in Runs
  BY DEF DocumentsInv
<1>5. TypeOKDocuments
  BY <1>3, <1>4, DocumentFields DEF TypeOKDocuments, DocumentNumbers
<1> QED
  BY <1>1, <1>5 DEF DocumentsInv, ChunksCome, DocumentNumbers

=============================================================================
