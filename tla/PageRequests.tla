----------------------------- MODULE PageRequests -----------------------------
(***************************************************************************)
(* The requests of one page of the app: api() of src/lib/api.js.  A request *)
(* is sent, served by the server in one step, and answered later; answers  *)
(* arrive in any order.  A GET is tried again up to two times when it was  *)
(* not answered or answered with a status that may pass; every other       *)
(* request fails, and the server may have served it before.                *)
(*                                                                         *)
(* arg and got are the parameters and the answer; each view gives them its *)
(* own shape.  id tells requests that are under way at the same time       *)
(* apart, as the closures and the request numbers of the views do.         *)
(***************************************************************************)
EXTENDS Naturals, Sequences, FiniteSets, SequencesExt

CONSTANTS
    Views,          \* names of the modelled views
    Acts,           \* names of the user's actions
    Tasks           \* bound: what the user does in a behaviour, in one view

ASSUME TaskAssumption == Tasks \subseteq [view: Views, acts: SUBSET Acts, clicks: Nat, faults: Nat]

VARIABLES
    task,       \* the task of this behaviour
    net,        \* requests under way
    clicks,     \* how much the user has done
    faults      \* attempts that failed

requestVars == <<task, net, clicks, faults>>

MaxRetries == 2

InitRequests(view) == task \in {t \in Tasks : t.view = view} /\ clicks = 0 /\ faults = 0

Open(op) == {r \in net : r.op = op}
Back(op) == {r \in Open(op) : r.state # "sent"}

\* The numbers of S in order, and the members of s at the places of a set.
Ascending(S) == [n \in 1..Cardinality(S) |-> CHOOSE x \in S : Cardinality({y \in S : y < x}) = n - 1]
Taken(s, places) == [n \in 1..Cardinality(places) |-> s[Ascending(places)[n]]]

\* The smallest n numbers no request under way has.
FreeIds(n) ==
    LET used == {r.id : r \in net}
        free == (1..(Cardinality(net) + n)) \ used
    IN  CHOOSE ids \in [1..n -> free] : \A i, j \in 1..n : i < j => ids[i] < ids[j]

Ask(op, get, arg) == [op |-> op, get |-> get, arg |-> arg]

Sent(asks, ids) ==
    {[op |-> asks[i].op, get |-> asks[i].get, arg |-> asks[i].arg, id |-> ids[i],
      tries |-> 0, state |-> "sent", got |-> asks[i].arg] : i \in DOMAIN asks}

(* The requests of asks (a sequence) take the place of those in done. *)
Exchange(done, asks) == net' = (net \ done) \cup Sent(asks, FreeIds(Len(asks)))

\* A step of the page that the user does not take.
React(done, asks) == Exchange(done, asks) /\ UNCHANGED <<task, clicks, faults>>

Click(act, asks) ==
    /\ act \in task.acts /\ clicks < task.clicks
    /\ clicks' = clicks + 1
    /\ Exchange({}, asks)
    /\ UNCHANGED <<task, faults>>

Answered(r, got) == net' = (net \ {r}) \cup {[r EXCEPT !.state = "answered", !.got = got]}

Refused(r) == net' = (net \ {r}) \cup {[r EXCEPT !.state = "failed"]}

(***************************************************************************)
(* An attempt fails before or after the server served it.  passing: no     *)
(* answer, or status 408, 429 or 5xx.                                      *)
(***************************************************************************)
Retries(r, passing) == r.get /\ passing /\ r.tries < MaxRetries

FailAttempt ==
    /\ faults < task.faults
    /\ faults' = faults + 1
    /\ \E r \in net, passing \in BOOLEAN :
          /\ r.state # "failed"
          /\ net' = (net \ {r}) \cup
                {IF Retries(r, passing) THEN [r EXCEPT !.tries = @ + 1, !.state = "sent", !.got = r.arg]
                                        ELSE [r EXCEPT !.state = "failed", !.got = r.arg]}
    /\ UNCHANGED <<task, clicks>>

=============================================================================
