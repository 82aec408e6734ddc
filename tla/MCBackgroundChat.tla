-------------------------- MODULE MCBackgroundChat --------------------------
(* Instances of BackgroundChat for TLC. *)
EXTENDS BackgroundChat, TLC

MCOneUser  == [i \in Items |-> "u"]
MCSymmetry == Permutations(Workers)

(* Behaviours without retries by the user: a request that is queued again after  *)
(* the job took its user off the list waits as well, for another reason.         *)
UnretriedSpec ==
    Init /\ [][Next /\ \A i \in Items : ~UserRetry(i)]_vars /\ Fairness

=============================================================================
