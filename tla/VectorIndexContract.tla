------------------------ MODULE VectorIndexContract -------------------------
(***************************************************************************)
(* What the remote index promises to retrieval and to an erased account,   *)
(* whatever the order in which requests reach the store: a chunk is only    *)
(* ever replaced by a newer revision of it, a withdrawn chunk is not served *)
(* again, and an erased index stays empty.                                 *)
(***************************************************************************)
EXTENDS Naturals

CONSTANTS
    Chunks,
    Revisions      \* positive numbers, larger for later SQL mutations

VARIABLES
    index,   \* per chunk the revision that wrote it last (0: never) and whether it is withdrawn
    erased

vars == <<index, erased>>

Empty == [c \in Chunks |-> [revision |-> 0, deleted |-> FALSE]]

Init ==
    /\ index = Empty
    /\ erased = FALSE

Serve(c, r) ==
    /\ ~erased
    /\ ~index[c].deleted
    /\ r > index[c].revision
    /\ index' = [index EXCEPT ![c] = [revision |-> r, deleted |-> FALSE]]
    /\ UNCHANGED erased

Withdraw(c, r) ==
    /\ ~erased
    /\ r > index[c].revision
    /\ index' = [index EXCEPT ![c] = [revision |-> r, deleted |-> TRUE]]
    /\ UNCHANGED erased

Erase ==
    /\ index' = Empty
    /\ erased' = TRUE

Next ==
    \/ \E c \in Chunks, r \in Revisions : Serve(c, r) \/ Withdraw(c, r)
    \/ Erase

Spec == Init /\ [][Next]_vars

=============================================================================
