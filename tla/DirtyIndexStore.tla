-------------------------- MODULE DirtyIndexStore ---------------------------
(***************************************************************************)
(* The coalesced queue of one account's changed files                      *)
(* (lib/Service/DirtyIndexStore.php): at most one row per file.             *)
(*                                                                         *)
(* Every operation holds the queue's lock and is atomic.  A row is known by *)
(* its id and revision, and each mark makes a pair that was never used      *)
(* before: "stamp" numbers the pairs.  The debounce and the retry delays    *)
(* only postpone a claim and are left out; "live" is a lease that still     *)
(* lies in the future.                                                      *)
(***************************************************************************)
EXTENDS Naturals

CONSTANTS
    Files,
    MaxMarks,       \* bound on the number of marks
    MaxAttempts     \* ReindexFileJob::MAX_ATTEMPTS

ASSUME DirtyAssumption ==
    /\ MaxMarks \in Nat
    /\ MaxAttempts \in Nat \ {0}

VARIABLES
    dirty,   \* eva_ai_dirty_index, by file
    marks    \* number of (id, revision) pairs made so far

dirtyVars == <<dirty, marks>>

EntryStatuses == {"absent", "pending", "running", "failed"}

Entry == [status : EntryStatuses, attempts : 0..MaxAttempts, stamp : 0..MaxMarks, live : BOOLEAN]

NoEntry == [status |-> "absent", attempts |-> 0, stamp |-> 0, live |-> FALSE]

DirtyTypeOK ==
    /\ dirty \in [Files -> Entry]
    /\ marks \in 0..MaxMarks

DirtyInit ==
    /\ dirty = [f \in Files |-> NoEntry]
    /\ marks = 0

-----------------------------------------------------------------------------
(* markFile(): a new revision of the row, or a new row.                       *)
MarkFile(f) ==
    /\ marks < MaxMarks
    /\ marks' = marks + 1
    /\ dirty' = [dirty EXCEPT ![f] =
                    [status |-> "pending", attempts |-> 0, stamp |-> marks + 1, live |-> FALSE]]

(* Due work, and claims whose worker was not heard of again.                  *)
Due(f) ==
    \/ dirty[f].status = "pending"
    \/ dirty[f].status = "running" /\ ~dirty[f].live

Claimed(f) == [dirty EXCEPT ![f].status = "running", ![f].live = TRUE]

(* Slip: completed claims are deleted by id alone. *)
OwnsAnyRevision(f, stamp) == dirty[f].status = "running"

(* The WHERE clause of every operation that settles a claim.                  *)
Owns(f, stamp) == dirty[f].status = "running" /\ dirty[f].stamp = stamp

Acknowledged(f, stamp) ==
    IF Owns(f, stamp) THEN [dirty EXCEPT ![f] = NoEntry] ELSE dirty

(* Slip: the retry budget is one attempt too large. *)
RequeuedTooOften(f, stamp) ==
    IF Owns(f, stamp)
    THEN [dirty EXCEPT ![f] =
             [status   |-> IF dirty[f].attempts > MaxAttempts THEN "failed" ELSE "pending",
              attempts |-> dirty[f].attempts + 1, stamp |-> stamp, live |-> FALSE]]
    ELSE dirty

Requeued(f, stamp) ==
    IF Owns(f, stamp)
    THEN [dirty EXCEPT ![f] =
             [status   |-> IF dirty[f].attempts + 1 >= MaxAttempts THEN "failed" ELSE "pending",
              attempts |-> dirty[f].attempts + 1, stamp |-> stamp, live |-> FALSE]]
    ELSE dirty

Deferred(f, stamp) ==
    IF Owns(f, stamp) THEN [dirty EXCEPT ![f].status = "pending", ![f].live = FALSE] ELSE dirty

LeaseExpires(f) ==
    /\ dirty[f].status = "running"
    /\ dirty[f].live
    /\ dirty' = [dirty EXCEPT ![f].live = FALSE]
    /\ UNCHANGED marks

=============================================================================
