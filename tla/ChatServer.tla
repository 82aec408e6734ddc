----------------------------- MODULE ChatServer -----------------------------
(***************************************************************************)
(* The chats of one user as the server stores them: what ChatStore does    *)
(* with a chat record.  Pages (module ChatPages) reach it by requests.     *)
(* Every operation holds the lock of the chat and is one step.  A message  *)
(* is named by the question it belongs to; its text is left out.           *)
(***************************************************************************)
EXTENDS Naturals, Sequences, SequencesExt

CONSTANTS
    Chats,          \* ids a chat can get
    MaxTurns        \* bound: questions asked in a behaviour

ASSUME ChatAssumption == MaxTurns \in Nat \ {0}

Turns == 1..MaxTurns

\* A confirmation of a tool call: none, waiting, claimed by an approval, resolved.
Confirmations == {"none", "open", "claimed", "done"}

Message == [role: {"user", "assistant"}, turn: Turns, conf: Confirmations]

Question(q) == [role |-> "user", turn |-> q, conf |-> "none"]
Answer(q, conf) == [role |-> "assistant", turn |-> q, conf |-> conf]

\* The marker of a regeneration that has begun; had is the history it found.
NoMark == [index |-> 0, rev |-> 0, base |-> 0, had |-> <<>>]

\* state: "unborn" (no chat has this id yet), "live", "deleted"
NewChat(state) == [state |-> state, msgs |-> <<>>, rev |-> 0, mark |-> NoMark]

Unresolved(m) == m.role = "assistant" /\ m.conf \in {"open", "claimed"}

(***************************************************************************)
(* appendToChat(): regenRev = 0 stands for "no revision token".  A token   *)
(* that is not the one of the marker is refused; the right one first cuts  *)
(* the history after the question; without one the marker is dropped.  An  *)
(* assistant message takes the place of the last unresolved confirmation.  *)
(***************************************************************************)
(* Slip: the token of an answer is not compared with the marker. *)
MarkFitsAlways(chat, regenRev) == TRUE
MarkFits(chat, regenRev) == regenRev = 0 \/ (chat.mark # NoMark /\ chat.mark.rev = regenRev)

CutAt(chat, regenRev) ==
    IF regenRev # 0 /\ chat.mark.index <= Len(chat.msgs)
    THEN SubSeq(chat.msgs, 1, chat.mark.index) ELSE chat.msgs

Placed(msgs, m) ==
    LET open == {i \in DOMAIN msgs : Unresolved(msgs[i])}
    IN  IF m.role = "assistant" /\ open # {}
        THEN [msgs EXCEPT ![CHOOSE i \in open : \A j \in open : j <= i] = m]
        ELSE Append(msgs, m)

Appended(chat, m, regenRev) ==
    [chat EXCEPT !.msgs = Placed(CutAt(chat, regenRev), m), !.rev = @ + 1, !.mark = NoMark]

\* appendTurn(): question and answer in one write, guarded by the revision.
TurnFits(chat, expectedRev) == chat.rev = expectedRev
TurnAppended(chat, q, conf) ==
    Appended(Appended(chat, Question(q), 0), Answer(q, conf), 0)

\* beginRegenerate(): index is the position of the question (from 1).
MayBegin(chat, index, expectedRev) ==
    /\ index \in DOMAIN chat.msgs
    /\ chat.msgs[index].role = "user"
    /\ \/ chat.rev = expectedRev
       \/ chat.mark # NoMark /\ chat.mark.base = expectedRev

Begun(chat, index) ==
    [chat EXCEPT !.rev = @ + 1,
        !.mark = [index |-> index, rev |-> chat.rev + 1, had |-> chat.msgs,
                  base |-> IF chat.mark # NoMark THEN chat.mark.base ELSE chat.rev]]

(***************************************************************************)
(* claimConfirmation(): the token of a confirmation is its question.  A    *)
(* token nobody stores is "none", and confirmTool() runs the action then.  *)
(***************************************************************************)
Tokens(chat, q) == {i \in DOMAIN chat.msgs : chat.msgs[i].turn = q /\ chat.msgs[i].conf # "none"}

Claim(chat, q) ==
    IF Tokens(chat, q) = {} THEN "none"
    ELSE LET i == CHOOSE j \in Tokens(chat, q) : \A k \in Tokens(chat, q) : k <= j
         IN  IF chat.msgs[i].conf = "open" THEN "ok" ELSE "already"

(* Slip: the claim is not stored. *)
ClaimedNot(chat, q) == chat
Claimed(chat, q) ==
    [chat EXCEPT !.msgs = [i \in DOMAIN @ |->
        IF i \in Tokens(chat, q) /\ @[i].conf = "open" THEN [@[i] EXCEPT !.conf = "claimed"] ELSE @[i]]]

(***************************************************************************)
(* The hand-over of a page that goes away: backgroundChat() stores the     *)
(* question unless it is the last message, the job appends the answer.     *)
(***************************************************************************)
HandedOver(chat, q) ==
    IF chat.msgs # <<>> /\ Last(chat.msgs).role = "user" /\ Last(chat.msgs).turn = q
    THEN chat ELSE Appended(chat, Question(q), 0)

=============================================================================
