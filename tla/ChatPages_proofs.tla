-------------------------- MODULE ChatPages_proofs --------------------------
(***************************************************************************)
(* Proofs about ChatPages, for any number of pages, chats and turns: a late *)
(* answer to a regeneration never cuts a message that was stored after the  *)
(* regeneration began; the types of the chats, the requests and the pages;  *)
(* a question is stored before its answer; no answer an app page shows is   *)
(* lost in silence.                                                         *)
(***************************************************************************)
EXTENDS ChatPages, WellFoundedInduction, SequenceTheorems, TLAPS

(* A set of numbers that is not empty has a least member. *)
LEMMA LeastExists ==
    ASSUME NEW S \in SUBSET Nat, S # {}
    PROVE  \E x \in S : \A y \in S : x <= y
<1> DEFINE R == {ss \in Nat \X Nat : ss[1] < ss[2]}
<1>1. IsWellFoundedOn(R, Nat)
  BY NatLessThanWellFounded DEF OpToRel
<1>2. PICK x \in S : \A y \in S : <<y, x>> \notin R
  <2> HIDE DEF R
  <2> QED BY <1>1, WFMin
<1>3. ASSUME NEW y \in S
      PROVE  x <= y
  <2>1. x \in Nat /\ y \in Nat
    OBVIOUS
  <2>2. y < x => <<y, x>> \in R
    BY <2>1
  <2> QED
    BY <1>2, <2>1, <2>2
<1> QED
  BY <1>3

(* A set of positions of a sequence that is not empty has a last member. *)
LEMMA LastMember ==
    ASSUME NEW n \in Nat, NEW S \in SUBSET (1..n), S # {}
    PROVE  \E i \in S : \A j \in S : j <= i
<1> DEFINE D == {n - i : i \in S}
<1>1. D \in SUBSET Nat /\ D # {}
  <2>1. \A i \in S : n - i \in Nat
    OBVIOUS
  <2>2. PICK i \in S : TRUE
    OBVIOUS
  <2>3. n - i \in D
    OBVIOUS
  <2> QED
    BY <2>1, <2>3
<1>2. \A j \in S : n - j \in D /\ j \in Nat /\ j <= n
  <2>1. \A j \in S : j \in 1..n
    OBVIOUS
  <2> QED
    BY <2>1
<1>3. PICK d \in D : \A e \in D : d <= e
  <2> HIDE DEF D
  <2> QED BY <1>1, LeastExists
<1>4. PICK i \in S : d = n - i
  BY <1>3
<1>5. \A j \in S : j <= i
  <2>1. SUFFICES ASSUME NEW j \in S PROVE j <= i
    OBVIOUS
  <2>2. i \in Nat /\ j \in Nat /\ i <= n /\ j <= n
    BY <1>2
  <2>3. d <= n - j
    BY <1>2, <1>3
  <2> QED
    BY <1>4, <2>2, <2>3
<1> QED
  BY <1>5

(* ... which is the one a choice finds. *)
LEMMA LastPosition ==
    ASSUME NEW n \in Nat, NEW S \in SUBSET (1..n), S # {}
    PROVE  (CHOOSE i \in S : \A j \in S : j <= i) \in S
BY LastMember

-----------------------------------------------------------------------------
(* Chats hold sequences of messages; a message that asks for a confirmation or *)
(* carries its outcome is the assistant's.  The turns and confirmations that   *)
(* requests name are left open.                                              *)
Msgs(T, C) == {m \in [role : {"user", "assistant"}, turn : T, conf : C] :
                  m.conf # "none" => m.role = "assistant"}

IsHistory(s) == \E T, C : s \in Seq(Msgs(T, C))

(* Every message of a, but for unresolved confirmations, is in b or in had. *)
KeptIn(a, b, had) ==
    \A i \in DOMAIN a : a[i] \in ToSet(b) \/ Unresolved(a[i]) \/ a[i] \in ToSet(had)

(* A chat that waits for the answer of a regeneration holds what the           *)
(* regeneration found: each other write of a message drops the marker.        *)
ChatOK(chat) ==
    /\ IsHistory(chat.msgs)
    /\ DOMAIN chat = {"state", "msgs", "rev", "mark"}
    /\ chat.mark.index \in Nat
    /\ chat.mark # NoMark => KeptIn(chat.msgs, chat.mark.had, <<>>)

ChatsOK == DOMAIN chats = Chats /\ chats = [c \in Chats |-> chats[c]] /\ \A c \in Chats : ChatOK(chats[c])

(* Placing a message keeps the others but for the one it replaces. *)
LEMMA PlacedKeeps ==
    ASSUME NEW s, IsHistory(s), NEW T, NEW C, NEW m \in Msgs(T, C)
    PROVE  IsHistory(Placed(s, m)) /\ KeptIn(s, Placed(s, m), <<>>)
<1> DEFINE open == {i \in DOMAIN s : Unresolved(s[i])}
           last == CHOOSE i \in open : \A j \in open : j <= i
<1>1. PICK U, D : s \in Seq(Msgs(U, D))
  BY DEF IsHistory
<1>2. Msgs(U, D) \subseteq Msgs(U \cup T, D \cup C) /\ m \in Msgs(U \cup T, D \cup C)
  BY DEF Msgs
<1> DEFINE M == Msgs(U \cup T, D \cup C)
<1> HIDE DEF M
<1>3. s \in Seq(M) /\ DOMAIN s = 1..Len(s) /\ Len(s) \in Nat /\ m \in M
  <2>1. s \in Seq(M)
    BY <1>1, <1>2, SeqMonotonic DEF M
  <2> QED
    BY <1>2, <2>1, LenProperties DEF M
<1>4. CASE m.role = "assistant" /\ open # {}
  <2>1. last \in open
    BY <1>3, <1>4, LastPosition
  <2>2. Placed(s, m) = [s EXCEPT ![last] = m]
    BY <1>4 DEF Placed
  <2> HIDE DEF last
  <2>3. Placed(s, m) \in Seq(M)
    BY <1>3, <2>1, <2>2, ExceptSeq
  <2>4. \A i \in DOMAIN s : i # last => Placed(s, m)[i] = s[i] /\ i \in DOMAIN Placed(s, m)
    BY <2>2
  <2>5. Unresolved(s[last])
    BY <2>1
  <2> QED
    BY <2>3, <2>4, <2>5 DEF IsHistory, KeptIn, ToSet, M
<1>5. CASE ~(m.role = "assistant" /\ open # {})
  <2>1. Placed(s, m) = Append(s, m)
    BY <1>5 DEF Placed
  <2>2. Placed(s, m) \in Seq(M)
    BY <1>3, <2>1, AppendProperties
  <2>3. \A i \in DOMAIN s : Placed(s, m)[i] = s[i] /\ i \in DOMAIN Placed(s, m)
    <3>1. Len(Placed(s, m)) = Len(s) + 1 /\ DOMAIN Placed(s, m) = 1..Len(Placed(s, m))
      BY <1>3, <2>1, <2>2, AppendProperties, LenProperties
    <3> QED
      BY <1>3, <2>1, <3>1, AppendProperties
  <2> QED
    BY <2>2, <2>3 DEF IsHistory, KeptIn, ToSet, M
<1> QED
  BY <1>4, <1>5

(* Keeping is transitive. *)
LEMMA KeptTwice ==
    ASSUME NEW a, NEW b, NEW c, NEW had, KeptIn(a, b, had), KeptIn(b, c, <<>>)
    PROVE  KeptIn(a, c, had)
<1>1. ToSet(<<>>) = {}
  BY DEF ToSet
<1> QED
  BY <1>1 DEF KeptIn, ToSet

(* The part before the answer of a regeneration is a history. *)
LEMMA CutIsHistory ==
    ASSUME NEW s, IsHistory(s), NEW n \in Nat, n <= Len(s)
    PROVE  IsHistory(SubSeq(s, 1, n))
<1>1. PICK T, C : s \in Seq(Msgs(T, C))
  BY DEF IsHistory
<1>2. \A i \in 1..n : s[i] \in Msgs(T, C)
  BY <1>1, ElementOfSeq, LenProperties
<1>3. SubSeq(s, 1, n) \in Seq(Msgs(T, C))
  BY <1>2, SubSeqProperties
<1> QED
  BY <1>3 DEF IsHistory

(* A write of a message leaves a chat without a marker, and cuts only what the *)
(* regeneration found.                                                       *)
LEMMA AppendedKeeps ==
    ASSUME NEW chat, ChatOK(chat), NEW T, NEW C, NEW m \in Msgs(T, C),
           NEW r, MarkFits(chat, r)
    PROVE  /\ ChatOK(Appended(chat, m, r))
           /\ KeptIn(chat.msgs, Appended(chat, m, r).msgs, chat.mark.had)
<1> DEFINE cut == CutAt(chat, r)
<1>1. IsHistory(cut)
  BY CutIsHistory DEF CutAt, ChatOK
<1>2. IsHistory(Placed(cut, m)) /\ KeptIn(cut, Placed(cut, m), <<>>)
  BY <1>1, PlacedKeeps
<1>3. /\ Appended(chat, m, r).msgs = Placed(cut, m)
      /\ Appended(chat, m, r).mark = NoMark
      /\ DOMAIN Appended(chat, m, r) = {"state", "msgs", "rev", "mark"}
  BY DEF Appended, ChatOK
<1>4. ChatOK(Appended(chat, m, r))
  BY <1>2, <1>3 DEF ChatOK, NoMark
<1>5. CASE r = 0
  <2>1. cut = chat.msgs
    BY <1>5 DEF CutAt
  <2> QED
    BY <1>2, <1>3, <1>4, <2>1 DEF KeptIn, ToSet
<1>6. CASE r # 0
  <2>1. KeptIn(chat.msgs, chat.mark.had, <<>>)
    BY <1>6 DEF ChatOK, MarkFits
  <2>2. KeptIn(chat.msgs, Placed(cut, m), chat.mark.had)
    BY <2>1 DEF KeptIn, ToSet
  <2> QED
    BY <1>3, <1>4, <2>2
<1> QED
  BY <1>5, <1>6

(* Questions and answers are messages. *)
LEMMA NewMessages ==
    ASSUME NEW q, NEW k
    PROVE  /\ Question(q) \in Msgs({q}, {"none"})
           /\ Answer(q, k) \in Msgs({q}, {k})
BY DEF Question, Answer, Msgs

-----------------------------------------------------------------------------
(* What a step leaves of the messages of the chats that are live after it. *)
Kept ==
    \A c \in Chats : chats'[c].state = "live"
        => KeptIn(chats[c].msgs, chats'[c].msgs, chats[c].mark.had)

LEMMA SameChats ==
    ASSUME ChatsOK, UNCHANGED chats
    PROVE  ChatsOK' /\ Kept
BY DEF ChatsOK, ChatOK, Kept, KeptIn, ToSet

(* A write of one chat. *)
LEMMA OneChat ==
    ASSUME ChatsOK, NEW c \in Chats, NEW chat, ChatOK(chat), chats' = [chats EXCEPT ![c] = chat],
           chat.state = "live" => KeptIn(chats[c].msgs, chat.msgs, chats[c].mark.had)
    PROVE  ChatsOK' /\ Kept
<1>1. DOMAIN chats' = Chats /\ chats' = [d \in Chats |-> chats'[d]]
  BY DEF ChatsOK
<1>2. chats'[c] = chat /\ \A d \in Chats : d # c => chats'[d] = chats[d]
  BY DEF ChatsOK
<1>3. \A d \in Chats : KeptIn(chats[d].msgs, chats[d].msgs, chats[d].mark.had)
  BY DEF KeptIn, ToSet
<1> QED
  BY <1>1, <1>2, <1>3 DEF ChatsOK, Kept

(* An approval claims its confirmation, which stays unresolved. *)
LEMMA ClaimedKeeps ==
    ASSUME NEW chat, ChatOK(chat), NEW q
    PROVE  /\ ChatOK(Claimed(chat, q))
           /\ KeptIn(chat.msgs, Claimed(chat, q).msgs, <<>>)
<1> DEFINE next == Claimed(chat, q).msgs
           hit(i) == i \in Tokens(chat, q) /\ chat.msgs[i].conf = "open"
<1>1. PICK T, C : chat.msgs \in Seq(Msgs(T, C))
  BY DEF ChatOK, IsHistory
<1> DEFINE M == Msgs(T, C \cup {"claimed"})
<1>2. /\ next = [i \in DOMAIN chat.msgs |->
                    IF hit(i) THEN [chat.msgs[i] EXCEPT !.conf = "claimed"] ELSE chat.msgs[i]]
      /\ DOMAIN Claimed(chat, q) = {"state", "msgs", "rev", "mark"}
      /\ Claimed(chat, q).mark = chat.mark
  BY DEF Claimed, ChatOK
<1> HIDE DEF next
<1>3. /\ DOMAIN chat.msgs = 1..Len(chat.msgs) /\ Len(chat.msgs) \in Nat
      /\ \A i \in DOMAIN chat.msgs : chat.msgs[i] \in Msgs(T, C)
  BY <1>1, LenProperties, ElementOfSeq
<1>4. \A i \in DOMAIN chat.msgs : hit(i) => Unresolved(chat.msgs[i]) /\ Unresolved(next[i])
  BY <1>2, <1>3 DEF Unresolved, Msgs
<1>5. \A i \in DOMAIN chat.msgs : next[i] \in M
  BY <1>2, <1>3 DEF Msgs
<1>6. next \in Seq(M)
  <2>1. next \in [1..Len(chat.msgs) -> M]
    BY <1>2, <1>3, <1>5
  <2> QED
    BY <1>3, <2>1, SeqDef
<1>7. IsHistory(next)
  BY <1>6 DEF IsHistory
<1>8. KeptIn(chat.msgs, next, <<>>)
  BY <1>2, <1>4 DEF KeptIn, ToSet
<1>9. chat.mark # NoMark => KeptIn(next, chat.mark.had, <<>>)
  <2>1. SUFFICES ASSUME chat.mark # NoMark, NEW i \in DOMAIN next
                 PROVE  next[i] \in ToSet(chat.mark.had) \/ Unresolved(next[i])
    BY DEF KeptIn
  <2>2. i \in DOMAIN chat.msgs
    BY <1>2
  <2>3. ToSet(<<>>) = {}
    BY DEF ToSet
  <2>4. chat.msgs[i] \in ToSet(chat.mark.had) \/ Unresolved(chat.msgs[i])
    BY <2>1, <2>2, <2>3 DEF ChatOK, KeptIn
  <2>5. ~hit(i) => next[i] = chat.msgs[i]
    BY <1>2, <2>2
  <2> QED
    BY <1>4, <2>2, <2>4, <2>5
<1> QED
  BY <1>2, <1>7, <1>8, <1>9 DEF ChatOK, next

(* The marker of a regeneration remembers the history it found. *)
LEMMA BegunKeeps ==
    ASSUME NEW chat, ChatOK(chat), NEW n, n \in DOMAIN chat.msgs
    PROVE  ChatOK(Begun(chat, n)) /\ Begun(chat, n).msgs = chat.msgs
<1>1. n \in Nat
  <2>1. PICK T, C : chat.msgs \in Seq(Msgs(T, C))
    BY DEF ChatOK, IsHistory
  <2> QED
    BY <2>1, LenProperties
<1> QED
  BY <1>1 DEF ChatOK, Begun, KeptIn, ToSet

(* Each request that writes a chat. *)
LEMMA ServeKeeps ==
    ASSUME ChatsOK, NEW call,
           \/ ServeLoad(call) \/ ServeList(call) \/ ServeCreate(call) \/ ServeDelete(call)
           \/ ServeTurn(call) \/ ServeMessage(call) \/ ServeRegenerate(call)
           \/ ServeConfirm(call) \/ ServeHandover(call) \/ ServeMeta(call)
    PROVE  ChatsOK' /\ Kept
<1> DEFINE c == call.chat
<1>1. ASSUME Live(c)
      PROVE  c \in Chats /\ ChatOK(chats[c])
  BY <1>1 DEF Live, ChatsOK
<1>2. CASE UNCHANGED chats
  BY <1>2, SameChats
<1>3. CASE ServeLoad(call) \/ ServeList(call)
  BY <1>2, <1>3 DEF ServeLoad, ServeList
<1>4. CASE ServeCreate(call) /\ chats' # chats
  <2>1. PICK d \in Chats : chats' = [chats EXCEPT ![d] = [chats[d] EXCEPT !.state = "live"]]
    BY <1>4 DEF ServeCreate, Refuse
  <2>2. ChatOK([chats[d] EXCEPT !.state = "live"])
    BY DEF ChatsOK, ChatOK
  <2>3. KeptIn(chats[d].msgs, [chats[d] EXCEPT !.state = "live"].msgs, chats[d].mark.had)
    BY DEF KeptIn, ToSet, ChatsOK, ChatOK
  <2> QED
    BY <2>1, <2>2, <2>3, OneChat
<1>5. CASE ServeDelete(call) /\ Live(c)
  <2>1. IsHistory(<<>>)
    BY EmptySeq DEF IsHistory
  <2>2. ChatOK(NewChat("deleted")) /\ NewChat("deleted").state # "live"
    BY <2>1 DEF ChatOK, NewChat, NoMark
  <2> QED
    BY <1>1, <1>5, <2>2, OneChat DEF ServeDelete, Store
<1>6. CASE ServeTurn(call) /\ Live(c) /\ TurnFits(chats[c], call.rev)
  <2> DEFINE mid == Appended(chats[c], Question(call.turn), 0)
             end == Appended(mid, Answer(call.turn, call.conf), 0)
  <2>1. ChatOK(mid) /\ KeptIn(chats[c].msgs, mid.msgs, chats[c].mark.had)
    BY <1>1, <1>6, NewMessages, AppendedKeeps DEF MarkFits
  <2>2. mid.mark.had = <<>>
    BY <1>1, <1>6 DEF Appended, NoMark, ChatOK
  <2>3. ChatOK(end) /\ KeptIn(mid.msgs, end.msgs, <<>>)
    <3>1. MarkFits(mid, 0)
      BY DEF MarkFits
    <3>2. Answer(call.turn, call.conf) \in Msgs({call.turn}, {call.conf})
      BY NewMessages
    <3> HIDE DEF mid
    <3> QED
      BY <2>1, <2>2, <3>1, <3>2, AppendedKeeps
  <2>4. KeptIn(chats[c].msgs, end.msgs, chats[c].mark.had)
    BY <2>1, <2>3, KeptTwice
  <2>5. chats' = [chats EXCEPT ![c] = end]
    BY <1>6 DEF ServeTurn, Store, TurnAppended
  <2> QED
    BY <1>1, <1>6, <2>3, <2>4, <2>5, OneChat
<1>7. CASE ServeMessage(call) /\ Live(c) /\ MarkFits(chats[c], call.rev)
  <2>1. PICK m \in Msgs({call.turn}, {"none", call.conf}) :
            chats' = [chats EXCEPT ![c] = Appended(chats[c], m, call.rev)]
    <3>1. /\ Question(call.turn) \in Msgs({call.turn}, {"none", call.conf})
          /\ Answer(call.turn, call.conf) \in Msgs({call.turn}, {"none", call.conf})
      BY NewMessages DEF Msgs
    <3> QED
      BY <1>7, <3>1 DEF ServeMessage, Store
  <2> QED
    BY <1>1, <1>7, <2>1, AppendedKeeps, OneChat
<1>8. CASE ServeRegenerate(call) /\ Live(c) /\ chats' # chats
  <2>1. /\ chats' = [chats EXCEPT ![c] = Begun(chats[c], call.index)]
        /\ call.index \in DOMAIN chats[c].msgs
    BY <1>8 DEF ServeRegenerate, MayBegin, Refuse
  <2> QED
    BY <1>1, <1>8, <2>1, BegunKeeps, OneChat DEF KeptIn, ToSet
<1>9. CASE ServeConfirm(call) /\ chats' # chats
  <2>1. Live(c) /\ chats' = [chats EXCEPT ![c] = Claimed(@, call.turn)]
    BY <1>9 DEF ServeConfirm, Refuse
  <2>2. chats' = [chats EXCEPT ![c] = Claimed(chats[c], call.turn)]
    BY <2>1
  <2>3. /\ ChatOK(Claimed(chats[c], call.turn))
        /\ KeptIn(chats[c].msgs, Claimed(chats[c], call.turn).msgs, <<>>)
    BY <1>1, <2>1, ClaimedKeeps
  <2>4. KeptIn(chats[c].msgs, Claimed(chats[c], call.turn).msgs, chats[c].mark.had)
    BY <2>3 DEF KeptIn, ToSet
  <2> QED
    BY <1>1, <2>1, <2>2, <2>3, <2>4, OneChat
<1>10. CASE ServeHandover(call) /\ Live(c)
  <2>1. chats' = [chats EXCEPT ![c] = HandedOver(chats[c], call.turn)]
    BY <1>10 DEF ServeHandover, Store
  <2>2. CASE HandedOver(chats[c], call.turn) = chats[c]
    BY <1>1, <1>10, <2>1, <2>2, SameChats DEF ChatsOK
  <2>3. CASE HandedOver(chats[c], call.turn) = Appended(chats[c], Question(call.turn), 0)
    BY <1>1, <1>10, <2>1, <2>3, NewMessages, AppendedKeeps, OneChat DEF MarkFits
  <2> QED
    BY <2>2, <2>3 DEF HandedOver
<1>11. CASE ServeMeta(call) /\ Live(c)
  <2> DEFINE chat == [chats[c] EXCEPT !.rev = @ + 1]
  <2>1. ChatOK(chat) /\ chat.msgs = chats[c].msgs
    BY <1>1, <1>11 DEF ChatOK
  <2>2. KeptIn(chats[c].msgs, chat.msgs, chats[c].mark.had)
    BY <2>1 DEF KeptIn, ToSet
  <2>3. chats' = [chats EXCEPT ![c] = chat]
    BY <1>11 DEF ServeMeta, Store
  <2> QED
    BY <1>1, <1>11, <2>1, <2>2, <2>3, OneChat
<1>12. CASE /\ chats' # chats
            /\ ServeDelete(call) \/ ServeTurn(call) \/ ServeMessage(call) \/ ServeRegenerate(call)
                 \/ ServeHandover(call) \/ ServeMeta(call)
            /\ ~Live(c)
  BY <1>12 DEF ServeDelete, ServeTurn, ServeMessage, ServeRegenerate, ServeHandover,
     ServeMeta, Refuse
<1>13. CASE /\ chats' # chats
            /\ \/ ServeTurn(call) /\ ~TurnFits(chats[c], call.rev)
               \/ ServeMessage(call) /\ ~MarkFits(chats[c], call.rev)
  BY <1>13 DEF ServeTurn, ServeMessage, Refuse
<1> QED
  BY <1>2, <1>3, <1>4, <1>5, <1>6, <1>7, <1>8, <1>9, <1>10, <1>11, <1>12, <1>13

(* The answer of a background job comes without a token. *)
LEMMA JobKeeps ==
    ASSUME ChatsOK, FinishJob
    PROVE  ChatsOK' /\ Kept
<1>1. PICK job \in jobs :
        chats' = IF Live(job[1])
                 THEN [chats EXCEPT ![job[1]] = Appended(@, Answer(job[2], "none"), 0)] ELSE chats
  BY DEF FinishJob
<1>2. CASE ~Live(job[1])
  BY <1>1, <1>2, SameChats
<1>3. CASE Live(job[1])
  <2>1. job[1] \in Chats /\ ChatOK(chats[job[1]])
    BY <1>3 DEF Live, ChatsOK
  <2>2. chats' = [chats EXCEPT ![job[1]] = Appended(chats[job[1]], Answer(job[2], "none"), 0)]
    BY <1>1, <1>3
  <2> QED
    BY <2>1, <2>2, NewMessages, AppendedKeeps, OneChat DEF MarkFits
<1> QED
  BY <1>2, <1>3

(* The pages reach the chats by requests only. *)
LEMMA AppLeavesChats ==
    ASSUME NEW p, AppStep(p)
    PROVE  UNCHANGED <<chats, ran, written>>
<1>1. Mount(p) \/ Loaded(p) \/ LoadFails(p) \/ RetryLoad(p) \/ Send(p) => UNCHANGED <<chats, ran, written>>
  BY DEF Mount, Loaded, LoadFails, RetryLoad, Send, Keep, Leave
<1>2. Created(p) \/ StreamText(p) \/ StreamDone(p) \/ StreamConfirmation(p) \/ StreamError(p) => UNCHANGED <<chats, ran, written>>
  BY DEF Created, StreamText, StreamDone, StreamConfirmation, StreamError, Keep, Leave
<1>3. StreamBreak(p) \/ Stop(p) \/ Regenerate(p) \/ RegenerateBegins(p) \/ RegenerateRefused(p) => UNCHANGED <<chats, ran, written>>
  BY DEF StreamBreak, Stop, Regenerate, RegenerateBegins, RegenerateRefused, Keep, Leave
<1>4. Saved(p) \/ SaveFails(p) \/ Synced(p) \/ Approve(p) \/ Reject(p) => UNCHANGED <<chats, ran, written>>
  BY DEF Saved, SaveFails, Synced, Approve, Reject, Keep, Leave
<1>5. ActionRan(p) \/ ActionFails(p) \/ Customize(p) \/ Customized(p) \/ Destroy(p) => UNCHANGED <<chats, ran, written>>
  BY DEF ActionRan, ActionFails, Customize, Customized, Destroy, Keep, Leave
<1>6. CloseTab(p) => UNCHANGED <<chats, ran, written>>
  BY DEF CloseTab, Keep, Leave
<1> QED
  BY <1>1, <1>2, <1>3, <1>4, <1>5, <1>6 DEF AppStep

LEMMA StandaloneLeavesChats ==
    ASSUME NEW s, StandaloneStep(s)
    PROVE  UNCHANGED <<chats, ran, written>>
<1>1. Open(s) \/ Listed(s) \/ ListFails(s) \/ Choose(s) \/ ChatLoaded(s) => UNCHANGED <<chats, ran, written>>
  BY DEF Open, Listed, ListFails, Choose, ChatLoaded, Same, Click
<1>2. ChatLoadFails(s) \/ NewChatClicked(s) \/ NewChatOpens(s) \/ NewChatFails(s) \/ DeleteChat(s) => UNCHANGED <<chats, ran, written>>
  BY DEF ChatLoadFails, NewChatClicked, NewChatOpens, NewChatFails, DeleteChat, Same, Click
<1>3. Deleted(s) \/ DeleteFails(s) \/ SendQuestion(s) \/ ChatEnsured(s) \/ Text(s) => UNCHANGED <<chats, ran, written>>
  BY DEF Deleted, DeleteFails, SendQuestion, ChatEnsured, Text, Same, Click
<1>4. Terminal(s) \/ Broken(s) \/ StopClicked(s) \/ Unheard(s) \/ QuestionSaved(s) => UNCHANGED <<chats, ran, written>>
  BY DEF Terminal, Broken, StopClicked, Unheard, QuestionSaved, Same, Click
<1>5. QuestionFails(s) \/ AnswerSaved(s) \/ ApproveClicked(s) \/ Cancelled(s) \/ ActionOver(s) => UNCHANGED <<chats, ran, written>>
  BY DEF QuestionFails, AnswerSaved, ApproveClicked, Cancelled, ActionOver, Same, Click
<1> QED
  BY <1>1, <1>2, <1>3, <1>4, <1>5 DEF StandaloneStep

(* Every step keeps the chats well formed and, of the messages of a live chat,  *)
(* what was not yet there when a regeneration began.                          *)
LEMMA StepKeeps ==
    ASSUME ChatsOK, [Next]_vars
    PROVE  ChatsOK' /\ Kept
<1>1. CASE UNCHANGED chats
  BY <1>1, SameChats
<1>2. ASSUME NEW p \in Pages, NEW op \in Ops, Server(p, op)
      PROVE  ChatsOK' /\ Kept
  BY <1>2, ServeKeeps DEF Server, Serve
<1>3. CASE JobDone
  BY <1>3, JobKeeps DEF JobDone
<1>4. CASE (\E p \in AppPages : AppStep(p)) \/ (\E s \in StandalonePages : StandaloneStep(s))
  BY <1>1, <1>4, AppLeavesChats, StandaloneLeavesChats
<1>5. CASE Network \/ UNCHANGED vars
  BY <1>1, <1>5 DEF Network, Lose, vars, serverVars
<1> QED
  BY <1>2, <1>3, <1>4, <1>5 DEF Next

LEMMA InitiallyOK == Init => ChatsOK
<1> SUFFICES ASSUME NEW session \in Sessions,
                    chats = [c \in Chats |->
                       IF c = CHOOSE d \in session.chats : TRUE
                       THEN TurnAppended(NewChat("live"), 1, "none")
                       ELSE NewChat(IF c \in session.chats THEN "unborn" ELSE "deleted")]
             PROVE  ChatsOK
  BY DEF Init
<1>1. \A state : ChatOK(NewChat(state)) /\ NewChat(state).mark = NoMark
  <2>1. IsHistory(<<>>)
    BY EmptySeq DEF IsHistory
  <2> QED
    BY <2>1 DEF ChatOK, NewChat, NoMark
<1>2. ChatOK(TurnAppended(NewChat("live"), 1, "none"))
  <2> DEFINE mid == Appended(NewChat("live"), Question(1), 0)
  <2>1. ChatOK(mid)
    BY <1>1, NewMessages, AppendedKeeps DEF MarkFits
  <2>2. MarkFits(mid, 0) /\ Answer(1, "none") \in Msgs({1}, {"none"})
    BY NewMessages DEF MarkFits
  <2>3. TurnAppended(NewChat("live"), 1, "none") = Appended(mid, Answer(1, "none"), 0)
    BY DEF TurnAppended
  <2> HIDE DEF mid
  <2> QED
    BY <2>1, <2>2, <2>3, AppendedKeeps
<1> QED
  BY <1>1, <1>2 DEF ChatsOK

-----------------------------------------------------------------------------
(* A late answer keeps newer messages, for any number of pages, chats and      *)
(* turns: what disappears from a chat that is still there was found by the     *)
(* regeneration whose answer arrives, or is the confirmation the answer        *)
(* settles (appendToChat() and beginRegenerate() of ChatStore).                *)
THEOREM LateAnswersKeepNewer == Spec => LateAnswerKeepsNewer
<1>1. Init => ChatsOK
  BY InitiallyOK
<1>2. ChatsOK /\ [Next]_vars => ChatsOK'
  BY StepKeeps
<1>3. ChatsOK /\ [Next]_vars =>
        [\A c \in Chats : chats'[c].state = "live" =>
           \A i \in DOMAIN chats[c].msgs :
              LET m == chats[c].msgs[i]
              IN  \/ m \in ToSet(chats'[c].msgs) \/ Unresolved(m)
                  \/ m \in ToSet(chats[c].mark.had)]_vars
  BY StepKeeps DEF Kept, KeptIn
<1> QED
  BY <1>1, <1>2, <1>3, PTL DEF Spec, LateAnswerKeepsNewer

-----------------------------------------------------------------------------
(* Types.  A chat with its marker, and what a request brings back. *)
MarkType == [index : Nat, rev : Nat, base : Nat, had : Seq(Message)]
ChatType == [state : {"unborn", "live", "deleted"}, msgs : Seq(Message), rev : Nat, mark : MarkType]

ServerTyped ==
    /\ chats \in [Chats -> ChatType]
    /\ asked \in 0..MaxTurns /\ losses \in 0..MaxLosses /\ edits \in 0..MaxEdits
    /\ jobs \subseteq Chats \X Turns /\ ran \in [(Chats \cup {NoChat}) \X Turns -> Nat]

(* A message of this role and turn was stored, in some chat. *)
Told(role, q, W) == \E c \in Chats : <<role, c, q>> \in W

(* The history knows what the chats hold. *)
AllTold(W) ==
    \A c \in Chats : \A i \in DOMAIN chats[c].msgs :
        <<chats[c].msgs[i].role, c, chats[c].msgs[i].turn>> \in W

(* A request is of its type, an answer that is sent has its question stored   *)
(* unless it is the outcome of a confirmation, and what comes back is stored. *)
CallOK(call, W) ==
    /\ call \in Call
    /\ call.op \in {"turn", "question", "answer", "confirm", "handover"} => call.turn \in Turns
    /\ call.op = "answer" /\ call.conf # "done" => Told("user", call.turn, W)
    /\ call.op = "question" /\ call.state = "ok" => Told("user", call.turn, W)
    /\ call.op \in {"turn", "answer"} /\ call.state = "ok" => Told("assistant", call.turn, W)
    /\ call.op = "load" /\ call.state = "ok" =>
          \A i \in DOMAIN call.got.msgs : Told(call.got.msgs[i].role, call.got.msgs[i].turn, W)
    /\ call.op = "regenerate" /\ call.state = "ok" =>
          Len(call.got.msgs) = 1 /\ Told("user", call.got.msgs[1].turn, W)

(* The bubble that is being filled is there, below a question; a page that     *)
(* regenerates streams the answer to a question that is stored.               *)
PageOK(page, W) ==
    /\ page \in AppPage
    /\ Sending(page) => /\ page.slot \in DOMAIN page.shown
                        /\ \E i \in DOMAIN page.shown : page.shown[i].role = "user"
    /\ page.phase \in {"creating", "streaming"} =>
          Current(page).role = "assistant" /\ ~Current(page).done /\ Current(page).conf = "none"
    /\ page.phase = "creating" => page.how \in {"send", "stopped"} /\ ~Current(page).text
    /\ page.phase = "streaming" => page.how \in {"send", "regenerate"}
    /\ page.phase = "streaming" /\ page.how = "regenerate" /\ (page.token # 0 \/ Current(page).text)
          => Told("user", Turn(page), W)

CallsOK(W) == \A call \in calls : CallOK(call, W)
AppOK(W) == app \in [AppPages -> AppPage] /\ \A p \in AppPages : PageOK(app[p], W)
AloneOK == alone \in [StandalonePages -> StandalonePage]

PagesOK == ServerTyped /\ AllTold(written) /\ CallsOK(written) /\ AppOK(written) /\ AloneOK

(* The history only grows. *)
LEMMA ToldStays ==
    ASSUME NEW V, NEW W, V \subseteq W
    PROVE  /\ \A role, q : Told(role, q, V) => Told(role, q, W)
           /\ \A call : CallOK(call, V) => CallOK(call, W)
           /\ \A page : PageOK(page, V) => PageOK(page, W)
<1>1. \A role, q : Told(role, q, V) => Told(role, q, W)
  BY DEF Told
<1>2. \A call : CallOK(call, V) => CallOK(call, W)
  BY <1>1 DEF CallOK
<1>3. \A page : PageOK(page, V) => PageOK(page, W)
  BY <1>1 DEF PageOK
<1> QED
  BY <1>1, <1>2, <1>3

-----------------------------------------------------------------------------
(* The chats: what the operations of ChatServer return. *)
LEMMA PlacedTyped ==
    ASSUME NEW s \in Seq(Message), NEW m \in Message
    PROVE  /\ Placed(s, m) \in Seq(Message)
           /\ \E i \in DOMAIN Placed(s, m) : Placed(s, m)[i] = m
           /\ \A i \in DOMAIN Placed(s, m) : Placed(s, m)[i] = m \/ \E j \in DOMAIN s : Placed(s, m)[i] = s[j]
<1> DEFINE open == {i \in DOMAIN s : Unresolved(s[i])}
           last == CHOOSE i \in open : \A j \in open : j <= i
<1>1. DOMAIN s = 1..Len(s) /\ Len(s) \in Nat
  BY LenProperties
<1>2. CASE m.role = "assistant" /\ open # {}
  <2>1. last \in open
    BY <1>1, <1>2, LastPosition
  <2>2. Placed(s, m) = [s EXCEPT ![last] = m]
    BY <1>2 DEF Placed
  <2> HIDE DEF last
  <2>3. Placed(s, m) \in Seq(Message)
    BY <1>1, <2>1, <2>2, ExceptSeq
  <2> QED
    BY <2>1, <2>2, <2>3
<1>3. CASE ~(m.role = "assistant" /\ open # {})
  <2>1. Placed(s, m) = Append(s, m)
    BY <1>3 DEF Placed
  <2>2. Placed(s, m) \in Seq(Message)
    BY <2>1, AppendProperties
  <2>3. DOMAIN Placed(s, m) = 1..Len(s) + 1
    BY <1>1, <2>1, <2>2, AppendProperties, LenProperties
  <2>4. Placed(s, m)[Len(s) + 1] = m /\ \A i \in 1..Len(s) : Placed(s, m)[i] = s[i]
    BY <1>1, <2>1, AppendProperties
  <2> QED
    BY <1>1, <2>2, <2>3, <2>4
<1> QED
  BY <1>2, <1>3

LEMMA AppendedTyped ==
    ASSUME NEW chat \in ChatType, NEW m \in Message, NEW r \in Nat
    PROVE  /\ Appended(chat, m, r) \in ChatType
           /\ Appended(chat, m, r).state = chat.state
           /\ \E i \in DOMAIN Appended(chat, m, r).msgs : Appended(chat, m, r).msgs[i] = m
           /\ \A i \in DOMAIN Appended(chat, m, r).msgs :
                 \/ Appended(chat, m, r).msgs[i] = m
                 \/ \E j \in DOMAIN chat.msgs : Appended(chat, m, r).msgs[i] = chat.msgs[j]
<1> DEFINE cut == CutAt(chat, r)
<1>1. cut \in Seq(Message) /\ \A i \in DOMAIN cut : i \in DOMAIN chat.msgs /\ cut[i] = chat.msgs[i]
  <2>1. CASE cut = chat.msgs
    BY <2>1 DEF ChatType
  <2>2. CASE cut # chat.msgs
    <3>1. cut = SubSeq(chat.msgs, 1, chat.mark.index) /\ chat.mark.index <= Len(chat.msgs)
      BY <2>2 DEF CutAt
    <3>2. chat.msgs \in Seq(Message) /\ chat.mark.index \in Nat
      BY DEF ChatType, MarkType
    <3>3. DOMAIN chat.msgs = 1..Len(chat.msgs) /\ Len(chat.msgs) \in Nat
      BY <3>2, LenProperties
    <3> DEFINE n == chat.mark.index
    <3>4. \A i \in 1..n : chat.msgs[i] \in Message
      BY <3>1, <3>2, <3>3, ElementOfSeq
    <3>5. /\ SubSeq(chat.msgs, 1, n) \in Seq(Message)
          /\ Len(SubSeq(chat.msgs, 1, n)) = n
          /\ \A i \in 1..n : SubSeq(chat.msgs, 1, n)[i] = chat.msgs[i]
      BY <3>2, <3>4, SubSeqProperties
    <3>6. DOMAIN cut = 1..n
      BY <3>1, <3>5, LenProperties
    <3> QED
      BY <3>1, <3>2, <3>3, <3>5, <3>6
  <2> QED
    BY <2>1, <2>2
<1>2. /\ Placed(cut, m) \in Seq(Message)
      /\ \E i \in DOMAIN Placed(cut, m) : Placed(cut, m)[i] = m
      /\ \A i \in DOMAIN Placed(cut, m) : Placed(cut, m)[i] = m \/ \E j \in DOMAIN cut : Placed(cut, m)[i] = cut[j]
  <2> HIDE DEF cut
  <2> QED
    BY <1>1, PlacedTyped
<1>3. /\ Appended(chat, m, r).msgs = Placed(cut, m)
      /\ Appended(chat, m, r) = [state |-> chat.state, msgs |-> Placed(cut, m), rev |-> chat.rev + 1, mark |-> NoMark]
  <2> HIDE DEF cut
  <2>1. Appended(chat, m, r) = [chat EXCEPT !.msgs = Placed(cut, m), !.rev = @ + 1, !.mark = NoMark]
    BY DEF Appended, cut
  <2> QED
    BY <2>1 DEF ChatType
<1>4. NoMark \in MarkType
  BY EmptySeq DEF NoMark, MarkType
<1>5. Appended(chat, m, r) \in ChatType /\ Appended(chat, m, r).state = chat.state
  <2> HIDE DEF cut
  <2> QED
    BY <1>2, <1>3, <1>4 DEF ChatType
<1> HIDE DEF cut
<1>6. \A i \in DOMAIN Placed(cut, m) :
        Placed(cut, m)[i] = m \/ \E j \in DOMAIN chat.msgs : Placed(cut, m)[i] = chat.msgs[j]
  BY <1>1, <1>2
<1> QED
  BY <1>2, <1>3, <1>5, <1>6

LEMMA MessagesTyped ==
    ASSUME NEW q \in Turns, NEW k \in Confirmations
    PROVE  Question(q) \in Message /\ Answer(q, k) \in Message
BY DEF Question, Answer, Message, Confirmations

LEMMA ChatsTyped ==
    /\ \A state \in {"unborn", "live", "deleted"} : NewChat(state) \in ChatType /\ NewChat(state).msgs = <<>>
    /\ \A chat \in ChatType : \A q : Claimed(chat, q) \in ChatType
    /\ \A chat \in ChatType : \A i \in DOMAIN chat.msgs : Begun(chat, i) \in ChatType
<1>1. NoMark \in MarkType /\ <<>> \in Seq(Message)
  BY EmptySeq DEF NoMark, MarkType
<1>2. ASSUME NEW chat \in ChatType, NEW q
      PROVE  Claimed(chat, q) \in ChatType
  <2> DEFINE next == [i \in DOMAIN chat.msgs |->
                        IF i \in Tokens(chat, q) /\ chat.msgs[i].conf = "open"
                        THEN [chat.msgs[i] EXCEPT !.conf = "claimed"] ELSE chat.msgs[i]]
  <2>1. chat.msgs \in Seq(Message)
    BY DEF ChatType
  <2>2. DOMAIN chat.msgs = 1..Len(chat.msgs) /\ Len(chat.msgs) \in Nat
    BY <2>1, LenProperties
  <2>3. \A i \in 1..Len(chat.msgs) : chat.msgs[i] \in Message
    BY <2>1, <2>2, ElementOfSeq
  <2>4. \A m \in Message : [m EXCEPT !.conf = "claimed"] \in Message
    BY DEF Message, Confirmations
  <2>5. next \in [1..Len(chat.msgs) -> Message]
    BY <2>2, <2>3, <2>4
  <2>6. next \in Seq(Message)
    <3> HIDE DEF next
    <3> QED
      BY <2>2, <2>5, SeqDef
  <2>7. Claimed(chat, q) = [chat EXCEPT !.msgs = next]
    BY DEF Claimed, ChatType
  <2> HIDE DEF next
  <2> QED
    BY <2>6, <2>7 DEF ChatType
<1>3. ASSUME NEW chat \in ChatType, NEW i \in DOMAIN chat.msgs
      PROVE  Begun(chat, i) \in ChatType
  <2>1. chat.msgs \in Seq(Message) /\ chat.rev \in Nat
    BY DEF ChatType
  <2>2. i \in Nat
    BY <2>1, LenProperties
  <2>3. (IF chat.mark # NoMark THEN chat.mark.base ELSE chat.rev) \in Nat
    BY <2>1 DEF ChatType, MarkType
  <2>4. [index |-> i, rev |-> chat.rev + 1, had |-> chat.msgs,
         base |-> IF chat.mark # NoMark THEN chat.mark.base ELSE chat.rev] \in MarkType
    BY <2>1, <2>2, <2>3 DEF MarkType
  <2> DEFINE mark == [index |-> i, rev |-> chat.rev + 1, had |-> chat.msgs,
                      base |-> IF chat.mark # NoMark THEN chat.mark.base ELSE chat.rev]
  <2>5. Begun(chat, i) = [chat EXCEPT !.rev = @ + 1, !.mark = mark]
    BY DEF Begun
  <2> HIDE DEF mark
  <2>6. mark \in MarkType
    BY <2>4 DEF mark
  <2>7. Begun(chat, i) = [state |-> chat.state, msgs |-> chat.msgs, rev |-> chat.rev + 1, mark |-> mark]
    BY <2>5 DEF ChatType
  <2>8. chat.state \in {"unborn", "live", "deleted"} /\ chat.rev + 1 \in Nat
    BY <2>1 DEF ChatType
  <2> QED
    BY <2>1, <2>6, <2>7, <2>8 DEF ChatType
<1> QED
  BY <1>1, <1>2, <1>3 DEF NewChat, ChatType

-----------------------------------------------------------------------------
(* The server. *)
Got == [chat : Chats \cup {NoChat}, rev : Nat, msgs : Seq(Message), listed : SUBSET Chats]

LEMMA NothingTyped == Nothing \in Got
BY EmptySeq DEF Nothing, Got

(* A request that is answered, refused or given up stays a request. *)
Answered(call, state, got) == [call EXCEPT !.state = state, !.got = got]

States == {"sent", "ok", "refused", "orphan"}

LEMMA AnsweredTyped ==
    ASSUME NEW call \in Call, NEW state \in States, NEW got \in Got
    PROVE  /\ Answered(call, state, got) \in Call
           /\ Answered(call, state, got).page = call.page
           /\ Answered(call, state, got).op = call.op
           /\ Answered(call, state, got).chat = call.chat
           /\ Answered(call, state, got).turn = call.turn
           /\ Answered(call, state, got).conf = call.conf
           /\ Answered(call, state, got).rev = call.rev
           /\ Answered(call, state, got).index = call.index
           /\ Answered(call, state, got).next = call.next
           /\ Answered(call, state, got).state = state
           /\ Answered(call, state, got).got = got
BY DEF Call, Got, Answered, States

(* A request that is lost or given up keeps what it brought back. *)
LEMMA StateAlone ==
    ASSUME NEW call \in Call, NEW state
    PROVE  /\ [call EXCEPT !.state = state] = Answered(call, state, call.got)
           /\ call.got \in Got
BY DEF Call, Got, Answered

LEMMA NotOkStaysOK ==
    ASSUME NEW W, NEW call, CallOK(call, W), NEW state \in {"sent", "refused", "orphan"}, NEW got \in Got
    PROVE  CallOK(Answered(call, state, got), W)
<1>1. call \in Call
  BY DEF CallOK
<1> DEFINE after == Answered(call, state, got)
<1>2. state \in States
  BY DEF States
<1>3. after \in Call /\ after.op = call.op /\ after.turn = call.turn /\ after.conf = call.conf /\ after.state = state
  BY <1>1, <1>2, AnsweredTyped
<1> HIDE DEF after
<1>4. CallOK(after, W)
  BY <1>3 DEF CallOK
<1> QED
  BY <1>4 DEF after

LEMMA ReplyKeeps ==
    ASSUME NEW W, CallsOK(W), NEW call \in calls, NEW state, NEW got, Reply(call, state, got),
           CallOK(Answered(call, state, got), W)
    PROVE  \A x \in calls' : CallOK(x, W)
BY DEF Reply, CallsOK, Answered

LEMMA RefuseKeeps ==
    ASSUME PagesOK, NEW call \in calls, Reply(call, "refused", Nothing),
           UNCHANGED <<chats, asked, jobs, ran, losses, written, edits>>
    PROVE  ServerTyped' /\ AllTold(written)' /\ CallsOK(written)'
<1>1. CallOK(Answered(call, "refused", Nothing), written)
  BY NothingTyped, NotOkStaysOK DEF PagesOK, CallsOK
<1>2. \A x \in calls' : CallOK(x, written)
  BY <1>1, ReplyKeeps DEF PagesOK
<1> QED
  BY <1>2 DEF PagesOK, ServerTyped, AllTold, CallsOK

(* A write notes what the chat then holds. *)
LEMMA NotedTells ==
    ASSUME NEW c, NEW old, NEW new, NEW i \in DOMAIN new.msgs
    PROVE  <<new.msgs[i].role, c, new.msgs[i].turn>> \in Noted(c, old, new)
BY DEF Noted, ToSet

LEMMA ChatWritten ==
    ASSUME PagesOK, NEW c \in Chats, NEW chat \in ChatType,
           chats' = [chats EXCEPT ![c] = chat],
           written' = written \cup Noted(c, chats[c], chat)
    PROVE  /\ chats' \in [Chats -> ChatType]
           /\ AllTold(written)'
           /\ written \subseteq written'
           /\ \A i \in DOMAIN chat.msgs : Told(chat.msgs[i].role, chat.msgs[i].turn, written')
<1>1. chats' \in [Chats -> ChatType] /\ chats'[c] = chat /\ \A d \in Chats : d # c => chats'[d] = chats[d]
  BY DEF PagesOK, ServerTyped
<1>2. \A i \in DOMAIN chat.msgs : <<chat.msgs[i].role, c, chat.msgs[i].turn>> \in written'
  BY NotedTells
<1>3. \A d \in Chats : \A i \in DOMAIN chats'[d].msgs :
        <<chats'[d].msgs[i].role, d, chats'[d].msgs[i].turn>> \in written'
  BY <1>1, <1>2 DEF PagesOK, AllTold
<1> QED
  BY <1>1, <1>2, <1>3 DEF AllTold, Told

(* A write that a request makes; tells is what its answer claims. *)
LEMMA StoreKeeps ==
    ASSUME PagesOK, NEW call \in calls, call.op \notin {"load", "regenerate"}, Live(call.chat),
           NEW chat \in ChatType, Store(call, chat),
           call.op = "question" => \E i \in DOMAIN chat.msgs : chat.msgs[i].role = "user" /\ chat.msgs[i].turn = call.turn,
           call.op \in {"turn", "answer"} =>
                \E i \in DOMAIN chat.msgs : chat.msgs[i].role = "assistant" /\ chat.msgs[i].turn = call.turn
    PROVE  chats' \in [Chats -> ChatType] /\ AllTold(written)' /\ CallsOK(written)' /\ UNCHANGED <<asked, losses>>
<1> DEFINE got == [Nothing EXCEPT !.chat = call.chat, !.rev = chat.rev]
           after == Answered(call, "ok", got)
<1>1. call.chat \in Chats
  BY DEF Live
<1>2. /\ chats' \in [Chats -> ChatType] /\ AllTold(written)' /\ written \subseteq written'
      /\ \A i \in DOMAIN chat.msgs : Told(chat.msgs[i].role, chat.msgs[i].turn, written')
  BY <1>1, ChatWritten DEF Store
<1>3. CallOK(call, written') /\ CallsOK(written') /\ call \in Call
  BY <1>2, ToldStays DEF PagesOK, CallsOK, CallOK
<1>4. got \in Got
  BY <1>1, EmptySeq DEF Nothing, Got, ChatType
<1> HIDE DEF got
<1>5. after \in Call /\ after.op = call.op /\ after.turn = call.turn /\ after.conf = call.conf /\ after.state = "ok"
  BY <1>3, <1>4, AnsweredTyped DEF States
<1> HIDE DEF after
<1>6. CallOK(after, written')
  BY <1>2, <1>3, <1>5 DEF CallOK
<1>7. \A x \in calls' : CallOK(x, written')
  BY <1>3, <1>6, ReplyKeeps DEF Store, got, after
<1> QED
  BY <1>2, <1>7 DEF CallsOK, Store

(* Each request. *)
ServerOK == ServerTyped /\ AllTold(written) /\ CallsOK(written) 

LEMMA ReadKeeps ==
    ASSUME PagesOK, NEW call \in calls, UNCHANGED edits,
           ServeLoad(call) \/ ServeList(call)
    PROVE  ServerOK' /\ written \subseteq written'
<1>1. UNCHANGED <<chats, asked, jobs, ran, losses, written>>
  BY DEF ServeLoad, ServeList
<1>2. call \in Call /\ CallOK(call, written)
  BY DEF PagesOK, CallsOK, CallOK
<1>3. ASSUME NEW state \in {"ok", "refused"}, NEW got, Reply(call, state, got),
             CallOK(Answered(call, state, got), written)
      PROVE  ServerOK' /\ written \subseteq written'
  <2>1. \A x \in calls' : CallOK(x, written)
    BY <1>3, ReplyKeeps DEF PagesOK
  <2> QED
    BY <1>1, <2>1 DEF PagesOK, ServerOK, ServerTyped, AllTold, CallsOK
<1>4. CallOK(Answered(call, "refused", Nothing), written)
  BY <1>2, NothingTyped, NotOkStaysOK
<1>5. CASE ServeLoad(call) /\ Live(call.chat)
  <2> DEFINE c == call.chat
             got == [chat |-> c, rev |-> chats[c].rev, msgs |-> chats[c].msgs, listed |-> {}]
  <2>1. c \in Chats /\ chats[c] \in ChatType
    BY <1>5 DEF Live, PagesOK, ServerTyped
  <2>2. got \in Got
    BY <2>1 DEF Got, ChatType
  <2>3. Answered(call, "ok", got) \in Call /\ Answered(call, "ok", got).op = "load"
        /\ Answered(call, "ok", got).state = "ok" /\ Answered(call, "ok", got).got = got
    <3>1. call.op = "load" /\ "ok" \in States
      BY <1>5 DEF ServeLoad, States
    <3> HIDE DEF got
    <3> QED
      BY <1>2, <2>2, <3>1, AnsweredTyped
  <2>4. \A i \in DOMAIN got.msgs : Told(got.msgs[i].role, got.msgs[i].turn, written)
    BY <2>1 DEF Told, PagesOK, AllTold
  <2>5. Reply(call, "ok", got)
    BY <1>5 DEF ServeLoad
  <2> HIDE DEF got
  <2>6. CallOK(Answered(call, "ok", got), written)
    BY <2>3, <2>4 DEF CallOK
  <2> QED
    BY <1>3, <2>5, <2>6
<1>6. CASE ServeLoad(call) /\ ~Live(call.chat)
  BY <1>3, <1>4, <1>6 DEF ServeLoad
<1>7. CASE ServeList(call)
  <2> DEFINE got == [Nothing EXCEPT !.listed = {c \in Chats : Live(c)}]
  <2>1. got \in Got
    BY EmptySeq DEF Got, Nothing
  <2>2. Reply(call, "ok", got)
    BY <1>7 DEF ServeList
  <2> HIDE DEF got
  <2>3. Answered(call, "ok", got) \in Call /\ Answered(call, "ok", got).op = "list"
    BY ZenonT(60), <1>2, <1>7, <2>1, AnsweredTyped DEF ServeList, States
  <2>4. CallOK(Answered(call, "ok", got), written)
    BY <2>3 DEF CallOK
  <2> QED
    BY <1>3, <2>2, <2>4
<1> QED
  BY <1>5, <1>6, <1>7

LEMMA CreateKeeps ==
    ASSUME PagesOK, NEW call \in calls, UNCHANGED edits, ServeCreate(call)
    PROVE  ServerOK' /\ written \subseteq written'
<1>1. CASE Refuse(call)
  BY <1>1, RefuseKeeps DEF Refuse, ServerOK
<1>2. CASE ~Refuse(call)
  <2>1. PICK c \in Chats :
            /\ chats' = [chats EXCEPT ![c] = [chats[c] EXCEPT !.state = "live"]]
            /\ Reply(call, "ok", [Nothing EXCEPT !.chat = c, !.rev = [chats[c] EXCEPT !.state = "live"].rev])
            /\ UNCHANGED <<asked, jobs, ran, losses, written>>
    BY <1>2 DEF ServeCreate
  <2> DEFINE got == [Nothing EXCEPT !.chat = c, !.rev = [chats[c] EXCEPT !.state = "live"].rev]
  <2>2. chats[c] \in ChatType
    BY DEF PagesOK, ServerTyped
  <2>3. /\ [chats[c] EXCEPT !.state = "live"] \in ChatType
        /\ [chats[c] EXCEPT !.state = "live"].msgs = chats[c].msgs
        /\ [chats[c] EXCEPT !.state = "live"].rev \in Nat
    BY <2>2 DEF ChatType
  <2>4. got \in Got
    BY <2>3, EmptySeq DEF Got, Nothing
  <2> HIDE DEF got
  <2>5. Answered(call, "ok", got) \in Call /\ Answered(call, "ok", got).op = "create"
    <3>1. call \in Call /\ call.op = "create" /\ "ok" \in States
      BY DEF ServeCreate, States, PagesOK, CallsOK, CallOK
    <3> QED
      BY <2>4, <3>1, AnsweredTyped
  <2>6. CallOK(Answered(call, "ok", got), written)
    BY <2>5 DEF CallOK
  <2>7. \A x \in calls' : CallOK(x, written)
    BY <2>1, <2>6, ReplyKeeps DEF PagesOK, got
  <2>8. chats' \in [Chats -> ChatType] /\ \A d \in Chats : chats'[d].msgs = chats[d].msgs
    BY <2>1, <2>3 DEF PagesOK, ServerTyped
  <2>9. AllTold(written)'
    BY <2>1, <2>8 DEF PagesOK, AllTold
  <2>10. ServerTyped'
    BY <2>1, <2>8 DEF PagesOK, ServerTyped
  <2>11. CallsOK(written)'
    BY <2>1, <2>7 DEF CallsOK
  <2> QED
    BY <2>1, <2>9, <2>10, <2>11 DEF ServerOK
<1> QED
  BY <1>1, <1>2

(* The requests that write a chat. *)
LEMMA WritesKeep ==
    ASSUME PagesOK, NEW call \in calls, UNCHANGED edits,
           ServeDelete(call) \/ ServeTurn(call) \/ ServeMessage(call) \/ ServeHandover(call) \/ ServeMeta(call)
    PROVE  ServerOK' /\ written \subseteq written'
<1> DEFINE c == call.chat
<1>1. CASE Refuse(call)
  BY <1>1, RefuseKeeps DEF Refuse, ServerOK
<1>2. ASSUME NEW chat \in ChatType, Live(c), Store(call, chat), call.op \notin {"load", "regenerate"},
             call.op = "question" => \E i \in DOMAIN chat.msgs : chat.msgs[i].role = "user" /\ chat.msgs[i].turn = call.turn,
             call.op \in {"turn", "answer"} =>
                  \E i \in DOMAIN chat.msgs : chat.msgs[i].role = "assistant" /\ chat.msgs[i].turn = call.turn,
             jobs' \subseteq Chats \X Turns, UNCHANGED ran
      PROVE  ServerOK' /\ written \subseteq written'
  <2>1. chats' \in [Chats -> ChatType] /\ AllTold(written)' /\ CallsOK(written)' /\ UNCHANGED <<asked, losses>>
    BY <1>2, StoreKeeps
  <2>2. ServerTyped'
    BY <1>2, <2>1 DEF PagesOK, ServerTyped
  <2> QED
    BY <1>2, <2>1, <2>2 DEF ServerOK, Store
<1>3. /\ call \in Call /\ (call.op \in {"turn", "question", "answer", "handover"} => call.turn \in Turns)
      /\ call.conf \in Confirmations /\ call.rev \in Nat
      /\ jobs \subseteq Chats \X Turns
      /\ (Live(c) => c \in Chats /\ chats[c] \in ChatType)
  BY DEF PagesOK, CallsOK, CallOK, Call, Live, ServerTyped
<1>4. CASE ServeDelete(call) /\ Live(c)
  BY <1>2, <1>3, <1>4, ChatsTyped DEF ServeDelete
<1>5. CASE ServeTurn(call) /\ ~Refuse(call)
  <2> DEFINE q == call.turn
             mid == Appended(chats[c], Question(q), 0)
             end == Appended(mid, Answer(q, call.conf), 0)
  <2>1. Live(c) /\ Store(call, end) /\ UNCHANGED <<jobs, ran>> /\ call.op = "turn"
    BY <1>5 DEF ServeTurn, TurnAppended
  <2>2. "none" \in Confirmations /\ q \in Turns
    BY <1>3, <2>1 DEF Confirmations
  <2>3. mid \in ChatType
    BY <1>3, <2>1, <2>2, MessagesTyped, AppendedTyped
  <2> HIDE DEF mid
  <2>4. end \in ChatType /\ \E i \in DOMAIN end.msgs : end.msgs[i] = Answer(q, call.conf)
    <3>1. Answer(q, call.conf) \in Message
      BY <1>3, <2>2, MessagesTyped
    <3> QED
      BY <2>3, <3>1, AppendedTyped
  <2>5. \E i \in DOMAIN end.msgs : end.msgs[i].role = "assistant" /\ end.msgs[i].turn = q
    BY <2>4 DEF Answer
  <2> HIDE DEF end
  <2> QED
    BY <1>2, <1>3, <2>1, <2>4, <2>5
<1>6. CASE ServeMessage(call) /\ ~Refuse(call)
  <2> DEFINE q == call.turn
             m == IF call.op = "question" THEN Question(q) ELSE Answer(q, call.conf)
             end == Appended(chats[c], m, call.rev)
  <2>1. Live(c) /\ Store(call, end) /\ UNCHANGED <<jobs, ran>> /\ call.op \in {"question", "answer"}
    BY <1>6 DEF ServeMessage
  <2>2. "none" \in Confirmations /\ q \in Turns
    BY <1>3, <2>1 DEF Confirmations
  <2>3. m \in Message /\ m.turn = q /\ m.role = IF call.op = "question" THEN "user" ELSE "assistant"
    BY <1>3, <2>2, MessagesTyped DEF Question, Answer
  <2> HIDE DEF m
  <2>4. end \in ChatType /\ \E i \in DOMAIN end.msgs : end.msgs[i] = m
    BY <1>3, <2>1, <2>3, AppendedTyped
  <2> HIDE DEF end
  <2> QED
    BY <1>2, <1>3, <2>1, <2>3, <2>4
<1>7. CASE ServeHandover(call) /\ Live(c)
  <2> DEFINE q == call.turn
             end == HandedOver(chats[c], q)
  <2>1. Store(call, end) /\ jobs' = jobs \cup {<<c, q>>} /\ UNCHANGED ran /\ call.op = "handover"
    BY <1>7 DEF ServeHandover
  <2>2. "none" \in Confirmations /\ q \in Turns
    BY <1>3, <2>1 DEF Confirmations
  <2>3. end \in ChatType
    <3>1. Appended(chats[c], Question(q), 0) \in ChatType
      BY <1>3, <1>7, <2>2, MessagesTyped, AppendedTyped
    <3> QED
      BY <1>3, <1>7, <3>1 DEF HandedOver
  <2>4. jobs' \subseteq Chats \X Turns
    BY <1>3, <1>7, <2>1, <2>2
  <2> HIDE DEF end
  <2> QED
    BY <1>2, <1>7, <2>1, <2>3, <2>4
<1>8. CASE ServeMeta(call) /\ Live(c)
  <2>1. [chats[c] EXCEPT !.rev = @ + 1] \in ChatType
    BY <1>3, <1>8 DEF ChatType
  <2> QED
    BY <1>2, <1>3, <1>8, <2>1 DEF ServeMeta
<1>9. CASE (ServeDelete(call) \/ ServeHandover(call) \/ ServeMeta(call)) /\ ~Live(c)
  BY <1>1, <1>9 DEF ServeDelete, ServeHandover, ServeMeta
<1> QED
  BY <1>1, <1>4, <1>5, <1>6, <1>7, <1>8, <1>9

LEMMA RegenerationKeeps ==
    ASSUME PagesOK, NEW call \in calls, UNCHANGED edits, ServeRegenerate(call)
    PROVE  ServerOK' /\ written \subseteq written'
<1> DEFINE c == call.chat
           i == call.index
<1>1. CASE Refuse(call)
  BY <1>1, RefuseKeeps DEF Refuse, ServerOK
<1>2. CASE ~Refuse(call)
  <2> DEFINE chat == Begun(chats[c], i)
             got == [Nothing EXCEPT !.chat = c, !.rev = chat.rev, !.msgs = <<chats[c].msgs[i]>>]
  <2>1. c \in Chats /\ i \in DOMAIN chats[c].msgs /\ chats[c].msgs[i].role = "user" /\ call.op = "regenerate"
    BY <1>2 DEF ServeRegenerate, Live, MayBegin
  <2>2. chats' = [chats EXCEPT ![c] = chat] /\ UNCHANGED <<asked, jobs, ran, losses, written>>
    BY <1>2 DEF ServeRegenerate
  <2>3. chat.msgs = chats[c].msgs /\ chats[c] \in ChatType /\ chat \in ChatType
    <3>1. chats[c] \in ChatType
      BY <2>1 DEF PagesOK, ServerTyped
    <3>2. chat \in ChatType
      BY <2>1, <3>1, ChatsTyped
    <3>3. chat.msgs = chats[c].msgs
      BY <3>1 DEF Begun, ChatType
    <3> QED
      BY <3>1, <3>2, <3>3
  <2>4. Reply(call, "ok", got)
    BY <1>2, <2>3 DEF ServeRegenerate
  <2>5. chats[c].msgs[i] \in Message /\ chats[c].msgs \in Seq(Message) /\ chat.rev \in Nat
    <3>1. chats[c].msgs \in Seq(Message) /\ chat.rev \in Nat
      BY <2>3 DEF ChatType
    <3> QED
      BY <2>1, <3>1, LenProperties, ElementOfSeq
  <2>6. <<chats[c].msgs[i]>> \in Seq(Message) /\ Len(<<chats[c].msgs[i]>>) = 1
    BY <2>5
  <2>7. got \in Got /\ got.msgs = <<chats[c].msgs[i]>>
    BY <2>1, <2>5, <2>6 DEF Got, Nothing
  <2>8. Told("user", got.msgs[1].turn, written)
    BY <2>1, <2>7 DEF Told, PagesOK, AllTold
  <2> HIDE DEF got, chat
  <2>9. /\ Answered(call, "ok", got) \in Call /\ Answered(call, "ok", got).op = "regenerate"
        /\ Answered(call, "ok", got).got = got
    <3>1. call \in Call /\ call.op = "regenerate"
      BY <2>1 DEF PagesOK, CallsOK, CallOK
    <3>2. "ok" \in States /\ got \in Got
      BY <2>7 DEF States
    <3> QED
      BY <3>1, <3>2, AnsweredTyped
  <2>10. CallOK(Answered(call, "ok", got), written)
    BY <2>6, <2>7, <2>8, <2>9 DEF CallOK
  <2>11. \A x \in calls' : CallOK(x, written)
    BY <2>4, <2>10, ReplyKeeps DEF PagesOK
  <2>12. chats' \in [Chats -> ChatType] /\ \A d \in Chats : chats'[d].msgs = chats[d].msgs
    BY <2>1, <2>2, <2>3 DEF PagesOK, ServerTyped
  <2> QED
    BY <2>2, <2>11, <2>12 DEF PagesOK, ServerOK, ServerTyped, AllTold, CallsOK
<1> QED
  BY <1>1, <1>2

LEMMA ConfirmKeeps ==
    ASSUME PagesOK, NEW call \in calls, UNCHANGED edits, ServeConfirm(call)
    PROVE  ServerOK' /\ written \subseteq written'
<1>1. CASE Refuse(call)
  BY <1>1, RefuseKeeps DEF Refuse, ServerOK
<1>2. CASE ~Refuse(call)
  <2>1. /\ chats' = chats \/ (Live(call.chat) /\ chats' = [chats EXCEPT ![call.chat] = Claimed(@, call.turn)])
        /\ ran' = [ran EXCEPT ![<<call.chat, call.turn>>] = @ + call.index]
        /\ Reply(call, "ok", Nothing)
        /\ UNCHANGED <<asked, jobs, losses, written>>
        /\ call.op = "confirm"
    <3>1. PICK claim \in {"none", "ok", "already"} :
             /\ claim = IF Live(call.chat) /\ call.index # 0 THEN Claim(chats[call.chat], call.turn) ELSE "none"
             /\ IF claim = "already" THEN Refuse(call)
                ELSE /\ chats' = IF claim = "ok" THEN [chats EXCEPT ![call.chat] = Claimed(@, call.turn)] ELSE chats
                     /\ ran' = [ran EXCEPT ![<<call.chat, call.turn>>] = @ + call.index]
                     /\ Reply(call, "ok", Nothing)
                     /\ UNCHANGED <<asked, jobs, losses, written>>
      BY DEF ServeConfirm, Claim
    <3> QED
      BY <1>2, <3>1 DEF ServeConfirm
  <2>2. call \in Call /\ call.turn \in Turns /\ call.index \in Nat /\ call.chat \in Chats \cup {NoChat}
    BY <2>1 DEF PagesOK, CallsOK, CallOK, Call
  <2>3. ran' \in [(Chats \cup {NoChat}) \X Turns -> Nat]
    <3>1. ran \in [(Chats \cup {NoChat}) \X Turns -> Nat] /\ <<call.chat, call.turn>> \in (Chats \cup {NoChat}) \X Turns
      BY <2>2 DEF PagesOK, ServerTyped
    <3>2. ran[<<call.chat, call.turn>>] + call.index \in Nat
      BY <2>2, <3>1
    <3> QED
      BY <2>1, <3>1, <3>2
  <2>4. chats' \in [Chats -> ChatType] /\ AllTold(written)'
    <3>1. CASE chats' = chats
      BY <2>1, <3>1 DEF PagesOK, ServerTyped, AllTold
    <3>2. CASE chats' # chats
      <4> DEFINE c == call.chat
                 chat == Claimed(chats[c], call.turn)
      <4>1. c \in Chats /\ chats' = [chats EXCEPT ![c] = chat] /\ chats[c] \in ChatType
        BY <2>1, <3>2 DEF Live, PagesOK, ServerTyped
      <4>2. chat \in ChatType
        BY <4>1, ChatsTyped
      <4>3. /\ DOMAIN chat.msgs = DOMAIN chats[c].msgs
            /\ \A i \in DOMAIN chat.msgs : chat.msgs[i].role = chats[c].msgs[i].role /\ chat.msgs[i].turn = chats[c].msgs[i].turn
        <5>1. chat.msgs = [i \in DOMAIN chats[c].msgs |->
                  IF i \in Tokens(chats[c], call.turn) /\ chats[c].msgs[i].conf = "open"
                  THEN [chats[c].msgs[i] EXCEPT !.conf = "claimed"] ELSE chats[c].msgs[i]]
          BY <4>1 DEF Claimed, ChatType
        <5>2. \A i \in DOMAIN chats[c].msgs : chats[c].msgs[i] \in Message
          <6>1. chats[c].msgs \in Seq(Message)
            BY <4>1 DEF ChatType
          <6> QED
            BY <6>1, LenProperties, ElementOfSeq
        <5>3. \A m \in Message : [m EXCEPT !.conf = "claimed"].role = m.role /\ [m EXCEPT !.conf = "claimed"].turn = m.turn
          BY DEF Message
        <5> HIDE DEF chat
        <5> QED
          BY <5>1, <5>2, <5>3
      <4> HIDE DEF chat
      <4>4. chats' \in [Chats -> ChatType] /\ chats'[c] = chat /\ \A d \in Chats : d # c => chats'[d] = chats[d]
        BY <4>1, <4>2 DEF PagesOK, ServerTyped
      <4>5. \A d \in Chats : \A i \in DOMAIN chats'[d].msgs :
                <<chats'[d].msgs[i].role, d, chats'[d].msgs[i].turn>> \in written
        BY <4>1, <4>3, <4>4 DEF PagesOK, AllTold
      <4> QED
        BY <2>1, <4>4, <4>5 DEF AllTold
    <3> QED
      BY <3>1, <3>2
  <2>5. CallOK(Answered(call, "ok", Nothing), written)
    <3>1. "ok" \in States
      BY DEF States
    <3>2. Answered(call, "ok", Nothing) \in Call /\ Answered(call, "ok", Nothing).op = "confirm"
          /\ Answered(call, "ok", Nothing).turn \in Turns
      BY <2>1, <2>2, <3>1, NothingTyped, AnsweredTyped
    <3> QED
      BY <3>2 DEF CallOK
  <2>6. \A x \in calls' : CallOK(x, written)
    BY <2>1, <2>5, ReplyKeeps DEF PagesOK
  <2>7. ServerTyped'
    BY <2>1, <2>3, <2>4 DEF PagesOK, ServerTyped
  <2> QED
    BY <2>1, <2>4, <2>6, <2>7 DEF ServerOK, CallsOK
<1> QED
  BY <1>1, <1>2

LEMMA ServerStepKeeps ==
    ASSUME PagesOK, NEW p, NEW op, Server(p, op)
    PROVE  ServerOK' /\ written \subseteq written'
<1>1. PICK call \in calls :
        \/ ServeLoad(call) \/ ServeList(call) \/ ServeCreate(call) \/ ServeDelete(call)
        \/ ServeTurn(call) \/ ServeMessage(call) \/ ServeRegenerate(call)
        \/ ServeConfirm(call) \/ ServeHandover(call) \/ ServeMeta(call)
  BY DEF Server, Serve, Pending
<1>2. UNCHANGED edits
  BY DEF Server, Serve
<1> QED
  BY <1>1, <1>2, ReadKeeps, CreateKeeps, WritesKeep, RegenerationKeeps, ConfirmKeeps

LEMMA JobDoneKeeps ==
    ASSUME PagesOK, JobDone
    PROVE  ServerOK' /\ written \subseteq written'
<1>1. PICK job \in jobs :
        /\ jobs' = jobs \ {job}
        /\ chats' = IF Live(job[1]) THEN [chats EXCEPT ![job[1]] = Appended(@, Answer(job[2], "none"), 0)] ELSE chats
        /\ written' = written \cup Noted(job[1], chats[job[1]], chats'[job[1]])
        /\ UNCHANGED <<calls, asked, ran, losses, edits>>
  BY DEF JobDone, FinishJob
<1>2. job[1] \in Chats /\ job[2] \in Turns /\ jobs' \subseteq Chats \X Turns
  BY <1>1 DEF PagesOK, ServerTyped
<1>3. chats[job[1]] \in ChatType
  BY <1>2 DEF PagesOK, ServerTyped
<1>4. PICK chat \in ChatType :
        chats' = [chats EXCEPT ![job[1]] = chat] /\ written' = written \cup Noted(job[1], chats[job[1]], chat)
  <2>1. CASE Live(job[1])
    <3>1. Answer(job[2], "none") \in Message
      BY <1>2, MessagesTyped DEF Confirmations
    <3>2. Appended(chats[job[1]], Answer(job[2], "none"), 0) \in ChatType
      BY <1>3, <3>1, AppendedTyped
    <3>3. chats' = [chats EXCEPT ![job[1]] = Appended(chats[job[1]], Answer(job[2], "none"), 0)]
      BY <1>1, <2>1
    <3>4. chats'[job[1]] = Appended(chats[job[1]], Answer(job[2], "none"), 0)
      BY <1>2, <3>3 DEF PagesOK, ServerTyped
    <3> QED
      BY <1>1, <3>2, <3>3, <3>4
  <2>2. CASE ~Live(job[1])
    <3>1. chats' = chats /\ chats = [chats EXCEPT ![job[1]] = chats[job[1]]]
      BY <1>1, <1>2, <2>2 DEF PagesOK, ServerTyped
    <3> QED
      BY <1>1, <1>3, <3>1
  <2> QED
    BY <2>1, <2>2
<1>5. chats' \in [Chats -> ChatType] /\ AllTold(written)' /\ written \subseteq written'
  BY <1>2, <1>4, ChatWritten
<1>6. CallsOK(written)'
  BY <1>1, <1>5, ToldStays DEF PagesOK, CallsOK
<1>7. ServerTyped'
  BY <1>1, <1>2, <1>5 DEF PagesOK, ServerTyped
<1> QED
  BY <1>5, <1>6, <1>7 DEF ServerOK

LEMMA NetworkKeeps ==
    ASSUME PagesOK, Network
    PROVE  ServerOK' /\ written \subseteq written'
<1>1. UNCHANGED <<chats, asked, jobs, ran, edits, written>> /\ losses < MaxLosses /\ losses' = losses + 1
  BY DEF Network, Lose
<1>2. PICK call \in calls :
        calls' \subseteq calls \cup {Answered(call, "refused", Nothing), Answered(call, "refused", call.got),
                                      Answered(call, "orphan", call.got)}
  <2>1. PICK call \in calls :
          \/ calls' = (calls \ {call}) \cup {[call EXCEPT !.state = "refused", !.got = Nothing]}
          \/ calls' = calls \ {call}
          \/ calls' = (calls \ {call}) \cup {[call EXCEPT !.state = "refused"], [call EXCEPT !.state = "orphan"]}
    BY DEF Network, Lose
  <2>2. call \in Call
    BY DEF PagesOK, CallsOK, CallOK
  <2> QED
    BY <2>1, <2>2, StateAlone DEF Answered
<1>3. call \in Call /\ CallOK(call, written)
  BY DEF PagesOK, CallsOK, CallOK
<1>4. call.got \in Got
  BY <1>3, StateAlone
<1>5. \A x \in calls' : CallOK(x, written)
  <2>1. /\ CallOK(Answered(call, "refused", Nothing), written)
        /\ CallOK(Answered(call, "refused", call.got), written)
        /\ CallOK(Answered(call, "orphan", call.got), written)
    BY <1>3, <1>4, NothingTyped, NotOkStaysOK
  <2> QED
    BY <1>2, <2>1 DEF PagesOK, CallsOK
<1>6. losses' \in 0..MaxLosses
  BY <1>1, SessionAssumption DEF PagesOK, ServerTyped
<1> QED
  BY <1>1, <1>5, <1>6 DEF PagesOK, ServerOK, ServerTyped, AllTold, CallsOK

-----------------------------------------------------------------------------
(* The requests of the pages. *)
LEMMA RequestsOK ==
    ASSUME NEW p \in Pages, NEW c \in Chats \cup {NoChat}, NEW W
    PROVE  /\ \A op \in {"load", "list", "create", "delete", "meta"} : CallOK(Request(p, op, c), W)
           /\ \A op \in {"load", "list", "create", "delete", "meta"} : CallOK([Request(p, op, c) EXCEPT !.next = TRUE], W)
           /\ \A i \in Nat, r \in Nat : CallOK([Request(p, "regenerate", c) EXCEPT !.index = i, !.rev = r], W)
           /\ \A q \in Turns : CallOK([Request(p, "handover", c) EXCEPT !.turn = q, !.state = "orphan"], W)
           /\ \A q \in Turns, k \in Confirmations, r \in Nat : CallOK(TurnOf(p, c, q, k, r), W)
           /\ \A q \in Turns : CallOK(QuestionOf(p, c, q), W)
           /\ \A q \in Turns, k \in Confirmations, b \in BOOLEAN, i \in {0, 1} :
                 CallOK([QuestionOf(p, c, q) EXCEPT !.conf = k, !.next = b, !.index = i], W)
           /\ \A q \in Turns, k \in Confirmations, r \in Nat, i \in Nat :
                 k = "done" \/ Told("user", q, W) =>
                   CallOK(AnswerOf(p, c, q, k, r), W) /\ CallOK([AnswerOf(p, c, q, k, r) EXCEPT !.index = i], W)
           /\ \A q \in Turns, b \in BOOLEAN, r \in Nat : CallOK(ConfirmOf(p, c, q, b, r), W)
<1>1. Nothing \in Got
  BY NothingTyped
<1>2. \A op \in Ops : Request(p, op, c) \in Call
  BY <1>1 DEF Request, Call, Got, Ops, Confirmations
<1>3. \A op \in Ops : Request(p, op, c).op = op /\ Request(p, op, c).state = "sent" /\ Request(p, op, c).turn = 0
  BY DEF Request
<1>4. \A op \in {"load", "list", "create", "delete", "meta"} : CallOK(Request(p, op, c), W)
  BY <1>2, <1>3 DEF CallOK, Ops
<1>5. ASSUME NEW op \in {"load", "list", "create", "delete", "meta"}
      PROVE  CallOK([Request(p, op, c) EXCEPT !.next = TRUE], W)
  <2>1. Request(p, op, c) \in Call
    BY <1>2 DEF Ops
  <2>2. [Request(p, op, c) EXCEPT !.next = TRUE] \in Call
    BY <2>1 DEF Call
  <2> QED
    BY <2>2 DEF CallOK, Request
<1>6. ASSUME NEW i \in Nat, NEW r \in Nat
      PROVE  CallOK([Request(p, "regenerate", c) EXCEPT !.index = i, !.rev = r], W)
  <2>1. [Request(p, "regenerate", c) EXCEPT !.index = i, !.rev = r] \in Call
    BY ZenonT(60), <1>2 DEF Call, Ops
  <2> QED
    BY <2>1 DEF CallOK, Request
<1>7. ASSUME NEW q \in Turns
      PROVE  CallOK([Request(p, "handover", c) EXCEPT !.turn = q, !.state = "orphan"], W)
  <2>1. [Request(p, "handover", c) EXCEPT !.turn = q, !.state = "orphan"] \in Call
    BY ZenonT(60), <1>2 DEF Call, Ops
  <2> QED
    BY <2>1 DEF CallOK, Request
<1>8. ASSUME NEW q \in Turns, NEW k \in Confirmations, NEW r \in Nat
      PROVE  CallOK(TurnOf(p, c, q, k, r), W)
  <2>1. TurnOf(p, c, q, k, r) \in Call
    BY <1>2 DEF Call, Ops, TurnOf
  <2> QED
    BY <2>1 DEF CallOK, Request, TurnOf
<1>9. ASSUME NEW q \in Turns
      PROVE  /\ CallOK(QuestionOf(p, c, q), W)
             /\ \A k \in Confirmations, b \in BOOLEAN, i \in {0, 1} :
                    CallOK([QuestionOf(p, c, q) EXCEPT !.conf = k, !.next = b, !.index = i], W)
  <2>1. QuestionOf(p, c, q) \in Call
    BY <1>2 DEF Call, Ops, QuestionOf
  <2>2. CallOK(QuestionOf(p, c, q), W)
    BY <2>1 DEF CallOK, Request, QuestionOf
  <2>3. ASSUME NEW k \in Confirmations, NEW b \in BOOLEAN, NEW i \in {0, 1}
        PROVE  CallOK([QuestionOf(p, c, q) EXCEPT !.conf = k, !.next = b, !.index = i], W)
    <3> DEFINE call == [QuestionOf(p, c, q) EXCEPT !.conf = k, !.next = b, !.index = i]
    <3>1. i \in Nat
      OBVIOUS
    <3>2. call \in Call
      BY <2>1, <3>1 DEF Call
    <3>3. call.op = "question" /\ call.turn = q /\ call.state = "sent"
      BY DEF Request, QuestionOf
    <3> HIDE DEF call
    <3>4. CallOK(call, W)
      BY <3>2, <3>3 DEF CallOK
    <3> QED
      BY <3>4 DEF call
  <2> QED
    BY <2>2, <2>3
<1>10. ASSUME NEW q \in Turns, NEW k \in Confirmations, NEW r \in Nat, NEW i \in Nat, k = "done" \/ Told("user", q, W)
       PROVE  CallOK(AnswerOf(p, c, q, k, r), W) /\ CallOK([AnswerOf(p, c, q, k, r) EXCEPT !.index = i], W)
  <2>1. AnswerOf(p, c, q, k, r) \in Call
    BY <1>2 DEF Call, Ops, AnswerOf
  <2>2. [AnswerOf(p, c, q, k, r) EXCEPT !.index = i] \in Call
    BY <2>1 DEF Call
  <2> QED
    BY <1>10, <2>1, <2>2 DEF CallOK, Request, AnswerOf
<1>11. ASSUME NEW q \in Turns, NEW b \in BOOLEAN, NEW r \in Nat
       PROVE  CallOK(ConfirmOf(p, c, q, b, r), W)
  <2>1. ConfirmOf(p, c, q, b, r) \in Call
    BY <1>2 DEF Call, Ops, ConfirmOf
  <2> QED
    BY <2>1 DEF CallOK, Request, ConfirmOf
<1> QED
  BY <1>4, <1>5, <1>6, <1>7, <1>8, <1>9, <1>10, <1>11

-----------------------------------------------------------------------------
(* The pages of the app. *)
LEMMA BubblesTyped ==
    /\ \A m \in Message : Bubble(m) \in Shown
    /\ \A q \in Turns : Asking(q) \in Shown /\ Answering(q) \in Shown
    /\ \A s \in Seq(Message) : Bubbles(s) \in Seq(Shown) /\ DOMAIN Bubbles(s) = DOMAIN s
<1>1. \A m \in Message : Bubble(m) \in Shown
  BY DEF Message, Bubble, Shown, Confirmations
<1>2. ASSUME NEW q \in Turns
      PROVE  Asking(q) \in Shown /\ Answering(q) \in Shown
  <2>1. Question(q) \in Message /\ Answer(q, "none") \in Message
    BY MessagesTyped DEF Confirmations
  <2>2. Bubble(Question(q)) \in Shown /\ Bubble(Answer(q, "none")) \in Shown
    BY <1>1, <2>1
  <2> HIDE DEF Bubble
  <2> QED
    BY <2>2 DEF Asking, Answering, Shown
<1>3. ASSUME NEW s \in Seq(Message)
      PROVE  Bubbles(s) \in Seq(Shown) /\ DOMAIN Bubbles(s) = DOMAIN s
  <2>1. DOMAIN s = 1..Len(s) /\ Len(s) \in Nat
    BY LenProperties
  <2>2. \A i \in 1..Len(s) : s[i] \in Message
    BY <2>1, ElementOfSeq
  <2>3. Bubbles(s) \in [1..Len(s) -> Shown]
    BY <1>1, <2>1, <2>2 DEF Bubbles
  <2> QED
    BY <2>1, <2>3, SeqDef DEF Bubbles
<1> QED
  BY <1>1, <1>2, <1>3

LEMMA PageFields ==
    ASSUME NEW page \in AppPage
    PROVE  /\ page.phase \in Phases /\ page.chat \in Chats \cup {NoChat} /\ page.shown \in Seq(Shown)
           /\ page.slot \in Nat /\ page.rev \in Nat /\ page.how \in {"send", "stopped", "regenerate"}
           /\ page.token \in Nat /\ page.warned \subseteq Turns /\ page.seen \subseteq Turns
           /\ DOMAIN page.shown = 1..Len(page.shown) /\ Len(page.shown) \in Nat
           /\ \A i \in DOMAIN page.shown : page.shown[i] \in Shown
<1>1. page.shown \in Seq(Shown)
  BY DEF AppPage
<1>2. DOMAIN page.shown = 1..Len(page.shown) /\ Len(page.shown) \in Nat
  BY <1>1, LenProperties
<1>3. \A i \in DOMAIN page.shown : page.shown[i] \in Shown
  BY <1>1, <1>2, ElementOfSeq
<1> QED
  BY <1>1, <1>2, <1>3 DEF AppPage

(* A page is made of its parts. *)
PageOf(phase, chat, shown, slot, rev, how, token, warned, seen) ==
    [phase |-> phase, chat |-> chat, shown |-> shown, slot |-> slot, rev |-> rev, how |-> how,
     token |-> token, warned |-> warned, seen |-> seen]

LEMMA PageParts ==
    ASSUME NEW page \in AppPage
    PROVE  page = PageOf(page.phase, page.chat, page.shown, page.slot, page.rev, page.how,
                         page.token, page.warned, page.seen)
BY DEF AppPage, PageOf

LEMMA FreeTyped ==
    ASSUME NEW page \in AppPage
    PROVE  /\ Free(page) \in AppPage
           /\ Free(page).phase = "idle"
           /\ Free(page).shown = page.shown /\ Free(page).chat = page.chat
           /\ Free(page).rev = page.rev /\ Free(page).seen = page.seen /\ Free(page).warned = page.warned
BY DEF Free, AppPage, Phases

LEMMA IdleOK ==
    ASSUME NEW page \in AppPage, ~Sending(page), NEW W
    PROVE  PageOK(page, W)
BY DEF PageOK, Sending

(* The entry that is being filled. *)
LEMMA SlotTyped ==
    ASSUME NEW page \in AppPage, NEW n \in DOMAIN page.shown, NEW m \in Shown
    PROVE  /\ [page EXCEPT !.shown[n] = m] \in AppPage
           /\ [page EXCEPT !.shown[n] = m].shown = [page.shown EXCEPT ![n] = m]
           /\ [page.shown EXCEPT ![n] = m] \in Seq(Shown)
           /\ DOMAIN [page.shown EXCEPT ![n] = m] = DOMAIN page.shown
<1>1. page.shown \in Seq(Shown) /\ n \in 1..Len(page.shown)
  BY PageFields
<1>2. [page.shown EXCEPT ![n] = m] \in Seq(Shown)
  BY <1>1, ExceptSeq
<1>3. [page EXCEPT !.shown[n] = m] = [page EXCEPT !.shown = [page.shown EXCEPT ![n] = m]]
  BY DEF AppPage
<1> DEFINE s == [page.shown EXCEPT ![n] = m]
<1>4. s \in Seq(Shown) /\ DOMAIN s = DOMAIN page.shown
  BY <1>2
<1> HIDE DEF s
<1>5. [page EXCEPT !.shown = s] \in AppPage /\ [page EXCEPT !.shown = s].shown = s
  BY <1>4 DEF AppPage
<1> QED
  BY <1>2, <1>3, <1>4, <1>5 DEF s

LEMMA EndedTyped ==
    ASSUME NEW page \in AppPage, page.slot \in DOMAIN page.shown, NEW text \in BOOLEAN, NEW error \in BOOLEAN
    PROVE  LET m == [Current(page) EXCEPT !.text = text, !.done = TRUE, !.error = error]
           IN  /\ Ended(page, text, error) \in AppPage
               /\ Ended(page, text, error) = [page EXCEPT !.shown[page.slot] = m, !.token = 0]
               /\ Ended(page, text, error).shown = [page.shown EXCEPT ![page.slot] = m]
               /\ m \in Shown /\ m.role = Current(page).role /\ m.turn = Current(page).turn
               /\ m.conf = Current(page).conf /\ m.token = Current(page).token
<1> DEFINE m == [Current(page) EXCEPT !.text = text, !.done = TRUE, !.error = error]
<1>1. Current(page) \in Shown
  BY PageFields DEF Current
<1>2. /\ m \in Shown /\ m.role = Current(page).role /\ m.turn = Current(page).turn
      /\ m.conf = Current(page).conf /\ m.token = Current(page).token
  BY <1>1 DEF Shown
<1>3. Ended(page, text, error) = [[page EXCEPT !.shown[page.slot] = m] EXCEPT !.token = 0]
  BY DEF Ended, Current, AppPage
<1> DEFINE mid == [page EXCEPT !.shown[page.slot] = m]
<1>4. mid \in AppPage /\ mid.shown = [page.shown EXCEPT ![page.slot] = m]
  <2> HIDE DEF m
  <2> QED
    BY <1>2, SlotTyped
<1>5. Ended(page, text, error) = [page EXCEPT !.shown[page.slot] = m, !.token = 0]
  BY <1>3 DEF AppPage
<1>6. Ended(page, text, error) = [mid EXCEPT !.token = 0]
  BY <1>3
<1>7. Ended(page, text, error) \in AppPage /\ Ended(page, text, error).shown = mid.shown
  <2> HIDE DEF mid, m
  <2> QED
    BY SMTT(40), <1>4, <1>6 DEF AppPage
<1> QED
  BY <1>2, <1>4, <1>5, <1>7

LEMMA RestoredTyped ==
    ASSUME NEW page \in AppPage, NEW got \in Got
    PROVE  /\ Restored(page, got) \in AppPage /\ Restored(page, got).phase = "idle"
           /\ Restored(page, got).shown = Bubbles(got.msgs)
<1>1. got.msgs \in Seq(Message) /\ got.rev \in Nat
  BY DEF Got
<1>2. Bubbles(got.msgs) \in Seq(Shown)
  BY <1>1, BubblesTyped
<1>3. {m.turn : m \in ToSet(got.msgs)} \subseteq Turns
  <2>1. \A m \in ToSet(got.msgs) : m \in Message
    BY <1>1, LenProperties, ElementOfSeq DEF ToSet
  <2>2. \A m \in Message : m.turn \in Turns
    BY DEF Message
  <2> QED
    BY <2>1, <2>2
<1>4. Free(page) \in AppPage /\ Free(page).phase = "idle"
  BY FreeTyped
<1> DEFINE s == Bubbles(got.msgs)
           t == {m.turn : m \in ToSet(got.msgs)}
<1>5. Restored(page, got) = [Free(page) EXCEPT !.rev = got.rev, !.shown = s, !.seen = @ \cup t]
  BY DEF Restored
<1> HIDE DEF s, t
<1>6. Restored(page, got) \in AppPage /\ Restored(page, got).phase = "idle" /\ Restored(page, got).shown = s
  BY <1>1, <1>2, <1>3, <1>4, <1>5 DEF AppPage, s, t
<1> QED
  BY <1>6 DEF s

(* What a step of a page changes. *)
LEMMA AppTaken ==
    ASSUME PagesOK, NEW p \in AppPages, NEW next, PageOK(next, written), Set(p, next),
           UNCHANGED <<chats, jobs, ran, losses, written, alone>>,
           asked' \in 0..MaxTurns, edits' \in 0..MaxEdits,
           \A x \in calls' : x \in calls \/ CallOK(x, written)
    PROVE  PagesOK'
<1>1. AppOK(written)'
  <2>1. app' = [app EXCEPT ![p] = next] /\ next \in AppPage
    BY DEF Set, PageOK
  <2>2. app' \in [AppPages -> AppPage] /\ \A r \in AppPages : app'[r] = IF r = p THEN next ELSE app[r]
    BY <2>1 DEF PagesOK, AppOK
  <2> QED
    BY <2>2 DEF PagesOK, AppOK
<1>2. CallsOK(written)'
  BY DEF PagesOK, CallsOK
<1>3. ServerTyped'
  BY DEF PagesOK, ServerTyped
<1>4. AllTold(written)'
  BY DEF PagesOK, AllTold
<1>5. AloneOK'
  BY DEF PagesOK, AloneOK
<1> QED
  BY <1>1, <1>2, <1>3, <1>4, <1>5 DEF PagesOK

LEMMA PageNow ==
    ASSUME PagesOK, NEW p \in AppPages
    PROVE  /\ p \in Pages /\ app[p] \in AppPage /\ PageOK(app[p], written)
           /\ app[p].chat \in Chats \cup {NoChat}
           /\ asked \in 0..MaxTurns /\ edits \in 0..MaxEdits
           /\ \A call \in calls : call \in Call /\ call.got \in Got /\ CallOK(call, written)
<1>1. app[p] \in AppPage /\ PageOK(app[p], written)
  BY DEF PagesOK, AppOK
<1>2. \A call \in calls : call \in Call /\ CallOK(call, written)
  BY DEF PagesOK, CallsOK, CallOK
<1>3. \A call \in calls : call.got \in Got
  BY <1>2, StateAlone
<1> QED
  BY <1>1, <1>2, <1>3, PageFields DEF Pages, PagesOK, ServerTyped

LEMMA MountOK ==
    ASSUME PagesOK, NEW p \in AppPages, Mount(p), UNCHANGED alone
    PROVE  PagesOK'
<1>1. /\ [NewAppPage EXCEPT !.phase = "idle"] \in AppPage
      /\ \A c \in Chats : [NewAppPage EXCEPT !.phase = "loading", !.chat = c] \in AppPage
  BY EmptySeq DEF NewAppPage, AppPage, Phases
<1>2. CASE Set(p, [NewAppPage EXCEPT !.phase = "idle"]) /\ UNCHANGED calls
  <2>1. PageOK([NewAppPage EXCEPT !.phase = "idle"], written)
    BY <1>1, IdleOK DEF Sending, NewAppPage
  <2> QED
    BY <1>2, <2>1, AppTaken, PageNow DEF Mount, Keep
<1>3. ASSUME NEW c \in Chats, Set(p, [NewAppPage EXCEPT !.phase = "loading", !.chat = c]),
             calls' = calls \cup {LoadOf(p, c)}
      PROVE  PagesOK'
  <2>1. PageOK([NewAppPage EXCEPT !.phase = "loading", !.chat = c], written)
    BY <1>1, IdleOK DEF Sending, NewAppPage
  <2>2. CallOK(LoadOf(p, c), written)
    BY PageNow, RequestsOK DEF LoadOf
  <2> QED
    BY <1>3, <2>1, <2>2, AppTaken, PageNow DEF Mount, Keep
<1> QED
  BY <1>2, <1>3 DEF Mount

LEMMA LoadedOK ==
    ASSUME PagesOK, NEW p \in AppPages, Loaded(p), UNCHANGED alone
    PROVE  PagesOK'
<1>1. PICK call \in calls : Set(p, Restored(app[p], call.got)) /\ calls' = calls \ {call} /\ Keep
  BY DEF Loaded, Arrived, Waiting
<1>2. PageOK(Restored(app[p], call.got), written)
  BY PageNow, RestoredTyped, IdleOK DEF Sending
<1> QED
  BY <1>1, <1>2, AppTaken, PageNow DEF Keep

LEMMA WarnedTyped ==
    ASSUME NEW page \in AppPage, NEW q \in Turns
    PROVE  /\ Warned(page, q) \in AppPage
           /\ Warned(page, q) = [page EXCEPT !.warned = page.warned \cup {q}]
           /\ Warned(page, q).phase = page.phase /\ Warned(page, q).shown = page.shown
           /\ Warned(page, q).warned = page.warned \cup {q}
           /\ Warned(page, q).slot = page.slot /\ Warned(page, q).how = page.how /\ Warned(page, q).token = page.token
BY DEF Warned, AppPage

LEMMA TurnTyped ==
    ASSUME PagesOK, NEW p \in AppPages, Sending(app[p])
    PROVE  /\ app[p].slot \in DOMAIN app[p].shown /\ Current(app[p]) \in Shown
           /\ Turn(app[p]) \in Turns /\ Turn(app[p]) = Current(app[p]).turn
<1>1. app[p].slot \in DOMAIN app[p].shown
  BY PageNow DEF PageOK
<1>2. Current(app[p]) \in Shown
  BY <1>1, PageNow, PageFields DEF Current
<1> QED
  BY <1>1, <1>2 DEF Shown, Turn, Current

LEMMA LoadFailsOK ==
    ASSUME PagesOK, NEW p \in AppPages, LoadFails(p) \/ RetryLoad(p), UNCHANGED alone
    PROVE  PagesOK'
<1>1. CASE RetryLoad(p)
  <2>1. [app[p] EXCEPT !.phase = "loading"] \in AppPage /\ [app[p] EXCEPT !.phase = "loading"].phase = "loading"
    BY PageNow DEF AppPage, Phases
  <2>2. PageOK([app[p] EXCEPT !.phase = "loading"], written)
    BY <2>1, IdleOK DEF Sending
  <2>3. CallOK(LoadOf(p, app[p].chat), written)
    BY PageNow, RequestsOK DEF LoadOf
  <2> QED
    BY <1>1, <2>2, <2>3, AppTaken, PageNow DEF RetryLoad, Keep
<1>2. CASE LoadFails(p)
  <2>1. PICK call \in calls :
          /\ \/ app[p].phase = "loading" /\ Set(p, [app[p] EXCEPT !.phase = "failed"])
             \/ app[p].phase \in {"restoring", "syncing"} /\ Set(p, Warned(Free(app[p]), Turn(app[p])))
          /\ calls' = calls \ {call}
          /\ Keep
    BY <1>2 DEF LoadFails, Arrived, Waiting
  <2>2. CASE app[p].phase = "loading" /\ Set(p, [app[p] EXCEPT !.phase = "failed"])
    <3>1. [app[p] EXCEPT !.phase = "failed"] \in AppPage /\ [app[p] EXCEPT !.phase = "failed"].phase = "failed"
      BY PageNow DEF AppPage, Phases
    <3>2. PageOK([app[p] EXCEPT !.phase = "failed"], written)
      BY <3>1, IdleOK DEF Sending
    <3> QED
      BY <2>1, <2>2, <3>2, AppTaken, PageNow DEF Keep
  <2>3. CASE app[p].phase \in {"restoring", "syncing"} /\ Set(p, Warned(Free(app[p]), Turn(app[p])))
    <3>1. Turn(app[p]) \in Turns /\ Free(app[p]) \in AppPage /\ Free(app[p]).phase = "idle"
      BY <2>3, TurnTyped, PageNow, FreeTyped DEF Sending
    <3>2. PageOK(Warned(Free(app[p]), Turn(app[p])), written)
      BY <3>1, WarnedTyped, IdleOK DEF Sending
    <3> QED
      BY <2>1, <2>3, <3>2, AppTaken, PageNow DEF Keep
  <2> QED
    BY <2>1, <2>2, <2>3
<1> QED
  BY <1>1, <1>2

LEMMA SendOK ==
    ASSUME PagesOK, NEW p \in AppPages, Send(p), UNCHANGED alone
    PROVE  PagesOK'
<1> DEFINE page == app[p]
           q == asked + 1
           shown == page.shown \o <<Asking(q), Answering(q)>>
           sent == [page EXCEPT !.shown = shown, !.slot = Len(shown), !.how = "send", !.seen = @ \cup {q},
                       !.phase = IF page.chat = NoChat THEN "creating" ELSE "streaming"]
<1>1. /\ page \in AppPage /\ p \in Pages /\ q \in Turns /\ q \in 0..MaxTurns
      /\ page.shown \in Seq(Shown) /\ DOMAIN page.shown = 1..Len(page.shown) /\ Len(page.shown) \in Nat
  BY PageNow, PageFields, ChatAssumption DEF Send, Turns
<1>2. Asking(q) \in Shown /\ Answering(q) \in Shown
  BY <1>1, BubblesTyped
<1>3. <<Asking(q), Answering(q)>> \in Seq(Shown) /\ Len(<<Asking(q), Answering(q)>>) = 2
  BY <1>2
<1>4. /\ shown \in Seq(Shown) /\ Len(shown) = Len(page.shown) + 2
      /\ shown[Len(page.shown) + 1] = Asking(q) /\ shown[Len(page.shown) + 2] = Answering(q)
  <2> DEFINE two == <<Asking(q), Answering(q)>>
  <2>1. two[1] = Asking(q) /\ two[2] = Answering(q)
    OBVIOUS
  <2> HIDE DEF two
  <2>2. /\ page.shown \o two \in Seq(Shown) /\ Len(page.shown \o two) = Len(page.shown) + 2
        /\ \A i \in 1..Len(page.shown) + 2 :
              (page.shown \o two)[i] = IF i <= Len(page.shown) THEN page.shown[i] ELSE two[i - Len(page.shown)]
    BY <1>1, <1>3, ConcatProperties DEF two
  <2>3. /\ (page.shown \o two)[Len(page.shown) + 1] = two[1]
        /\ (page.shown \o two)[Len(page.shown) + 2] = two[2]
    BY <1>1, <2>2
  <2> QED
    BY <2>1, <2>2, <2>3 DEF two
<1> HIDE DEF shown
<1>5. /\ sent \in AppPage /\ sent.phase \in {"creating", "streaming"} /\ sent.how = "send"
      /\ sent.shown = shown /\ sent.slot = Len(page.shown) + 2
  <2> DEFINE phase == IF page.chat = NoChat THEN "creating" ELSE "streaming"
             seen == page.seen \cup {q}
  <2>1. phase \in {"creating", "streaming"} /\ phase \in Phases
    BY DEF Phases
  <2>2. seen \in SUBSET Turns /\ Len(shown) \in Nat
    BY <1>1, <1>4, PageFields
  <2>3. sent = [page EXCEPT !.shown = shown, !.slot = Len(shown), !.how = "send", !.seen = seen, !.phase = phase]
    BY DEF AppPage
  <2> HIDE DEF phase, seen, sent
  <2> QED
    BY <1>1, <1>4, <2>1, <2>2, <2>3 DEF AppPage
<1> HIDE DEF sent
<1>6. /\ Asking(q).role = "user" /\ Answering(q).role = "assistant" /\ ~Answering(q).done
      /\ Answering(q).conf = "none" /\ ~Answering(q).text
  BY DEF Asking, Answering, Bubble, Question, Answer
<1>7. PageOK(sent, written)
  <2>1. Current(sent) = Answering(q) /\ sent.slot \in DOMAIN sent.shown
        /\ \E i \in DOMAIN sent.shown : sent.shown[i].role = "user"
    <3> DEFINE n == Len(page.shown)
    <3>1. DOMAIN sent.shown = 1..n + 2 /\ n \in Nat
      BY <1>1, <1>4, <1>5, LenProperties
    <3>2. n + 1 \in DOMAIN sent.shown /\ n + 2 \in DOMAIN sent.shown
      BY <3>1
    <3>3. sent.shown[n + 1] = Asking(q) /\ sent.shown[n + 2] = Answering(q) /\ sent.slot = n + 2
      BY <1>4, <1>5
    <3> HIDE DEF n, q
    <3> QED
      BY <1>6, <3>2, <3>3 DEF Current
  <2> QED
    BY <1>5, <1>6, <2>1 DEF PageOK
<1>8. Set(p, sent) /\ UNCHANGED <<chats, jobs, ran, losses, edits, written>> /\ asked' = q
  BY DEF Send, sent, shown
<1>9. \A x \in calls' : x \in calls \/ CallOK(x, written)
  <2>1. CallOK(Request(p, "create", NoChat), written)
    BY <1>1, RequestsOK
  <2> QED
    BY <2>1 DEF Send
<1> QED
  BY <1>1, <1>7, <1>8, <1>9, AppTaken, PageNow

(* A page that goes on with what it shows in the place that was being filled. *)
Filled(page, m, phase) == [page EXCEPT !.shown = [page.shown EXCEPT ![page.slot] = m], !.token = 0, !.phase = phase]

LEMMA FilledTyped ==
    ASSUME NEW page \in AppPage, page.slot \in DOMAIN page.shown, NEW m \in Shown, NEW phase \in Phases
    PROVE  /\ Filled(page, m, phase) \in AppPage /\ Filled(page, m, phase).phase = phase
           /\ Filled(page, m, phase).slot = page.slot /\ Filled(page, m, phase).chat = page.chat
           /\ Filled(page, m, phase).how = page.how /\ Filled(page, m, phase).warned = page.warned
           /\ Filled(page, m, phase).shown = [page.shown EXCEPT ![page.slot] = m]
<1> DEFINE s == [page.shown EXCEPT ![page.slot] = m]
<1>1. s \in Seq(Shown)
  BY SlotTyped
<1>2. Filled(page, m, phase) = [page EXCEPT !.shown = s, !.token = 0, !.phase = phase]
  BY DEF Filled
<1> HIDE DEF s
<1>3. Filled(page, m, phase) =
        PageOf(phase, page.chat, s, page.slot, page.rev, page.how, 0, page.warned, page.seen)
  BY <1>2 DEF AppPage, PageOf
<1>4. Filled(page, m, phase) \in AppPage
  BY <1>1, <1>3, PageFields DEF AppPage, PageOf
<1>5. /\ Filled(page, m, phase).phase = phase /\ Filled(page, m, phase).shown = s
      /\ Filled(page, m, phase).slot = page.slot /\ Filled(page, m, phase).chat = page.chat
      /\ Filled(page, m, phase).how = page.how /\ Filled(page, m, phase).warned = page.warned
  BY <1>3 DEF PageOf
<1> QED
  BY <1>4, <1>5 DEF s

LEMMA SettledOK ==
    ASSUME NEW W, NEW page, PageOK(page, W), Sending(page), NEW next \in AppPage,
           next.phase \in {"settling", "restoring", "syncing"}, next.slot = page.slot,
           DOMAIN next.shown = DOMAIN page.shown,
           \A i \in DOMAIN page.shown : next.shown[i].role = page.shown[i].role
    PROVE  PageOK(next, W)
BY DEF PageOK

LEMMA FilledOK ==
    ASSUME NEW W, NEW page, PageOK(page, W), Sending(page), NEW m \in Shown, m.role = Current(page).role,
           NEW phase \in {"settling", "restoring", "syncing", "idle"}
    PROVE  PageOK(Filled(page, m, phase), W) /\ Filled(page, m, phase) \in AppPage
<1>1. page \in AppPage /\ page.slot \in DOMAIN page.shown /\ phase \in Phases
  BY DEF PageOK, Phases
<1> DEFINE next == Filled(page, m, phase)
<1>2. next \in AppPage /\ next.phase = phase /\ next.slot = page.slot /\ next.shown = [page.shown EXCEPT ![page.slot] = m]
  BY <1>1, FilledTyped
<1>3. DOMAIN next.shown = DOMAIN page.shown /\ \A i \in DOMAIN page.shown : next.shown[i].role = page.shown[i].role
  BY <1>1, <1>2 DEF Current
<1> HIDE DEF next
<1>4. CASE phase = "idle"
  BY <1>2, <1>4, IdleOK DEF next, Sending
<1>5. CASE phase # "idle"
  BY <1>2, <1>3, <1>5, SettledOK DEF next
<1> QED
  BY <1>2, <1>4, <1>5 DEF next

EndedEntry(page, text, error) == [Current(page) EXCEPT !.text = text, !.done = TRUE, !.error = error]

LEMMA EndedIsFilled ==
    ASSUME NEW page \in AppPage, page.slot \in DOMAIN page.shown, NEW text \in BOOLEAN, NEW error \in BOOLEAN
    PROVE  /\ EndedEntry(page, text, error) \in Shown /\ EndedEntry(page, text, error).role = Current(page).role
           /\ Ended(page, text, error) = Filled(page, EndedEntry(page, text, error), page.phase)
           /\ \A phase : [Ended(page, text, error) EXCEPT !.phase = phase] = Filled(page, EndedEntry(page, text, error), phase)
<1> DEFINE m == [Current(page) EXCEPT !.text = text, !.done = TRUE, !.error = error]
<1>1. m \in Shown /\ m.role = Current(page).role
  BY EndedTyped
<1>2. Ended(page, text, error) = [page EXCEPT !.shown[page.slot] = m, !.token = 0]
  BY ZenonT(60), EndedTyped
<1> HIDE DEF m
<1>3. [page EXCEPT !.shown[page.slot] = m, !.token = 0] = [page EXCEPT !.shown = [page.shown EXCEPT ![page.slot] = m], !.token = 0]
  BY DEF AppPage
<1> DEFINE s == [page.shown EXCEPT ![page.slot] = m]
<1>4. Ended(page, text, error) = [page EXCEPT !.shown = s, !.token = 0]
  BY <1>2, <1>3
<1>5. \A phase : Filled(page, m, phase) = [page EXCEPT !.shown = s, !.token = 0, !.phase = phase]
  BY DEF Filled
<1> HIDE DEF s
<1>6. Ended(page, text, error) =
        PageOf(page.phase, page.chat, s, page.slot, page.rev, page.how, 0, page.warned, page.seen)
  BY <1>4 DEF AppPage, PageOf
<1>7. ASSUME NEW phase
      PROVE  Filled(page, m, phase) =
                PageOf(phase, page.chat, s, page.slot, page.rev, page.how, 0, page.warned, page.seen)
  <2>1. Filled(page, m, phase) = [page EXCEPT !.shown = s, !.token = 0, !.phase = phase]
    BY <1>5
  <2> QED
    BY <2>1 DEF AppPage, PageOf
<1>8. Ended(page, text, error) = Filled(page, m, page.phase)
  BY <1>6, <1>7
<1>9. \A phase : [Ended(page, text, error) EXCEPT !.phase = phase] = Filled(page, m, phase)
  BY <1>6, <1>7 DEF PageOf
<1> QED
  BY <1>1, <1>8, <1>9 DEF m, EndedEntry

LEMMA StreamingNow ==
    ASSUME PagesOK, NEW p \in AppPages, Streaming(p)
    PROVE  /\ Sending(app[p]) /\ app[p].phase = "streaming" /\ app[p].how \in {"send", "regenerate"}
           /\ app[p].slot \in DOMAIN app[p].shown /\ Current(app[p]) \in Shown
           /\ Current(app[p]).role = "assistant" /\ Current(app[p]).conf = "none" /\ ~Current(app[p]).done
           /\ Turn(app[p]) \in Turns /\ Turn(app[p]) = Current(app[p]).turn
           /\ app[p].rev \in Nat /\ app[p].token \in Nat
           /\ app[p].how = "regenerate" /\ (Begins(p) \/ Current(app[p]).text) => Told("user", Turn(app[p]), written)
<1>1. app[p].phase = "streaming"
  BY DEF Streaming
<1>2. Sending(app[p])
  BY <1>1 DEF Sending
<1> QED
  BY <1>1, <1>2, TurnTyped, PageNow, PageFields DEF PageOK, Begins

LEMMA CreatedOK ==
    ASSUME PagesOK, NEW p \in AppPages, Created(p), UNCHANGED alone
    PROVE  PagesOK'
<1>1. app[p].phase = "creating" /\ Sending(app[p]) /\ app[p] \in AppPage /\ PageOK(app[p], written)
  BY PageNow DEF Created, Sending
<1>2. ASSUME NEW call \in calls, 
             Set(p, IF [app[p] EXCEPT !.chat = call.got.chat, !.rev = call.got.rev].how = "stopped"
                    THEN Free(Ended([app[p] EXCEPT !.chat = call.got.chat, !.rev = call.got.rev], FALSE, FALSE))
                    ELSE [[app[p] EXCEPT !.chat = call.got.chat, !.rev = call.got.rev] EXCEPT !.phase = "streaming"]),
             calls' = calls \ {call}, Keep
      PROVE  PagesOK'
  <2> DEFINE page == [app[p] EXCEPT !.chat = call.got.chat, !.rev = call.got.rev]
  <2>1. call.got.chat \in Chats \cup {NoChat} /\ call.got.rev \in Nat
    BY PageNow DEF Got
  <2>2. /\ page \in AppPage /\ page.shown = app[p].shown /\ page.slot = app[p].slot
        /\ page.how = app[p].how /\ page.token = app[p].token
    BY <1>1, <2>1 DEF AppPage
  <2>3. CASE app[p].how = "stopped"
    <3>1. Ended(page, FALSE, FALSE) \in AppPage
      <4>1. page.slot \in DOMAIN page.shown
        BY <1>1, <2>2 DEF PageOK
      <4> HIDE DEF page
      <4> QED
        BY <2>2, <4>1, EndedTyped
    <3>2. PageOK(Free(Ended(page, FALSE, FALSE)), written)
      <4> HIDE DEF page
      <4> QED
        BY <3>1, FreeTyped, IdleOK DEF Sending
    <3> QED
      BY <1>2, <2>2, <2>3, <3>2, AppTaken, PageNow DEF Keep
  <2>4. CASE app[p].how # "stopped"
    <3> DEFINE next == [page EXCEPT !.phase = "streaming"]
    <3>1. /\ next \in AppPage /\ next.shown = app[p].shown /\ next.slot = app[p].slot
          /\ next.how = app[p].how /\ next.phase = "streaming"
      <4> HIDE DEF page
      <4> QED
        BY <2>2 DEF AppPage, Phases
    <3>2. app[p].how = "send"
      BY <1>1, <2>4 DEF PageOK
    <3> HIDE DEF next
    <3>3. PageOK(next, written)
      BY <1>1, <3>1, <3>2 DEF PageOK, Current
    <3> QED
      BY <1>2, <2>4, <3>3, AppTaken, PageNow DEF Keep, next
  <2> QED
    BY <2>3, <2>4
<1>3. ASSUME NEW call \in calls,
             Set(p, Free([app[p] EXCEPT !.shown = SubSeq(@, 1, app[p].slot - 2)])),
             calls' = calls \ {call}, Keep
      PROVE  PagesOK'
  <2> DEFINE s == SubSeq(app[p].shown, 1, app[p].slot - 2)
             page == [app[p] EXCEPT !.shown = s]
  <2>1. app[p].slot \in 1..Len(app[p].shown) /\ Len(app[p].shown) \in Nat /\ \A i \in 1..Len(app[p].shown) : app[p].shown[i] \in Shown
    BY <1>1, PageFields DEF PageOK
  <2>2. s \in Seq(Shown)
    <3>1. \A i \in 1..app[p].slot - 2 : app[p].shown[i] \in Shown
      BY <2>1
    <3>2. app[p].slot - 2 \in Int
      BY <2>1
    <3> QED
      BY <3>1, <3>2, SubSeqProperties
  <2> HIDE DEF s
  <2>3. page \in AppPage
    BY <1>1, <2>2 DEF AppPage
  <2>4. PageOK(Free(page), written)
    <3> HIDE DEF page
    <3> QED
      BY <2>3, FreeTyped, IdleOK DEF Sending
  <2>5. Set(p, Free(page))
    BY <1>3 DEF s
  <2> QED
    BY <1>3, <2>4, <2>5, AppTaken, PageNow DEF Keep
<1> QED
  BY <1>2, <1>3 DEF Created, Arrived, Waiting

LEMMA StreamTextOK ==
    ASSUME PagesOK, NEW p \in AppPages, StreamText(p), UNCHANGED alone
    PROVE  PagesOK'
<1> DEFINE page == app[p]
           m == [Current(page) EXCEPT !.text = TRUE]
           next == [page EXCEPT !.shown[page.slot].text = TRUE]
<1>1. /\ page.slot \in DOMAIN page.shown /\ Current(page) \in Shown /\ page \in AppPage /\ PageOK(page, written)
      /\ page.phase = "streaming" /\ Sending(page) /\ ~Current(page).done
  BY StreamingNow, PageNow DEF StreamText
<1>2. /\ m \in Shown /\ m.role = Current(page).role /\ m.turn = Current(page).turn
      /\ m.conf = Current(page).conf /\ m.done = Current(page).done
  BY <1>1 DEF Shown
<1>3. next = [page EXCEPT !.shown[page.slot] = m]
  BY DEF Current
<1> HIDE DEF m
<1>4. next \in AppPage /\ next.shown = [page.shown EXCEPT ![page.slot] = m]
  BY ZenonT(60), <1>1, <1>2, <1>3, SlotTyped
<1>5. /\ next.slot = page.slot /\ next.how = page.how /\ next.phase = page.phase /\ next.token = page.token
  BY <1>1, <1>3 DEF AppPage
<1> HIDE DEF next
<1>6. Current(next) = m
  BY <1>1, <1>4, <1>5 DEF Current
<1>7. next.how = "regenerate" => Told("user", Turn(next), written)
  <2>1. Turn(next) = Turn(page)
    BY <1>2, <1>6 DEF Turn, Current
  <2> QED
    BY <1>5, <2>1, StreamingNow DEF StreamText
<1>8. PageOK(next, written)
  <2>1. DOMAIN next.shown = DOMAIN page.shown /\ \A i \in DOMAIN page.shown : next.shown[i].role = page.shown[i].role
    BY <1>1, <1>2, <1>4 DEF Current
  <2> QED
    BY <1>1, <1>2, <1>4, <1>5, <1>6, <1>7, <2>1 DEF PageOK
<1> QED
  BY <1>8, AppTaken, PageNow DEF StreamText, Keep, next

(* The write of what a page has streamed. *)
LEMMA WriteOfTurn ==
    ASSUME PagesOK, NEW p \in AppPages, Streaming(p), Begins(p) \/ Current(app[p]).text
    PROVE  CallOK(IF app[p].how = "send" THEN TurnOf(p, app[p].chat, Turn(app[p]), "none", app[p].rev)
                  ELSE AnswerOf(p, app[p].chat, Turn(app[p]), "none", app[p].token), written)
<1>1. "none" \in Confirmations
  BY DEF Confirmations
<1>2. /\ p \in Pages /\ app[p].chat \in Chats \cup {NoChat} /\ Turn(app[p]) \in Turns
      /\ app[p].rev \in Nat /\ app[p].token \in Nat /\ app[p].how \in {"send", "regenerate"}
      /\ app[p].how = "regenerate" => Told("user", Turn(app[p]), written)
  BY StreamingNow, PageNow
<1>3. CASE app[p].how = "send"
  BY <1>1, <1>2, <1>3, RequestsOK
<1>4. CASE app[p].how = "regenerate"
  BY <1>1, <1>2, <1>4, RequestsOK
<1> QED
  BY <1>2, <1>3, <1>4

LEMMA StreamDoneOK ==
    ASSUME PagesOK, NEW p \in AppPages, StreamDone(p), UNCHANGED alone
    PROVE  PagesOK'
<1> DEFINE page == app[p]
           m == [Current(page) EXCEPT !.text = TRUE, !.done = TRUE]
           next == [page EXCEPT !.phase = "settling", !.token = 0,
                        !.shown[page.slot].text = TRUE, !.shown[page.slot].done = TRUE]
<1>1. /\ page.slot \in DOMAIN page.shown /\ Current(page) \in Shown /\ page \in AppPage
      /\ PageOK(page, written) /\ Sending(page)
  BY StreamingNow, PageNow DEF StreamDone
<1>2. m \in Shown /\ m.role = Current(page).role
  BY <1>1 DEF Shown
<1>3. next = Filled(page, m, "settling")
  BY <1>1 DEF Filled, Current, AppPage
<1> HIDE DEF m
<1>4. PageOK(next, written)
  BY <1>1, <1>2, <1>3, FilledOK
<1>5. \A x \in calls' : x \in calls \/ CallOK(x, written)
  BY WriteOfTurn DEF StreamDone
<1> QED
  BY <1>4, <1>5, AppTaken, PageNow DEF StreamDone, Keep

LEMMA StreamConfirmationOK ==
    ASSUME PagesOK, NEW p \in AppPages, StreamConfirmation(p), UNCHANGED alone
    PROVE  PagesOK'
<1> DEFINE page == app[p]
           panel == [Current(page) EXCEPT !.text = TRUE, !.done = TRUE, !.conf = "open",
                        !.rev = page.token, !.token = page.how = "send"]
           shown == [page EXCEPT !.shown[page.slot] = panel, !.token = 0]
<1>1. /\ page.slot \in DOMAIN page.shown /\ Current(page) \in Shown /\ page \in AppPage
      /\ PageOK(page, written) /\ Sending(page) /\ page.token \in Nat
      /\ Turn(page) \in Turns /\ page.rev \in Nat
  BY StreamingNow, PageNow DEF StreamConfirmation
<1>2. panel \in Shown /\ panel.role = Current(page).role
  BY <1>1 DEF Shown
<1>3. [shown EXCEPT !.phase = "settling"] = Filled(page, panel, "settling") /\ shown = Filled(page, panel, page.phase)
  <2> HIDE DEF panel
  <2> QED
    BY <1>1 DEF Filled, AppPage
<1> HIDE DEF panel
<1>4. PageOK([shown EXCEPT !.phase = "settling"], written)
  BY <1>1, <1>2, <1>3, FilledOK
<1>5. shown \in AppPage
  <2>1. page.phase \in Phases
    BY <1>1, PageFields
  <2> HIDE DEF shown
  <2> QED
    BY <1>1, <1>2, <1>3, <2>1, FilledTyped
<1> HIDE DEF shown
<1>6. PageOK(Free(shown), written)
  BY <1>5, FreeTyped, IdleOK DEF Sending
<1>7. CallOK(TurnOf(p, page.chat, Turn(page), "open", page.rev), written)
  BY <1>1, PageNow, RequestsOK DEF Confirmations
<1>8. \/ Set(p, [shown EXCEPT !.phase = "settling"]) /\ calls' = calls \cup {TurnOf(p, page.chat, Turn(page), "open", page.rev)}
      \/ Set(p, Free(shown)) /\ UNCHANGED calls
  BY DEF StreamConfirmation, shown, panel
<1> QED
  BY <1>4, <1>6, <1>7, <1>8, AppTaken, PageNow DEF StreamConfirmation, Keep

(* A regeneration that stored nothing. *)
LEMMA RestoringOK ==
    ASSUME PagesOK, NEW p \in AppPages, Streaming(p), NEW text \in BOOLEAN, NEW error \in BOOLEAN,
           UNCHANGED alone, Keep, Set(p, [Ended(app[p], text, error) EXCEPT !.phase = "restoring"]),
           \A x \in calls' : x \in calls \/ x = LoadOf(p, app[p].chat) \/ CallOK(x, written)
    PROVE  PagesOK'
<1> DEFINE page == app[p]
<1>1. /\ page.slot \in DOMAIN page.shown /\ page \in AppPage /\ PageOK(page, written) /\ Sending(page)
  BY StreamingNow, PageNow
<1> DEFINE m == EndedEntry(page, text, error)
<1>2. /\ m \in Shown /\ m.role = Current(page).role
      /\ [Ended(page, text, error) EXCEPT !.phase = "restoring"] = Filled(page, m, "restoring")
  BY <1>1, EndedIsFilled
<1> HIDE DEF m
<1>3. PageOK([Ended(page, text, error) EXCEPT !.phase = "restoring"], written)
  BY <1>1, <1>2, FilledOK
<1>4. CallOK(LoadOf(p, page.chat), written)
  BY PageNow, RequestsOK DEF LoadOf
<1> QED
  BY <1>3, <1>4, AppTaken, PageNow DEF Keep

LEMMA EndedChat ==
    ASSUME PagesOK, NEW p \in AppPages, Streaming(p), NEW text \in BOOLEAN, NEW error \in BOOLEAN
    PROVE  /\ Ended(app[p], text, error).chat = app[p].chat
           /\ Ended(app[p], text, error) \in AppPage
           /\ PageOK([Ended(app[p], text, error) EXCEPT !.phase = "settling"], written)
           /\ PageOK(Free(Ended(app[p], text, error)), written)
<1> DEFINE page == app[p]
<1>1. /\ page.slot \in DOMAIN page.shown /\ page \in AppPage /\ PageOK(page, written) /\ Sending(page) /\ page.phase \in Phases
  BY StreamingNow, PageNow, PageFields
<1> DEFINE m == EndedEntry(page, text, error)
<1>2. /\ m \in Shown /\ m.role = Current(page).role
      /\ Ended(page, text, error) = Filled(page, m, page.phase)
      /\ [Ended(page, text, error) EXCEPT !.phase = "settling"] = Filled(page, m, "settling")
  BY <1>1, EndedIsFilled
<1> HIDE DEF m
<1>3. Ended(page, text, error) \in AppPage /\ Ended(page, text, error).chat = page.chat
  <2> HIDE DEF page
  <2>0. m \in Shown
    BY <1>2
  <2>1. Filled(page, m, page.phase) \in AppPage /\ Filled(page, m, page.phase).chat = page.chat
    BY <1>1, <2>0, FilledTyped
  <2> QED
    BY <1>2, <2>1
<1>4. PageOK([Ended(app[p], text, error) EXCEPT !.phase = "settling"], written)
  BY <1>1, <1>2, FilledOK
<1>5. PageOK(Free(Ended(app[p], text, error)), written)
  BY <1>3, FreeTyped, IdleOK DEF Sending
<1> QED
  BY <1>3, <1>4, <1>5

LEMMA StreamErrorOK ==
    ASSUME PagesOK, NEW p \in AppPages, StreamError(p) \/ StreamBreak(p), UNCHANGED alone
    PROVE  PagesOK'
<1> DEFINE page == app[p]
           ended == Ended(page, TRUE, TRUE)
<1>1. Streaming(p) /\ Keep
  BY DEF StreamError, StreamBreak
<1>2. CASE Restoring(p, ended)
  <2>1. ended.chat = page.chat
    BY <1>1, EndedChat
  <2>2. \A x \in calls' : x \in calls \/ x = LoadOf(p, page.chat)
    BY <1>2, <2>1 DEF Restoring
  <2> QED
    BY <1>1, <1>2, <2>2, RestoringOK DEF Restoring
<1>3. CASE Set(p, [ended EXCEPT !.phase = "settling"]) /\ calls' = calls \cup {QuestionOf(p, page.chat, Turn(page))}
  <2>1. CallOK(QuestionOf(p, page.chat, Turn(page)), written)
    BY <1>1, StreamingNow, PageNow, RequestsOK
  <2>2. PageOK([ended EXCEPT !.phase = "settling"], written)
    BY <1>1, EndedChat
  <2> QED
    BY <1>1, <1>3, <2>1, <2>2, AppTaken, PageNow DEF Keep
<1>4. CASE Set(p, Free(ended)) /\ UNCHANGED calls
  <2>1. PageOK(Free(ended), written)
    BY <1>1, EndedChat
  <2> QED
    BY <1>1, <1>4, <2>1, AppTaken, PageNow DEF Keep
<1> QED
  BY <1>2, <1>3, <1>4 DEF StreamError, StreamBreak

LEMMA StopOK ==
    ASSUME PagesOK, NEW p \in AppPages, Stop(p), UNCHANGED alone
    PROVE  PagesOK'
<1> DEFINE page == app[p]
           text == Current(page).text
           ended == Ended(page, text, FALSE)
<1>1. Keep /\ page \in AppPage /\ PageOK(page, written) /\ (Streaming(p) \/ page.phase = "creating")
  BY PageNow DEF Stop
<1>2. text \in BOOLEAN
  <2>1. Sending(page)
    BY <1>1, StreamingNow DEF Sending
  <2> QED
    BY <2>1, TurnTyped DEF Shown
<1>3. CASE page.phase = "creating" /\ Set(p, [page EXCEPT !.how = "stopped"]) /\ UNCHANGED calls
  <2> DEFINE next == [page EXCEPT !.how = "stopped"]
  <2>1. /\ next \in AppPage /\ next.phase = page.phase /\ next.shown = page.shown /\ next.slot = page.slot
        /\ next.how = "stopped"
    BY <1>1 DEF AppPage
  <2> HIDE DEF next
  <2>2. PageOK(next, written)
    BY <1>1, <1>3, <2>1 DEF PageOK, Current, Sending
  <2> QED
    BY <1>1, <1>3, <2>2, AppTaken, PageNow DEF Keep, next
<1>4. CASE text /\ Set(p, [ended EXCEPT !.phase = "settling"])
           /\ calls' = calls \cup
                   {IF page.how = "send" THEN TurnOf(p, page.chat, Turn(page), "none", page.rev)
                    ELSE AnswerOf(p, page.chat, Turn(page), "none", page.token)}
  <2>1. Streaming(p)
    BY <1>1, <1>4 DEF PageOK
  <2>2. PageOK([ended EXCEPT !.phase = "settling"], written)
    BY <1>2, <2>1, EndedChat
  <2>3. \A x \in calls' : x \in calls \/ CallOK(x, written)
    BY <1>4, <2>1, WriteOfTurn
  <2> HIDE DEF text
  <2> QED
    BY <1>1, <1>4, <2>2, <2>3, AppTaken, PageNow DEF Keep
<1>5. CASE page.phase = "streaming" /\ Set(p, Free(ended)) /\ UNCHANGED calls
  <2>1. Streaming(p)
    BY <1>1, <1>5
  <2>2. PageOK(Free(ended), written)
    BY <1>2, <2>1, EndedChat
  <2> HIDE DEF text
  <2> QED
    BY <1>1, <1>5, <2>2, AppTaken, PageNow DEF Keep
<1>6. CASE /\ page.how = "regenerate" /\ Set(p, [ended EXCEPT !.phase = "restoring"])
           /\ calls' = (calls \ Waiting(p, "regenerate")) \cup {LoadOf(p, page.chat)}
                    \cup {[call EXCEPT !.state = "orphan"] : call \in Arrived(p, "regenerate", "sent")}
  <2>1. Streaming(p)
    BY <1>1, <1>6 DEF PageOK
  <2>2. \A call \in Arrived(p, "regenerate", "sent") : CallOK([call EXCEPT !.state = "orphan"], written)
    <3>1. SUFFICES ASSUME NEW call \in calls PROVE CallOK([call EXCEPT !.state = "orphan"], written)
      BY DEF Arrived, Waiting
    <3>2. call \in Call /\ call.got \in Got /\ CallOK(call, written)
      BY PageNow
    <3>3. CallOK(Answered(call, "orphan", call.got), written)
      BY <3>2, NotOkStaysOK
    <3> QED
      BY <3>2, <3>3, StateAlone
  <2>3. \A x \in calls' : x \in calls \/ x = LoadOf(p, page.chat) \/ CallOK(x, written)
    BY <1>6, <2>2
  <2> HIDE DEF text
  <2> QED
    BY <1>1, <1>2, <1>6, <2>1, <2>3, RestoringOK
<1> QED
  BY <1>3, <1>4, <1>5, <1>6 DEF Stop

(* A page that regenerates the answer in place n. *)
LEMMA PageCut ==
    ASSUME NEW page \in AppPage, NEW phase, NEW sh, NEW n, NEW how, NEW token, NEW next,
           next = [page EXCEPT !.phase = phase, !.how = how, !.token = token, !.slot = n, !.shown = sh]
    PROVE  next = PageOf(phase, page.chat, sh, n, page.rev, how, token, page.warned, page.seen)
BY DEF AppPage, PageOf

LEMMA RegenerateOK ==
    ASSUME PagesOK, NEW p \in AppPages, Regenerate(p), UNCHANGED alone
    PROVE  PagesOK'
<1> DEFINE page == app[p]
<1>1. /\ page \in AppPage /\ p \in Pages /\ page.chat \in Chats \cup {NoChat} /\ page.rev \in Nat
      /\ page.shown \in Seq(Shown) /\ DOMAIN page.shown = 1..Len(page.shown) /\ Len(page.shown) \in Nat
      /\ \A i \in DOMAIN page.shown : page.shown[i] \in Shown
  BY PageNow, PageFields
<1>2. PICK i \in DOMAIN page.shown :
        /\ page.shown[i].role = "user"
        /\ Set(p, [page EXCEPT !.phase = "streaming", !.how = "regenerate", !.token = 0, !.slot = i + 1,
                         !.shown = Append(SubSeq(@, 1, i), Answering(page.shown[i].turn))])
        /\ calls' = calls \cup {[Request(p, "regenerate", page.chat) EXCEPT !.index = i, !.rev = page.rev]}
  BY DEF Regenerate
<1> DEFINE q == page.shown[i].turn
           cut == SubSeq(page.shown, 1, i)
           shown == Append(cut, Answering(q))
           next == [page EXCEPT !.phase = "streaming", !.how = "regenerate", !.token = 0, !.slot = i + 1, !.shown = shown]
<1>3. i \in 1..Len(page.shown) /\ i \in Nat /\ q \in Turns
  BY <1>1 DEF Shown
<1>4. cut \in Seq(Shown) /\ Len(cut) = i /\ \A j \in 1..i : cut[j] = page.shown[j]
  <2>1. \A j \in 1..i : page.shown[j] \in Shown
    BY <1>1, <1>3
  <2>2. /\ cut \in Seq(Shown)
        /\ Len(cut) = IF 1 <= i THEN i - 1 + 1 ELSE 0
        /\ \A j \in 1..i - 1 + 1 : cut[j] = page.shown[1 + j - 1]
    BY <1>3, <2>1, SubSeqProperties
  <2> HIDE DEF cut
  <2>3. Len(cut) = i
    BY <1>3, <2>2
  <2>4. \A j \in 1..i : cut[j] = page.shown[j]
    BY <1>3, <2>2
  <2> QED
    BY <2>2, <2>3, <2>4
<1> HIDE DEF cut
<1>5. Answering(q) \in Shown
  BY <1>3, BubblesTyped
<1>6. /\ shown \in Seq(Shown) /\ Len(shown) = i + 1 /\ shown[i + 1] = Answering(q) /\ shown[i] = page.shown[i]
      /\ DOMAIN shown = 1..i + 1
  <2>1. /\ shown \in Seq(Shown) /\ Len(shown) = i + 1 /\ shown[i + 1] = Answering(q)
        /\ \A j \in 1..i : shown[j] = cut[j]
    BY <1>3, <1>4, <1>5, AppendProperties
  <2> QED
    BY <1>3, <1>4, <2>1, LenProperties
<1> HIDE DEF shown, q
<1>7. /\ next \in AppPage /\ next.phase = "streaming" /\ next.how = "regenerate" /\ next.token = 0
      /\ next.slot = i + 1 /\ next.shown = shown
  <2> HIDE DEF page
  <2>1. next = PageOf("streaming", page.chat, shown, i + 1, page.rev, "regenerate", 0, page.warned, page.seen)
    BY <1>1, PageCut DEF next
  <2> HIDE DEF next
  <2>2. next \in AppPage
    BY <1>1, <1>3, <1>6, <2>1, PageFields DEF AppPage, PageOf, Phases
  <2> QED
    BY <2>1, <2>2 DEF PageOf
<1> HIDE DEF next
<1>8. PageOK(next, written)
  <2>1. /\ Answering(q).role = "assistant" /\ ~Answering(q).done /\ Answering(q).conf = "none" /\ ~Answering(q).text
    BY DEF Answering, Bubble, Answer
  <2>2. Current(next) = Answering(q) /\ next.slot \in DOMAIN next.shown
    BY <1>3, <1>6, <1>7 DEF Current
  <2>3. \E j \in DOMAIN next.shown : next.shown[j].role = "user"
    BY <1>2, <1>3, <1>6, <1>7
  <2> QED
    BY <1>7, <2>1, <2>2, <2>3 DEF PageOK
<1>9. CallOK([Request(p, "regenerate", page.chat) EXCEPT !.index = i, !.rev = page.rev], written)
  BY <1>1, <1>3, RequestsOK
<1>10. edits' \in 0..MaxEdits /\ UNCHANGED <<chats, asked, jobs, ran, losses, written>>
  BY PageNow, SessionAssumption DEF Regenerate
<1>11. Set(p, next)
  BY <1>2 DEF next, shown, q, cut
<1>12. \A x \in calls' : x \in calls \/ CallOK(x, written)
  BY <1>2, <1>9
<1> QED
  BY <1>8, <1>10, <1>11, <1>12, AppTaken, PageNow

LEMMA RegenerateBeginsOK ==
    ASSUME PagesOK, NEW p \in AppPages, RegenerateBegins(p), UNCHANGED alone
    PROVE  PagesOK'
<1> DEFINE page == app[p]
<1>1. PICK call \in calls :
        /\ call.op = "regenerate" /\ call.state = "ok"
        /\ Streaming(p)
        /\ Set(p, [page EXCEPT !.token = call.got.rev, !.rev = Larger(@, call.got.rev),
                        !.shown[page.slot].turn = call.got.msgs[1].turn])
        /\ calls' = calls \ {call}
        /\ Keep
  BY DEF RegenerateBegins, Arrived, Waiting
<1> DEFINE q == call.got.msgs[1].turn
           m == [Current(page) EXCEPT !.turn = q]
           s == [page.shown EXCEPT ![page.slot] = m]
           next == [page EXCEPT !.token = call.got.rev, !.rev = Larger(@, call.got.rev), !.shown[page.slot].turn = q]
<1>2. /\ q \in Turns /\ Told("user", q, written) /\ call.got.rev \in Nat
  <2>1. call.got \in Got /\ CallOK(call, written)
    BY PageNow
  <2>2. Len(call.got.msgs) = 1 /\ call.got.msgs \in Seq(Message) /\ call.got.rev \in Nat
    BY <1>1, <2>1 DEF CallOK, Got
  <2>3. call.got.msgs[1] \in Message
    BY <2>2, ElementOfSeq
  <2> QED
    BY <1>1, <2>1, <2>2, <2>3 DEF CallOK, Message
<1>3. /\ page.slot \in DOMAIN page.shown /\ Current(page) \in Shown /\ page \in AppPage /\ PageOK(page, written)
      /\ page.phase = "streaming" /\ page.how \in {"send", "regenerate"} /\ page.rev \in Nat
      /\ Current(page).role = "assistant" /\ ~Current(page).done /\ Current(page).conf = "none" /\ Sending(page)
  BY <1>1, StreamingNow, PageNow
<1> HIDE DEF q
<1>4. m \in Shown /\ m.role = "assistant" /\ ~m.done /\ m.conf = "none" /\ m.turn = q
  BY <1>2, <1>3 DEF Shown
<1>5. next = [page EXCEPT !.token = call.got.rev, !.rev = Larger(@, call.got.rev), !.shown = s]
  BY <1>3 DEF Current, AppPage
<1> HIDE DEF m
<1>6. s \in Seq(Shown) /\ DOMAIN s = DOMAIN page.shown /\ s[page.slot] = m
      /\ \A i \in DOMAIN page.shown : s[i].role = page.shown[i].role
  BY <1>3, <1>4, SlotTyped DEF Current
<1> HIDE DEF s
<1>7. Larger(page.rev, call.got.rev) \in Nat
  BY <1>2, <1>3 DEF Larger
<1>8. next = PageOf(page.phase, page.chat, s, page.slot, Larger(page.rev, call.got.rev), page.how, call.got.rev, page.warned, page.seen)
  <2> HIDE DEF page, next
  <2> QED
    BY <1>3, <1>5 DEF AppPage, PageOf
<1> HIDE DEF next
<1>9. next \in AppPage
  BY <1>2, <1>3, <1>6, <1>7, <1>8, PageFields DEF AppPage, PageOf
<1>10. PageOK(next, written)
  <2>1. /\ next.phase = "streaming" /\ next.how = page.how /\ next.slot = page.slot /\ next.shown = s
    BY <1>3, <1>8 DEF PageOf
  <2>2. Current(next) = m /\ Turn(next) = q
    BY <1>4, <1>6, <2>1 DEF Current, Turn
  <2>3. \E i \in DOMAIN next.shown : next.shown[i].role = "user"
    BY <1>3, <1>6, <2>1 DEF PageOK
  <2> QED
    BY <1>2, <1>3, <1>4, <1>6, <1>9, <2>1, <2>2, <2>3 DEF PageOK
<1>11. Set(p, next)
  BY <1>1 DEF next, q
<1> QED
  BY <1>1, <1>10, <1>11, AppTaken, PageNow DEF Keep

LEMMA RegenerateRefusedOK ==
    ASSUME PagesOK, NEW p \in AppPages, RegenerateRefused(p), UNCHANGED alone
    PROVE  PagesOK'
BY RestoringOK DEF RegenerateRefused
(* Bubbles whose panels change: every entry stays in its place, one without a  *)
(* panel stays as it is.                                                       *)
Alike(s, t) ==
    /\ DOMAIN t = DOMAIN s
    /\ \A i \in DOMAIN s : /\ t[i].role = s[i].role /\ t[i].turn = s[i].turn
                           /\ s[i].conf = "none" => t[i] = s[i]

LEMMA ShownKept ==
    ASSUME NEW W, NEW page, PageOK(page, W), NEW next \in AppPage, next.phase = page.phase, next.slot = page.slot,
           next.how = page.how, next.token = page.token, Alike(page.shown, next.shown)
    PROVE  PageOK(next, W)
<1>1. Sending(next) = Sending(page)
  BY DEF Sending
<1>2. CASE ~Sending(page)
  BY <1>1, <1>2, IdleOK
<1>3. CASE Sending(page)
  <2>1. page.slot \in DOMAIN page.shown /\ \E i \in DOMAIN page.shown : page.shown[i].role = "user"
    BY <1>3 DEF PageOK
  <2>2. next.slot \in DOMAIN next.shown /\ \E i \in DOMAIN next.shown : next.shown[i].role = "user"
    BY <2>1 DEF Alike
  <2>3. Current(page).conf = "none" => Current(next) = Current(page)
    BY <2>1 DEF Alike, Current
  <2>4. Turn(next) = Turn(page)
    BY <2>1 DEF Alike, Turn
  <2> QED
    BY <1>1, <2>2, <2>3, <2>4 DEF PageOK
<1> QED
  BY <1>2, <1>3

LEMMA ReshownTyped ==
    ASSUME NEW page \in AppPage, NEW s \in [DOMAIN page.shown -> Shown], NEW next, next = [page EXCEPT !.shown = s]
    PROVE  /\ s \in Seq(Shown) /\ next \in AppPage /\ next.shown = s /\ next.phase = page.phase
           /\ next.slot = page.slot /\ next.how = page.how /\ next.token = page.token /\ next.chat = page.chat
           /\ next.warned = page.warned /\ next.rev = page.rev /\ next.seen = page.seen
<1>1. DOMAIN page.shown = 1..Len(page.shown) /\ Len(page.shown) \in Nat
  BY PageFields
<1>2. s \in Seq(Shown)
  BY <1>1, SeqDef
<1> QED
  BY <1>2 DEF AppPage

(* A panel that changes its state stays a bubble. *)
LEMMA PanelTyped ==
    ASSUME NEW m \in Shown, NEW k \in {"none", "open", "waiting", "running", "stuck", "done"}
    PROVE  /\ [m EXCEPT !.conf = k] \in Shown /\ [m EXCEPT !.conf = k].role = m.role
           /\ [m EXCEPT !.conf = k].turn = m.turn
           /\ [m EXCEPT !.conf = k, !.text = TRUE] \in Shown /\ [m EXCEPT !.conf = k, !.text = TRUE].role = m.role
           /\ [m EXCEPT !.conf = k, !.text = TRUE].turn = m.turn
BY DEF Shown

LEMMA ReleasedOK ==
    ASSUME NEW W, NEW page, PageOK(page, W), NEW q, NEW saved \in BOOLEAN
    PROVE  LET next == Released(page, q, saved)
           IN  /\ next \in AppPage /\ PageOK(next, W) /\ next.phase = page.phase /\ next.slot = page.slot
               /\ next.how = page.how /\ next.token = page.token /\ Alike(page.shown, next.shown)
               /\ next.warned = page.warned /\ next.rev = page.rev /\ next.chat = page.chat
<1> DEFINE s == [i \in DOMAIN page.shown |->
                    IF page.shown[i].turn = q /\ page.shown[i].conf = "waiting" /\ saved
                    THEN [page.shown[i] EXCEPT !.conf = "running"]
                    ELSE IF page.shown[i].turn = q /\ page.shown[i].conf \in {"open", "waiting"} /\ ~saved
                    THEN [page.shown[i] EXCEPT !.conf = "stuck"]
                    ELSE page.shown[i]]
           next == Released(page, q, saved)
<1>1. page \in AppPage /\ \A i \in DOMAIN page.shown : page.shown[i] \in Shown
  BY PageFields DEF PageOK
<1>2. next = [page EXCEPT !.shown = s]
  BY DEF Released
<1>3. \A i \in DOMAIN page.shown : /\ s[i] \in Shown /\ s[i].role = page.shown[i].role /\ s[i].turn = page.shown[i].turn
                                   /\ page.shown[i].conf = "none" => s[i] = page.shown[i]
  BY <1>1, PanelTyped
<1>4. s = [i \in DOMAIN page.shown |-> s[i]] /\ DOMAIN s = DOMAIN page.shown
  OBVIOUS
<1> HIDE DEF s, next
<1>5. /\ next \in AppPage /\ next.shown = s /\ next.phase = page.phase /\ next.slot = page.slot
      /\ next.how = page.how /\ next.token = page.token
      /\ next.warned = page.warned /\ next.rev = page.rev /\ next.chat = page.chat
  <2>1. s \in [DOMAIN page.shown -> Shown]
    BY <1>3, <1>4
  <2> QED
    BY <1>1, <1>2, <2>1, ReshownTyped
<1>6. Alike(page.shown, next.shown)
  BY <1>3, <1>4, <1>5 DEF Alike
<1> QED
  BY <1>5, <1>6, ShownKept DEF next

LEMMA RevisedOK ==
    ASSUME NEW W, NEW page, PageOK(page, W), NEW r \in Nat, NEW next,
           next = [page EXCEPT !.rev = r] \/ (\E q \in Turns : next = Warned(page, q))
    PROVE  PageOK(next, W)
<1>1. page \in AppPage
  BY DEF PageOK
<1>2. Alike(page.shown, page.shown)
  BY DEF Alike
<1>3. CASE next = [page EXCEPT !.rev = r]
  <2>1. /\ next \in AppPage /\ next.phase = page.phase /\ next.slot = page.slot /\ next.how = page.how
        /\ next.token = page.token /\ next.shown = page.shown
    BY <1>1, <1>3 DEF AppPage
  <2> QED
    BY <1>2, <2>1, ShownKept
<1>4. ASSUME NEW q \in Turns, next = Warned(page, q)
      PROVE  PageOK(next, W)
  BY <1>1, <1>2, <1>4, WarnedTyped, ShownKept
<1> QED
  BY <1>3, <1>4

LEMMA LargerNat == \A a \in Nat, b \in Nat : Larger(a, b) \in Nat
BY DEF Larger

LEMMA SavedOK ==
    ASSUME PagesOK, NEW p \in AppPages, Saved(p), UNCHANGED alone
    PROVE  PagesOK'
<1> DEFINE page == app[p]
<1>1. PICK call \in calls :
        /\ call.op \in {"turn", "question", "answer"}
        /\ Set(p, [(IF call.op = "turn" THEN Released(IF Awaited(p, call) THEN Free(page) ELSE page, call.turn, TRUE)
                    ELSE IF Awaited(p, call) THEN Free(page) ELSE page) EXCEPT !.rev = Larger(@, call.got.rev)])
        /\ calls' = (calls \ {call}) \cup (IF call.op = "turn" THEN Approved(p, page, call.turn) ELSE {})
        /\ Keep
  BY DEF Saved, Saves, Waiting
<1> DEFINE over == IF Awaited(p, call) THEN Free(page) ELSE page
           mid == IF call.op = "turn" THEN Released(over, call.turn, TRUE) ELSE over
           next == [mid EXCEPT !.rev = Larger(@, call.got.rev)]
<1>2. call.turn \in Turns /\ call.got.rev \in Nat /\ page \in AppPage /\ PageOK(page, written)
  BY <1>1, PageNow DEF CallOK, Got
<1>3. PageOK(over, written)
  <2>1. PageOK(Free(page), written)
    BY <1>2, FreeTyped, IdleOK DEF Sending
  <2> QED
    BY <1>2, <2>1
<1> HIDE DEF over
<1>4. PageOK(mid, written)
  BY <1>3, ReleasedOK
<1> HIDE DEF mid
<1>5. PageOK(next, written)
  <2>1. mid.rev \in Nat
    BY <1>4, PageFields DEF PageOK
  <2>2. Larger(mid.rev, call.got.rev) \in Nat
    BY <1>2, <2>1, LargerNat
  <2>3. next = [mid EXCEPT !.rev = Larger(mid.rev, call.got.rev)]
    BY <1>4 DEF PageOK, AppPage
  <2> QED
    BY <1>4, <2>2, <2>3, RevisedOK
<1>6. \A x \in calls' : x \in calls \/ CallOK(x, written)
  <2>1. CallOK(ConfirmOf(p, page.chat, call.turn, TRUE, 0), written)
    BY <1>2, PageNow, RequestsOK
  <2> QED
    BY <1>1, <2>1 DEF Approved
<1>7. Set(p, next)
  BY <1>1 DEF mid, over
<1> QED
  BY <1>1, <1>5, <1>6, <1>7, AppTaken, PageNow DEF Keep

LEMMA SaveFailsOK ==
    ASSUME PagesOK, NEW p \in AppPages, SaveFails(p), UNCHANGED alone
    PROVE  PagesOK'
<1> DEFINE page == app[p]
<1>1. PICK call \in calls :
        /\ call.op \in {"turn", "question", "answer"}
        /\ LET regenerated == Awaited(p, call) /\ page.how = "regenerate"
               over == IF regenerated THEN [page EXCEPT !.phase = "syncing"]
                       ELSE IF Awaited(p, call) THEN Free(page) ELSE page
           IN  /\ Set(p, Warned(IF call.op = "turn" THEN Released(over, call.turn, FALSE) ELSE over, call.turn))
               /\ calls' = (calls \ {call}) \cup (IF regenerated THEN {LoadOf(p, page.chat)} ELSE {})
        /\ Keep
  BY DEF SaveFails, Saves, Waiting
<1> DEFINE regenerated == Awaited(p, call) /\ page.how = "regenerate"
           over == IF regenerated THEN [page EXCEPT !.phase = "syncing"]
                   ELSE IF Awaited(p, call) THEN Free(page) ELSE page
           mid == IF call.op = "turn" THEN Released(over, call.turn, FALSE) ELSE over
<1>2. call.turn \in Turns /\ page \in AppPage /\ PageOK(page, written)
  BY <1>1, PageNow DEF CallOK
<1>3. PageOK(over, written)
  <2>1. PageOK(Free(page), written)
    BY <1>2, FreeTyped, IdleOK DEF Sending
  <2>2. ASSUME regenerated
        PROVE  PageOK([page EXCEPT !.phase = "syncing"], written)
    <3> DEFINE later == [page EXCEPT !.phase = "syncing"]
    <3>1. later \in AppPage /\ later.phase = "syncing" /\ later.slot = page.slot /\ later.shown = page.shown
      BY <1>2 DEF AppPage, Phases
    <3>2. Sending(page)
      BY <2>2 DEF Awaited, Sending
    <3> HIDE DEF later
    <3>3. PageOK(later, written)
      BY <1>2, <3>1, <3>2, SettledOK
    <3> QED
      BY <3>3 DEF later
  <2> QED
    BY <1>2, <2>1, <2>2
<1>4. CallOK(LoadOf(p, page.chat), written)
  BY PageNow, RequestsOK DEF LoadOf
<1>5. \A x \in calls' : x \in calls \/ CallOK(x, written)
  BY <1>1, <1>4
<1>6. Set(p, Warned(mid, call.turn))
  BY <1>1
<1> HIDE DEF over
<1>7. PageOK(mid, written)
  BY <1>3, ReleasedOK
<1> HIDE DEF mid
<1>8. PageOK(Warned(mid, call.turn), written)
  <2>1. 0 \in Nat
    OBVIOUS
  <2> QED
    BY <1>2, <1>7, <2>1, RevisedOK
<1> QED
  BY <1>1, <1>5, <1>6, <1>8, AppTaken, PageNow DEF Keep

LEMMA SyncedOK ==
    ASSUME PagesOK, NEW p \in AppPages, Synced(p), UNCHANGED alone
    PROVE  PagesOK'
<1>1. PICK call \in calls :
        Set(p, [Free(app[p]) EXCEPT !.rev = Larger(@, call.got.rev)]) /\ calls' = calls \ {call} /\ Keep
  BY DEF Synced, Arrived, Waiting
<1> DEFINE page == Free(app[p])
           next == [page EXCEPT !.rev = Larger(@, call.got.rev)]
<1>2. page \in AppPage /\ page.phase = "idle" /\ call.got.rev \in Nat
  BY PageNow, FreeTyped DEF Got
<1> HIDE DEF page
<1>3. PageOK(page, written)
  BY <1>2, IdleOK DEF Sending
<1>4. next = [page EXCEPT !.rev = Larger(page.rev, call.got.rev)] /\ Larger(page.rev, call.got.rev) \in Nat
  BY <1>2, PageFields, LargerNat DEF AppPage
<1>5. PageOK(next, written)
  BY <1>3, <1>4, RevisedOK
<1> QED
  BY <1>1, <1>5, AppTaken, PageNow DEF Keep, page
(* One panel changes. *)
LEMMA OnePanelOK ==
    ASSUME NEW W, NEW page, PageOK(page, W), NEW i \in DOMAIN page.shown, page.shown[i].conf # "none",
           NEW m \in Shown, m.role = page.shown[i].role, m.turn = page.shown[i].turn
    PROVE  PageOK([page EXCEPT !.shown[i] = m], W)
<1> DEFINE next == [page EXCEPT !.shown[i] = m]
<1>1. page \in AppPage
  BY DEF PageOK
<1>2. next \in AppPage /\ next.shown = [page.shown EXCEPT ![i] = m]
  BY <1>1, SlotTyped
<1>3. next.phase = page.phase /\ next.slot = page.slot /\ next.how = page.how /\ next.token = page.token
  BY <1>1 DEF AppPage
<1> HIDE DEF next
<1>4. Alike(page.shown, next.shown)
  BY <1>2 DEF Alike
<1>5. PageOK(next, W)
  BY <1>2, <1>3, <1>4, ShownKept
<1> QED
  BY <1>5 DEF next

LEMMA ApproveOK ==
    ASSUME PagesOK, NEW p \in AppPages, Approve(p), UNCHANGED alone
    PROVE  PagesOK'
<1> DEFINE page == app[p]
<1>1. PICK i \in DOMAIN page.shown :
        LET m == page.shown[i]
            unsaved == \E call \in Waiting(p, "turn") : call.turn = m.turn
        IN  /\ m.conf = "open"
            /\ Set(p, [page EXCEPT !.shown[i].conf = IF unsaved THEN "waiting" ELSE "running"])
            /\ calls' = IF unsaved THEN calls
                        ELSE calls \cup {ConfirmOf(p, page.chat, m.turn, m.token, m.rev)}
            /\ Keep
  BY DEF Approve, Panels
<1> DEFINE m == page.shown[i]
           unsaved == \E call \in Waiting(p, "turn") : call.turn = m.turn
           k == IF unsaved THEN "waiting" ELSE "running"
           n == [m EXCEPT !.conf = k]
           next == [page EXCEPT !.shown[i].conf = k]
<1>2. page \in AppPage /\ PageOK(page, written) /\ m \in Shown
  BY PageNow, PageFields
<1>3. k \in {"none", "open", "waiting", "running", "stuck", "done"}
  OBVIOUS
<1> HIDE DEF k
<1>4. n \in Shown /\ n.role = m.role /\ n.turn = m.turn
  BY <1>2, <1>3, PanelTyped
<1>5. next = [page EXCEPT !.shown[i] = n]
  BY <1>2 DEF AppPage
<1>6. PageOK(next, written)
  <2> HIDE DEF n, next
  <2> QED
    BY <1>1, <1>2, <1>4, <1>5, OnePanelOK
<1>7. CallOK(ConfirmOf(p, page.chat, m.turn, m.token, m.rev), written)
  <2>1. m.turn \in Turns /\ m.token \in BOOLEAN /\ m.rev \in Nat
    BY <1>2 DEF Shown
  <2> HIDE DEF m
  <2> QED
    BY <2>1, PageNow, RequestsOK
<1>8. /\ Set(p, next) /\ Keep
      /\ calls' = IF unsaved THEN calls ELSE calls \cup {ConfirmOf(p, page.chat, m.turn, m.token, m.rev)}
  BY <1>1 DEF k
<1>9. \A x \in calls' : x \in calls \/ CallOK(x, written)
  <2> HIDE DEF m, unsaved
  <2> QED
    BY <1>7, <1>8
<1> QED
  BY <1>6, <1>8, <1>9, AppTaken, PageNow DEF Keep

LEMMA RejectOK ==
    ASSUME PagesOK, NEW p \in AppPages, Reject(p), UNCHANGED alone
    PROVE  PagesOK'
<1> DEFINE page == app[p]
<1>1. PICK i \in DOMAIN page.shown : page.shown[i].conf \in {"open", "stuck"} /\ Finished(p, page, i) /\ Keep
  BY DEF Reject, Panels
<1> DEFINE m == page.shown[i]
           n == [m EXCEPT !.conf = "done", !.text = TRUE]
           next == [page EXCEPT !.shown[i].conf = "done", !.shown[i].text = TRUE]
<1>2. page \in AppPage /\ PageOK(page, written) /\ m \in Shown
  BY PageNow, PageFields
<1>3. n \in Shown /\ n.role = m.role /\ n.turn = m.turn
  BY <1>2, PanelTyped
<1>4. next = [page EXCEPT !.shown[i] = n]
  BY <1>2 DEF AppPage
<1>5. PageOK(next, written)
  <2> HIDE DEF n, next
  <2> QED
    BY <1>1, <1>2, <1>3, <1>4, OnePanelOK
<1>6. CallOK(AnswerOf(p, page.chat, m.turn, "done", m.rev), written)
  <2>1. m.turn \in Turns /\ m.rev \in Nat /\ 0 \in Nat
    BY <1>2 DEF Shown
  <2>2. "done" \in Confirmations
    BY DEF Confirmations
  <2> HIDE DEF m
  <2> QED
    BY <2>1, <2>2, PageNow, RequestsOK
<1>7. Set(p, next) /\ calls' = calls \cup {AnswerOf(p, page.chat, m.turn, "done", m.rev)}
  BY <1>1 DEF Finished
<1> QED
  BY <1>1, <1>5, <1>6, <1>7, AppTaken, PageNow DEF Keep

LEMMA ActionRanOK ==
    ASSUME PagesOK, NEW p \in AppPages, ActionRan(p), UNCHANGED alone
    PROVE  PagesOK'
<1> DEFINE page == app[p]
<1>1. PICK call \in calls :
        LET panel == {i \in Panels(p, {"running"}) : page.shown[i].turn = call.turn}
        IN  /\ call.op = "confirm"
            /\ Set(p, [page EXCEPT !.shown = [i \in DOMAIN @ |->
                    IF i \in panel THEN [@[i] EXCEPT !.conf = "done", !.text = TRUE] ELSE @[i]]])
            /\ calls' = (calls \ {call}) \cup {AnswerOf(p, page.chat, call.turn, "done", call.rev)}
            /\ Keep
  BY DEF ActionRan, Arrived, Waiting
<1> DEFINE panel == {i \in Panels(p, {"running"}) : page.shown[i].turn = call.turn}
           s == [i \in DOMAIN page.shown |->
                    IF i \in panel THEN [page.shown[i] EXCEPT !.conf = "done", !.text = TRUE] ELSE page.shown[i]]
           next == [page EXCEPT !.shown = s]
<1>2. page \in AppPage /\ PageOK(page, written) /\ call.turn \in Turns /\ call.rev \in Nat
  BY <1>1, PageNow DEF CallOK, Call
<1>3. \A i \in DOMAIN page.shown : page.shown[i] \in Shown
  BY <1>2, PageFields
<1>4. \A i \in DOMAIN page.shown : /\ s[i] \in Shown /\ s[i].role = page.shown[i].role /\ s[i].turn = page.shown[i].turn
                                   /\ page.shown[i].conf = "none" => s[i] = page.shown[i]
  BY <1>3, PanelTyped DEF Panels
<1>5. s = [i \in DOMAIN page.shown |-> s[i]] /\ DOMAIN s = DOMAIN page.shown
  OBVIOUS
<1>6. Set(p, next) /\ calls' = (calls \ {call}) \cup {AnswerOf(p, page.chat, call.turn, "done", call.rev)}
  BY <1>1
<1>7. next = [page EXCEPT !.shown = s]
  OBVIOUS
<1> HIDE DEF s, next
<1>8. /\ next \in AppPage /\ next.shown = s /\ next.phase = page.phase /\ next.slot = page.slot
      /\ next.how = page.how /\ next.token = page.token
  <2>1. s \in [DOMAIN page.shown -> Shown] /\ page \in AppPage
    BY <1>2, <1>4, <1>5
  <2> QED
    BY <1>7, <2>1, ReshownTyped
<1>9. Alike(page.shown, next.shown)
  BY <1>4, <1>5, <1>8 DEF Alike
<1>10. PageOK(next, written)
  BY <1>2, <1>8, <1>9, ShownKept
<1>11. CallOK(AnswerOf(p, page.chat, call.turn, "done", call.rev), written)
  <2>1. "done" \in Confirmations /\ 0 \in Nat
    BY DEF Confirmations
  <2> QED
    BY <1>2, <2>1, PageNow, RequestsOK
<1> QED
  BY <1>1, <1>6, <1>10, <1>11, AppTaken, PageNow DEF Keep

LEMMA ActionFailsOK ==
    ASSUME PagesOK, NEW p \in AppPages, ActionFails(p), UNCHANGED alone
    PROVE  PagesOK'
<1> DEFINE page == app[p]
<1>1. PICK call \in calls :
        /\ Set(p, [page EXCEPT !.shown = [i \in DOMAIN @ |->
                IF @[i].turn = call.turn /\ @[i].conf = "running" THEN [@[i] EXCEPT !.conf = "open"] ELSE @[i]]])
        /\ calls' = calls \ {call}
        /\ Keep
  BY DEF ActionFails, Arrived, Waiting
<1> DEFINE s == [i \in DOMAIN page.shown |->
                    IF page.shown[i].turn = call.turn /\ page.shown[i].conf = "running"
                    THEN [page.shown[i] EXCEPT !.conf = "open"] ELSE page.shown[i]]
           next == [page EXCEPT !.shown = s]
<1>2. page \in AppPage /\ PageOK(page, written)
  BY PageNow
<1>3. \A i \in DOMAIN page.shown : page.shown[i] \in Shown
  BY <1>2, PageFields
<1>4. \A i \in DOMAIN page.shown : /\ s[i] \in Shown /\ s[i].role = page.shown[i].role /\ s[i].turn = page.shown[i].turn
                                   /\ page.shown[i].conf = "none" => s[i] = page.shown[i]
  BY <1>3, PanelTyped
<1>5. s = [i \in DOMAIN page.shown |-> s[i]] /\ DOMAIN s = DOMAIN page.shown
  OBVIOUS
<1>6. Set(p, next)
  BY <1>1
<1>7. next = [page EXCEPT !.shown = s]
  OBVIOUS
<1> HIDE DEF s, next
<1>8. /\ next \in AppPage /\ next.shown = s /\ next.phase = page.phase /\ next.slot = page.slot
      /\ next.how = page.how /\ next.token = page.token
  <2>1. s \in [DOMAIN page.shown -> Shown] /\ page \in AppPage
    BY <1>2, <1>4, <1>5
  <2> QED
    BY <1>7, <2>1, ReshownTyped
<1>9. Alike(page.shown, next.shown)
  BY <1>4, <1>5, <1>8 DEF Alike
<1>10. PageOK(next, written)
  BY <1>2, <1>8, <1>9, ShownKept
<1> QED
  BY <1>1, <1>6, <1>10, AppTaken, PageNow DEF Keep

LEMMA CustomizeOK ==
    ASSUME PagesOK, NEW p \in AppPages, Customize(p) \/ Customized(p), UNCHANGED alone
    PROVE  PagesOK'
<1>1. CASE Customize(p)
  <2>1. CallOK(Request(p, "meta", app[p].chat), written)
    BY PageNow, RequestsOK
  <2>2. Set(p, app[p])
    BY <1>1 DEF Customize, Set, PagesOK, AppOK
  <2>3. edits' \in 0..MaxEdits
    BY <1>1, PageNow, SessionAssumption DEF Customize
  <2> QED
    BY <1>1, <2>1, <2>2, <2>3, AppTaken, PageNow DEF Customize
<1>2. CASE Customized(p)
  <2>1. PICK call \in calls :
          /\ Set(p, [app[p] EXCEPT !.rev = IF call.state = "ok" THEN Larger(@, call.got.rev) ELSE @])
          /\ calls' = calls \ {call}
          /\ Keep
    BY <1>2 DEF Customized, Waiting
  <2> DEFINE r == IF call.state = "ok" THEN Larger(app[p].rev, call.got.rev) ELSE app[p].rev
             next == [app[p] EXCEPT !.rev = r]
  <2>2. app[p] \in AppPage /\ PageOK(app[p], written) /\ app[p].rev \in Nat /\ call.got.rev \in Nat
    BY PageNow, PageFields DEF Got
  <2>3. r \in Nat
    BY <2>2, LargerNat
  <2>4. Set(p, next)
    BY <2>1, <2>2 DEF AppPage
  <2> HIDE DEF r
  <2>5. PageOK(next, written)
    BY <2>2, <2>3, RevisedOK
  <2> QED
    BY <2>1, <2>4, <2>5, AppTaken, PageNow DEF Keep
<1> QED
  BY <1>1, <1>2

(* The last question on a page that shows one. *)
LEMMA LastQuestionTyped ==
    ASSUME NEW page \in AppPage, NEW i \in DOMAIN page.shown, page.shown[i].role = "user"
    PROVE  LastQuestion(page) \in Turns
<1> DEFINE n == Len(page.shown)
           S == {j \in 1..n : page.shown[j].role = "user"}
           last == CHOOSE j \in S : \A k \in S : k <= j
           found == CHOOSE j \in DOMAIN page.shown : /\ page.shown[j].role = "user"
                                                     /\ \A k \in j + 1 .. n : page.shown[k].role # "user"
<1>1. DOMAIN page.shown = 1..n /\ n \in Nat /\ \A j \in DOMAIN page.shown : page.shown[j] \in Shown
  BY PageFields
<1>2. i \in S
  BY <1>1
<1>3. \E j \in S : \A k \in S : k <= j
  <2> HIDE DEF n
  <2>1. S \in SUBSET (1..n) /\ S # {}
    BY <1>2
  <2> HIDE DEF S
  <2> QED
    BY <1>1, <2>1, LastMember
<1>4. PICK j \in S : \A k \in S : k <= j
  BY <1>3
<1>5. \A k \in j + 1 .. n : page.shown[k].role # "user"
  <2>1. SUFFICES ASSUME NEW k \in j + 1 .. n, page.shown[k].role = "user" PROVE FALSE
    OBVIOUS
  <2>2. j \in 1..n
    OBVIOUS
  <2>3. k \in 1..n /\ k > j
    BY <1>1, <2>2
  <2>4. k <= j
    BY <1>4, <2>1, <2>3
  <2> QED
    BY <1>1, <2>2, <2>3, <2>4
<1>6. found \in DOMAIN page.shown
  BY <1>1, <1>5
<1>7. LastQuestion(page) = page.shown[found].turn
  BY DEF LastQuestion
<1> QED
  BY <1>1, <1>6, <1>7 DEF Shown
LEMMA LeaveOK ==
    ASSUME PagesOK, NEW p \in AppPages, Destroy(p) \/ CloseTab(p), UNCHANGED alone
    PROVE  PagesOK'
<1> DEFINE page == app[p]
           mine == {call \in calls : call.page = p}
<1>1. PICK phase \in {"gone", "closed"} : Leave(p, phase)
  BY DEF Destroy, CloseTab
<1> DEFINE shown == IF phase = "gone" /\ (\E i \in DOMAIN page.shown : page.shown[i].conf \in {"waiting", "running"})
                    THEN page.shown ELSE <<>>
           next == [NewAppPage EXCEPT !.phase = phase, !.chat = page.chat, !.seen = page.seen, !.shown = shown]
<1>2. page \in AppPage /\ PageOK(page, written)
  BY PageNow
<1>3. Set(p, next) /\ Keep
  BY <1>1 DEF Leave
<1>4. shown \in Seq(Shown)
  BY <1>2, PageFields, EmptySeq
<1> HIDE DEF shown
<1>5. PageOK(next, written)
  <2>0. next = [NewAppPage EXCEPT !.phase = phase, !.chat = page.chat, !.seen = page.seen, !.shown = shown]
    OBVIOUS
  <2> HIDE DEF next, page
  <2>1. next = PageOf(phase, page.chat, shown, 0, 0, "send", 0, {}, page.seen)
    BY <2>0 DEF NewAppPage, PageOf
  <2>2. next \in AppPage /\ next.phase = phase
    BY <1>2, <1>4, <2>1, PageFields DEF PageOf, AppPage, Phases
  <2> QED
    BY <2>2, IdleOK DEF Sending
<1>6. \A call \in calls : CallOK([call EXCEPT !.state = "orphan"], written)
  <2>1. SUFFICES ASSUME NEW call \in calls PROVE CallOK([call EXCEPT !.state = "orphan"], written)
    OBVIOUS
  <2>2. call \in Call /\ call.got \in Got /\ CallOK(call, written)
    BY PageNow
  <2>3. CallOK(Answered(call, "orphan", call.got), written)
    BY <2>2, NotOkStaysOK
  <2> QED
    BY <2>2, <2>3, StateAlone
<1>7. HandsOver(page) =>
        CallOK([Request(p, "handover", page.chat) EXCEPT !.turn = LastQuestion(page), !.state = "orphan"], written)
  <2>1. SUFFICES ASSUME HandsOver(page)
                 PROVE  CallOK([Request(p, "handover", page.chat) EXCEPT !.turn = LastQuestion(page), !.state = "orphan"], written)
    OBVIOUS
  <2>2. PICK i \in DOMAIN page.shown : page.shown[i].role = "user"
    BY <1>2, <2>1 DEF HandsOver, PageOK
  <2>3. LastQuestion(page) \in Turns
    BY <1>2, <2>2, LastQuestionTyped
  <2> QED
    BY <2>3, PageNow, RequestsOK
<1>8. \A x \in calls' : x \in calls \/ CallOK(x, written)
  <2>1. \A x \in calls' :
          \/ x \in calls
          \/ \E c \in calls : x = [c EXCEPT !.state = "orphan"]
          \/ HandsOver(page) /\ x = [Request(p, "handover", page.chat) EXCEPT !.turn = LastQuestion(page), !.state = "orphan"]
    BY <1>1 DEF Leave
  <2> QED
    BY <1>6, <1>7, <2>1
<1> QED
  BY <1>3, <1>5, <1>8, AppTaken, PageNow DEF Keep

LEMMA AppStepKeeps ==
    ASSUME PagesOK, NEW p \in AppPages, AppStep(p), UNCHANGED alone
    PROVE  PagesOK'
<1>1. CASE Mount(p) \/ Loaded(p) \/ LoadFails(p) \/ RetryLoad(p) \/ Send(p) \/ Created(p) \/ StreamText(p)
  BY <1>1, MountOK, LoadedOK, LoadFailsOK, SendOK, CreatedOK, StreamTextOK
<1>2. CASE StreamDone(p) \/ StreamConfirmation(p) \/ StreamError(p) \/ StreamBreak(p) \/ Stop(p)
  BY <1>2, StreamDoneOK, StreamConfirmationOK, StreamErrorOK, StopOK
<1>3. CASE Regenerate(p) \/ RegenerateBegins(p) \/ RegenerateRefused(p) \/ Saved(p) \/ SaveFails(p) \/ Synced(p)
  BY <1>3, RegenerateOK, RegenerateBeginsOK, RegenerateRefusedOK, SavedOK, SaveFailsOK, SyncedOK
<1>4. CASE Approve(p) \/ Reject(p) \/ ActionRan(p) \/ ActionFails(p) \/ Customize(p) \/ Customized(p) \/ Destroy(p) \/ CloseTab(p)
  BY <1>4, ApproveOK, RejectOK, ActionRanOK, ActionFailsOK, CustomizeOK, LeaveOK
<1> QED
  BY <1>1, <1>2, <1>3, <1>4 DEF AppStep

-----------------------------------------------------------------------------
(* The standalone pages. *)
LEMMA AloneTaken ==
    ASSUME PagesOK, NEW s \in StandalonePages, NEW next \in StandalonePage, Become(s, next),
           UNCHANGED <<chats, jobs, ran, losses, written, app>>,
           asked' \in 0..MaxTurns, edits' \in 0..MaxEdits,
           \A x \in calls' : x \in calls \/ CallOK(x, written)
    PROVE  PagesOK'
<1>1. AloneOK'
  BY DEF PagesOK, AloneOK, Become
<1>2. CallsOK(written)'
  BY DEF PagesOK, CallsOK
<1>3. ServerTyped'
  BY DEF PagesOK, ServerTyped
<1>4. AllTold(written)'
  BY DEF PagesOK, AllTold
<1>5. AppOK(written)'
  BY DEF PagesOK, AppOK
<1> QED
  BY <1>1, <1>2, <1>3, <1>4, <1>5 DEF PagesOK

LEMMA AloneNow ==
    ASSUME PagesOK, NEW s \in StandalonePages
    PROVE  /\ s \in Pages /\ alone[s] \in StandalonePage /\ NoChat \in Chats \cup {NoChat}
           /\ alone[s].chat \in Chats \cup {NoChat} /\ alone[s].listed \subseteq Chats
           /\ alone[s].shown \in Seq(Shown) /\ alone[s].slot \in Nat
           /\ DOMAIN alone[s].shown = 1..Len(alone[s].shown) /\ Len(alone[s].shown) \in Nat
           /\ \A i \in DOMAIN alone[s].shown : alone[s].shown[i] \in Shown
           /\ asked \in 0..MaxTurns /\ edits \in 0..MaxEdits
           /\ \A call \in calls : call \in Call /\ call.got \in Got /\ CallOK(call, written)
<1>1. alone[s] \in StandalonePage
  BY DEF PagesOK, AloneOK
<1>2. alone[s].shown \in Seq(Shown) /\ alone[s].chat \in Chats \cup {NoChat} /\ alone[s].listed \subseteq Chats /\ alone[s].slot \in Nat
  BY <1>1 DEF StandalonePage
<1>3. DOMAIN alone[s].shown = 1..Len(alone[s].shown) /\ Len(alone[s].shown) \in Nat
  BY <1>2, LenProperties
<1>4. \A i \in DOMAIN alone[s].shown : alone[s].shown[i] \in Shown
  BY <1>2, <1>3, ElementOfSeq
<1>5. \A call \in calls : call \in Call /\ CallOK(call, written)
  BY DEF PagesOK, CallsOK, CallOK
<1>6. \A call \in calls : call.got \in Got
  BY <1>5, StateAlone
<1>7. s \in Pages /\ asked \in 0..MaxTurns /\ edits \in 0..MaxEdits
  BY DEF Pages, PagesOK, ServerTyped
<1> QED
  BY <1>1, <1>2, <1>3, <1>4, <1>5, <1>6, <1>7

(* The list, the choice of a chat, new and deleted chats. *)
LEMMA ListingOK ==
    ASSUME PagesOK, NEW s \in StandalonePages,
           Open(s) \/ Listed(s) \/ ListFails(s) \/ Choose(s) \/ ChatLoaded(s) \/ ChatLoadFails(s), UNCHANGED app
    PROVE  PagesOK'
<1> DEFINE page == alone[s]
<1>1. page \in StandalonePage /\ Become(s, page) = (alone' = alone) /\ \A call \in calls : call.got \in Got
  <2>1. [alone EXCEPT ![s] = page] = alone
    BY DEF PagesOK, AloneOK
  <2> QED
    BY <2>1, AloneNow DEF Become
<1>2. /\ CallOK(ListAgain(s), written) /\ CallOK(Refresh(s), written)
      /\ \A c \in Chats : CallOK(LoadOf(s, c), written) /\ CallOK([LoadOf(s, c) EXCEPT !.next = TRUE], written)
  BY AloneNow, RequestsOK DEF ListAgain, Refresh, LoadOf
<1>3. /\ asked \in 0..MaxTurns /\ edits \in 0..MaxEdits
      /\ Click => edits' \in 0..MaxEdits /\ UNCHANGED <<chats, asked, jobs, ran, losses, written>>
      /\ Same => UNCHANGED <<chats, asked, jobs, ran, losses, edits, written>>
  BY AloneNow, SessionAssumption DEF Click, Same
<1>4. CASE Open(s)
  <2>1. [page EXCEPT !.phase = "idle", !.busy = TRUE] \in StandalonePage
    BY <1>1 DEF StandalonePage
  <2> QED
    BY <1>2, <1>3, <1>4, <2>1, AloneTaken DEF Open
<1>5. CASE Listed(s)
  <2>1. PICK call \in calls :
          LET later == [page EXCEPT !.listed = call.got.listed, !.busy = IF call.next THEN FALSE ELSE @]
          IN  /\ \/ \E c \in call.got.listed :
                      Become(s, [later EXCEPT !.chat = c]) /\ calls' = (calls \ {call}) \cup {LoadOf(s, c)}
                 \/ Become(s, later) /\ calls' = calls \ {call}
              /\ Same
    <3>1. PICK call \in calls :
            LET later == [page EXCEPT !.listed = call.got.listed, !.busy = IF call.next THEN FALSE ELSE @]
            IN  /\ IF call.next /\ later.chat = NoChat /\ later.listed # {}
                   THEN \E c \in later.listed :
                          Become(s, [later EXCEPT !.chat = c]) /\ calls' = (calls \ {call}) \cup {LoadOf(s, c)}
                   ELSE Become(s, later) /\ calls' = calls \ {call}
                /\ Same
      BY <1>5 DEF Listed, Arrived, Waiting
    <3>2. [page EXCEPT !.listed = call.got.listed, !.busy = IF call.next THEN FALSE ELSE @].listed = call.got.listed
      BY <1>1 DEF StandalonePage
    <3> HIDE DEF page
    <3> QED
      BY <3>1, <3>2
  <2> DEFINE busy == IF call.next THEN FALSE ELSE page.busy
             later == [page EXCEPT !.listed = call.got.listed, !.busy = IF call.next THEN FALSE ELSE @]
  <2>2. call.got.listed \subseteq Chats
    BY <1>1 DEF Got
  <2>3. busy \in BOOLEAN /\ later = [page EXCEPT !.listed = call.got.listed, !.busy = busy]
    BY <1>1 DEF StandalonePage
  <2> HIDE DEF busy, later
  <2>4. later \in StandalonePage
    BY <1>1, <2>2, <2>3 DEF StandalonePage
  <2>5. \A c \in Chats : [later EXCEPT !.chat = c] \in StandalonePage
    BY <2>4 DEF StandalonePage
  <2>6. \/ \E c \in call.got.listed :
             Become(s, [later EXCEPT !.chat = c]) /\ calls' = (calls \ {call}) \cup {LoadOf(s, c)}
        \/ Become(s, later) /\ calls' = calls \ {call}
    BY <2>1 DEF later
  <2>7. CASE Become(s, later) /\ calls' = calls \ {call}
    BY <1>3, <2>1, <2>4, <2>7, AloneTaken
  <2>8. ASSUME NEW c \in call.got.listed, Become(s, [later EXCEPT !.chat = c]), calls' = (calls \ {call}) \cup {LoadOf(s, c)}
        PROVE  PagesOK'
    <3>1. c \in Chats
      BY <2>2
    <3>2. [later EXCEPT !.chat = c] \in StandalonePage /\ CallOK(LoadOf(s, c), written)
      BY <1>2, <2>5, <3>1
    <3> QED
      BY <1>3, <2>1, <2>8, <3>2, AloneTaken
  <2> QED
    BY <2>6, <2>7, <2>8
<1>6. CASE ListFails(s)
  <2>1. PICK call \in calls :
          Become(s, [page EXCEPT !.busy = IF call.next THEN FALSE ELSE @]) /\ calls' = calls \ {call} /\ Same
    BY <1>6 DEF ListFails, Arrived, Waiting
  <2>2. [page EXCEPT !.busy = IF call.next THEN FALSE ELSE @] \in StandalonePage
    BY <1>1 DEF StandalonePage
  <2> QED
    BY <1>3, <2>1, <2>2, AloneTaken
<1>7. CASE Choose(s)
  <2>1. PICK c \in page.listed :
          Become(s, [page EXCEPT !.chat = c]) /\ calls' = calls \cup {[LoadOf(s, c) EXCEPT !.next = TRUE]} /\ Click
    BY <1>7 DEF Choose
  <2>2. c \in Chats
    BY AloneNow
  <2>3. [page EXCEPT !.chat = c] \in StandalonePage
    BY <1>1, <2>2 DEF StandalonePage
  <2> QED
    BY <1>2, <1>3, <2>1, <2>2, <2>3, AloneTaken
<1>8. CASE ChatLoaded(s)
  <2>1. PICK call \in calls :
          /\ Become(s, [page EXCEPT !.shown = Bubbles(call.got.msgs)])
          /\ calls' = (calls \ {call}) \cup (IF call.next THEN {ListAgain(s)} ELSE {})
          /\ Same
    BY <1>8 DEF ChatLoaded, Arrived, Waiting
  <2>2. call.got.msgs \in Seq(Message)
    BY <1>1 DEF Got
  <2> DEFINE shown == Bubbles(call.got.msgs)
  <2>3. shown \in Seq(Shown)
    BY <2>2, BubblesTyped
  <2> HIDE DEF shown
  <2>4. [page EXCEPT !.shown = shown] \in StandalonePage
    BY <1>1, <2>3 DEF StandalonePage
  <2> QED
    BY <1>2, <1>3, <2>1, <2>4, AloneTaken DEF shown
<1>9. CASE ChatLoadFails(s)
  <2>1. PICK call \in calls : calls' = calls \ {call} /\ Become(s, page) /\ Same
    BY <1>1, <1>9 DEF ChatLoadFails, Arrived, Waiting
  <2> QED
    BY <1>1, <1>3, <2>1, AloneTaken
<1> QED
  BY <1>4, <1>5, <1>6, <1>7, <1>8, <1>9
LEMMA ListChangesOK ==
    ASSUME PagesOK, NEW s \in StandalonePages,
           NewChatClicked(s) \/ NewChatOpens(s) \/ NewChatFails(s) \/ DeleteChat(s) \/ Deleted(s) \/ DeleteFails(s),
           UNCHANGED app
    PROVE  PagesOK'
<1> DEFINE page == alone[s]
<1>1. page \in StandalonePage /\ Become(s, page) = (alone' = alone) /\ \A call \in calls : call.got \in Got
  <2>1. [alone EXCEPT ![s] = page] = alone
    BY DEF PagesOK, AloneOK
  <2> QED
    BY <2>1, AloneNow DEF Become
<1>2. /\ CallOK(Refresh(s), written) /\ CallOK([Request(s, "create", NoChat) EXCEPT !.next = TRUE], written)
      /\ \A c \in Chats : CallOK(Request(s, "delete", c), written)
  BY AloneNow, RequestsOK DEF Refresh
<1>3. /\ asked \in 0..MaxTurns /\ edits \in 0..MaxEdits
      /\ Click => edits' \in 0..MaxEdits /\ UNCHANGED <<chats, asked, jobs, ran, losses, written>>
      /\ Same => UNCHANGED <<chats, asked, jobs, ran, losses, edits, written>>
  BY AloneNow, SessionAssumption DEF Click, Same
<1>4. /\ \A b \in BOOLEAN : [page EXCEPT !.busy = b] \in StandalonePage
      /\ \A c \in Chats \cup {NoChat} : [page EXCEPT !.chat = c, !.shown = <<>>] \in StandalonePage
      /\ [page EXCEPT !.chat = NoChat, !.shown = <<>>, !.busy = TRUE] \in StandalonePage
  BY <1>1, EmptySeq DEF StandalonePage
<1>5. CASE NewChatClicked(s)
  BY <1>2, <1>3, <1>4, <1>5, AloneTaken DEF NewChatClicked
<1>6. CASE NewChatOpens(s)
  <2>1. PICK call \in calls :
          Become(s, [page EXCEPT !.chat = call.got.chat, !.shown = <<>>]) /\ calls' = (calls \ {call}) \cup {Refresh(s)} /\ Same
    BY <1>6 DEF NewChatOpens, Arrived, Waiting
  <2>2. call.got.chat \in Chats \cup {NoChat}
    BY <1>1 DEF Got
  <2> QED
    BY <1>2, <1>3, <1>4, <2>1, <2>2, AloneTaken
<1>7. CASE NewChatFails(s)
  BY <1>3, <1>4, <1>7, AloneTaken DEF NewChatFails
<1>8. CASE DeleteChat(s)
  <2>1. PICK c \in page.listed : calls' = calls \cup {Request(s, "delete", c)} /\ Become(s, page) /\ Click
    BY <1>1, <1>8 DEF DeleteChat
  <2>2. c \in Chats
    BY AloneNow
  <2> QED
    BY <1>1, <1>2, <1>3, <2>1, <2>2, AloneTaken
<1>9. CASE Deleted(s)
  <2>1. PICK call \in calls :
          /\ \/ Become(s, [page EXCEPT !.chat = NoChat, !.shown = <<>>, !.busy = TRUE])
             \/ Become(s, [page EXCEPT !.busy = TRUE])
          /\ calls' = (calls \ {call}) \cup {Refresh(s)}
          /\ Same
    BY <1>9 DEF Deleted, Arrived, Waiting
  <2> QED
    BY <1>2, <1>3, <1>4, <2>1, AloneTaken
<1>10. CASE DeleteFails(s)
  BY <1>1, <1>3, <1>10, AloneTaken DEF DeleteFails
<1> QED
  BY <1>5, <1>6, <1>7, <1>8, <1>9, <1>10

(* What a page saves: a question, and an answer whose question is stored. *)
LEMMA SavesOK ==
    ASSUME PagesOK, NEW s \in StandalonePages, NEW q \in Turns, NEW k \in Confirmations, NEW i \in {0, 1}
    PROVE  /\ \A b \in BOOLEAN : \A x \in SaveQuestion(s, q, k, b, i) : CallOK(x, written)
           /\ k = "done" \/ Told("user", q, written) => \A x \in SaveAnswer(s, q, k, i) : CallOK(x, written)
<1>1. s \in Pages /\ alone[s].chat \in Chats \cup {NoChat} /\ i \in Nat /\ 0 \in Nat
  BY AloneNow
<1>2. \A b \in BOOLEAN : CallOK([QuestionOf(s, alone[s].chat, q) EXCEPT !.conf = k, !.next = b, !.index = i], written)
  BY <1>1, RequestsOK
<1>3. k = "done" \/ Told("user", q, written) =>
        CallOK([AnswerOf(s, alone[s].chat, q, k, 0) EXCEPT !.index = i], written)
  BY <1>1, RequestsOK
<1> QED
  BY <1>2, <1>3 DEF SaveQuestion, SaveAnswer

(* The end of a stream. *)
LEMMA OverTyped ==
    ASSUME NEW page \in StandalonePage, page.slot \in DOMAIN page.shown, Slot(page) \in Shown, NEW text \in BOOLEAN,
           NEW k \in {"none", "open"}
    PROVE  Over(page, text, k) \in StandalonePage
<1> DEFINE m == [Slot(page) EXCEPT !.text = text, !.done = TRUE, !.conf = k]
           t == [page.shown EXCEPT ![page.slot] = m]
           next == Over(page, text, k)
<1>1. m \in Shown
  BY DEF Shown
<1>2. page.shown \in Seq(Shown) /\ page.slot \in 1..Len(page.shown)
  <2>1. page.shown \in Seq(Shown)
    BY DEF StandalonePage
  <2> QED
    BY <2>1, LenProperties
<1>3. t \in Seq(Shown)
  <2> HIDE DEF m
  <2> QED
    BY <1>1, <1>2, ExceptSeq
<1>4. next = [page EXCEPT !.phase = "idle", !.slot = 0, !.stopped = FALSE, !.shown = t]
  <2>1. page = [phase |-> page.phase, chat |-> page.chat, shown |-> page.shown, slot |-> page.slot,
                stopped |-> page.stopped, listed |-> page.listed, busy |-> page.busy]
    BY DEF StandalonePage
  <2>2. Slot(page) = page.shown[page.slot]
    BY DEF Slot
  <2> QED
    BY ZenonT(60), <2>1, <2>2 DEF Over
<1> HIDE DEF t, next
<1>5. next \in StandalonePage
  BY <1>3, <1>4 DEF StandalonePage
<1> QED
  BY <1>5 DEF next

LEMMA ConversationOK ==
    ASSUME PagesOK, NEW s \in StandalonePages,
           SendQuestion(s) \/ ChatEnsured(s) \/ StopClicked(s) \/ Unheard(s), UNCHANGED app
    PROVE  PagesOK'
<1> DEFINE page == alone[s]
<1>1. /\ page \in StandalonePage /\ page.shown \in Seq(Shown) /\ Len(page.shown) \in Nat
      /\ s \in Pages /\ asked \in 0..MaxTurns /\ edits \in 0..MaxEdits /\ \A call \in calls : call.got \in Got
  BY AloneNow
<1>2. CASE SendQuestion(s)
  <2> DEFINE q == asked + 1
             two == <<Asking(q), Answering(q)>>
             shown == page.shown \o two
             phase == IF page.chat = NoChat THEN "creating" ELSE "streaming"
             next == [page EXCEPT !.shown = shown, !.slot = Len(shown), !.stopped = FALSE, !.phase = phase]
  <2>1. q \in Turns /\ q \in 0..MaxTurns
    BY <1>1, <1>2, ChatAssumption DEF SendQuestion, Turns
  <2>2. two \in Seq(Shown) /\ Len(two) = 2
    BY <2>1, BubblesTyped
  <2>3. Become(s, next) /\ asked' = q /\ UNCHANGED <<chats, jobs, ran, losses, edits, written>>
    BY <1>2 DEF SendQuestion
  <2>4. shown \in Seq(Shown) /\ Len(shown) \in Nat
    <3> HIDE DEF two
    <3> QED
      BY <1>1, <2>2, ConcatProperties, LenProperties
  <2>5. phase \in {"creating", "streaming"}
    OBVIOUS
  <2> HIDE DEF shown, phase
  <2>6. next \in StandalonePage
    BY <1>1, <2>4, <2>5 DEF StandalonePage
  <2>7. CallOK(Request(s, "create", NoChat), written)
    BY <1>1, RequestsOK
  <2>8. \A x \in calls' : x \in calls \/ CallOK(x, written)
    BY <1>2, <2>7 DEF SendQuestion
  <2> QED
    BY <1>1, <2>1, <2>3, <2>6, <2>8, AloneTaken
<1>3. CASE ChatEnsured(s)
  <2>1. PICK call \in calls :
          /\ Become(s, [page EXCEPT !.phase = "streaming", !.chat = IF call.state = "ok" THEN call.got.chat ELSE @])
          /\ calls' = calls \ {call} /\ Same
    BY <1>3 DEF ChatEnsured, Waiting
  <2>2. call.got.chat \in Chats \cup {NoChat}
    BY <1>1 DEF Got
  <2>3. [page EXCEPT !.phase = "streaming", !.chat = IF call.state = "ok" THEN call.got.chat ELSE @] \in StandalonePage
    BY <1>1, <2>2 DEF StandalonePage
  <2> QED
    BY <1>1, <2>1, <2>3, AloneTaken DEF Same
<1>4. CASE StopClicked(s)
  <2>1. [page EXCEPT !.stopped = TRUE] \in StandalonePage
    BY <1>1 DEF StandalonePage
  <2> QED
    BY <1>1, <1>4, <2>1, AloneTaken DEF StopClicked, Same
<1>5. CASE Unheard(s)
  <2>1. [page EXCEPT !.phase = "idle", !.slot = 0, !.stopped = FALSE] \in StandalonePage
    BY <1>1 DEF StandalonePage
  <2> QED
    BY <1>1, <1>5, <2>1, AloneTaken DEF Unheard, Same
<1> QED
  BY <1>2, <1>3, <1>4, <1>5

LEMMA StreamOK ==
    ASSUME PagesOK, NEW s \in StandalonePages, Text(s) \/ Terminal(s) \/ Broken(s), UNCHANGED app
    PROVE  PagesOK'
<1> DEFINE page == alone[s]
<1>1. /\ page \in StandalonePage /\ page.shown \in Seq(Shown) /\ DOMAIN page.shown = 1..Len(page.shown)
      /\ asked \in 0..MaxTurns /\ edits \in 0..MaxEdits
  BY AloneNow
<1>2. page.slot \in DOMAIN page.shown /\ Slot(page) \in Shown /\ Slot(page).turn \in Turns /\ Slot(page).text \in BOOLEAN
  <2>1. page.slot \in DOMAIN page.shown
    BY DEF Text, Terminal, Broken, Hears
  <2>2. Slot(page) \in Shown
    BY <2>1, AloneNow DEF Slot
  <2> QED
    BY <2>1, <2>2 DEF Shown
<1>3. "none" \in Confirmations /\ "open" \in Confirmations
  BY DEF Confirmations
<1>4. CASE Text(s)
  <2> DEFINE m == [Slot(page) EXCEPT !.text = TRUE]
             t == [page.shown EXCEPT ![page.slot] = m]
             next == [page EXCEPT !.shown[page.slot].text = TRUE]
  <2>1. m \in Shown
    BY <1>2 DEF Shown
  <2>2. t \in Seq(Shown)
    <3> HIDE DEF m
    <3> QED
      BY <1>1, <1>2, <2>1, ExceptSeq
  <2>3. next = [page EXCEPT !.shown = t]
    BY <1>1 DEF Slot, StandalonePage
  <2>4. Become(s, next) /\ UNCHANGED calls /\ Same
    BY <1>4 DEF Text
  <2> HIDE DEF t, next
  <2>5. next \in StandalonePage
    BY <1>1, <2>2, <2>3 DEF StandalonePage
  <2> QED
    BY <1>1, <2>4, <2>5, AloneTaken DEF Same
<1>5. \A text \in BOOLEAN, k \in {"none", "open"} : Over(page, text, k) \in StandalonePage
  BY <1>1, <1>2, OverTyped
<1>6. \A k \in {"none", "open"}, b \in BOOLEAN, i \in {0, 1} :
        \A x \in SaveQuestion(s, Slot(page).turn, k, b, i) : CallOK(x, written)
  BY <1>2, <1>3, SavesOK
<1>7. CASE Terminal(s)
  <2>1. \E text \in BOOLEAN, k \in {"none", "open"}, b \in BOOLEAN, i \in {0, 1} :
          Become(s, Over(page, text, k)) /\ calls' = calls \cup SaveQuestion(s, Slot(page).turn, k, b, i)
    BY <1>7 DEF Terminal
  <2> QED
    BY <1>1, <1>5, <1>6, <1>7, <2>1, AloneTaken DEF Terminal, Same
<1>8. CASE Broken(s)
  <2> DEFINE text == Slot(page).text \/ ~page.stopped
  <2>1. text \in BOOLEAN
    BY <1>2
  <2>2. Become(s, Over(page, text, "none"))
    BY <1>8 DEF Broken
  <2> HIDE DEF text
  <2>3. \A x \in calls' : x \in calls \/ CallOK(x, written)
    BY <1>6, <1>8 DEF Broken
  <2> QED
    BY <1>1, <1>5, <1>8, <2>1, <2>2, <2>3, AloneTaken DEF Broken, Same
<1> QED
  BY <1>4, <1>7, <1>8
LEMMA AnswerSavesOK ==
    ASSUME PagesOK, NEW s \in StandalonePages, NEW q \in Turns, NEW k \in Confirmations, NEW i \in Nat,
           k = "done" \/ Told("user", q, written)
    PROVE  \A x \in SaveAnswer(s, q, k, i) : CallOK(x, written)
<1>1. s \in Pages /\ alone[s].chat \in Chats \cup {NoChat} /\ 0 \in Nat
  BY AloneNow
<1>2. CallOK([AnswerOf(s, alone[s].chat, q, k, 0) EXCEPT !.index = i], written)
  BY <1>1, RequestsOK
<1> QED
  BY <1>2 DEF SaveAnswer

(* Panels that change their state. *)
LEMMA PanelsTyped ==
    ASSUME NEW page \in StandalonePage, NEW t \in [DOMAIN page.shown -> Shown], NEW next,
           next = [page EXCEPT !.shown = t]
    PROVE  next \in StandalonePage
<1>1. page.shown \in Seq(Shown)
  BY DEF StandalonePage
<1>2. DOMAIN page.shown = 1..Len(page.shown) /\ Len(page.shown) \in Nat
  BY <1>1, LenProperties
<1>3. t \in Seq(Shown)
  BY <1>2, SeqDef
<1> QED
  BY <1>3 DEF StandalonePage

LEMMA GoingTyped ==
    ASSUME NEW page \in StandalonePage, \A i \in DOMAIN page.shown : page.shown[i] \in Shown, NEW q
    PROVE  Going(page, q) \in StandalonePage
<1> DEFINE t == [i \in DOMAIN page.shown |->
                    IF page.shown[i].turn = q /\ page.shown[i].conf = "waiting"
                    THEN [page.shown[i] EXCEPT !.conf = "running"] ELSE page.shown[i]]
           next == Going(page, q)
<1>1. \A i \in DOMAIN page.shown : t[i] \in Shown
  BY PanelTyped
<1>2. t \in [DOMAIN page.shown -> Shown]
  BY <1>1
<1>3. next = [page EXCEPT !.shown = t]
  BY DEF Going
<1> HIDE DEF t, next
<1>4. next \in StandalonePage
  BY <1>2, <1>3, PanelsTyped
<1> QED
  BY <1>4 DEF next

LEMMA WritesOverOK ==
    ASSUME PagesOK, NEW s \in StandalonePages, QuestionSaved(s) \/ QuestionFails(s) \/ AnswerSaved(s), UNCHANGED app
    PROVE  PagesOK'
<1> DEFINE page == alone[s]
<1>1. /\ page \in StandalonePage /\ s \in Pages /\ asked \in 0..MaxTurns /\ edits \in 0..MaxEdits
      /\ \A i \in DOMAIN page.shown : page.shown[i] \in Shown
      /\ page.chat \in Chats \cup {NoChat} /\ NoChat \in Chats \cup {NoChat}
      /\ \A call \in calls : call \in Call /\ CallOK(call, written)
  BY AloneNow
<1>2. Become(s, page) = (alone' = alone)
  <2>1. [alone EXCEPT ![s] = page] = alone
    BY DEF PagesOK, AloneOK
  <2> QED
    BY <2>1 DEF Become
<1>3. PICK call \in calls :
        /\ call.op \in {"question", "answer"}
        /\ \/ Become(s, page) \/ Become(s, Going(page, call.turn))
        /\ \A x \in calls' :
              \/ x \in calls
              \/ x \in Approval(s, call.turn) \/ x \in ThenList(s, call)
              \/ call.op = "question" /\ call.state = "ok" /\ x \in SaveAnswer(s, call.turn, call.conf, call.index)
        /\ Same
  <2>1. CASE QuestionSaved(s)
    <3>1. PICK call \in calls :
            /\ call.op = "question" /\ call.state = "ok"
            /\ LET answer == IF call.next THEN SaveAnswer(s, call.turn, call.conf, call.index) ELSE {}
               IN  /\ IF answer = {} /\ call.conf = "open"
                      THEN /\ Become(s, Going(alone[s], call.turn))
                           /\ calls' = (calls \ {call}) \cup Approval(s, call.turn)
                      ELSE /\ calls' = (calls \ {call}) \cup (IF answer = {} THEN ThenList(s, call) ELSE answer)
                           /\ UNCHANGED alone
                   /\ Same
      BY <2>1 DEF QuestionSaved, Arrived, Waiting
    <3>2. Become(s, page) \/ Become(s, Going(page, call.turn))
      BY <1>2, <3>1
    <3>3. \A x \in calls' :
              \/ x \in calls \/ x \in Approval(s, call.turn) \/ x \in ThenList(s, call)
              \/ x \in SaveAnswer(s, call.turn, call.conf, call.index)
      BY <3>1
    <3> QED
      BY <3>1, <3>2, <3>3
  <2>2. CASE QuestionFails(s)
    <3>1. PICK call \in calls :
            /\ call.op = "question"
            /\ Become(s, IF call.conf = "open" THEN Going(alone[s], call.turn) ELSE alone[s])
            /\ calls' = (calls \ {call}) \cup
                  (IF call.conf = "open" THEN Approval(s, call.turn) ELSE ThenList(s, call))
            /\ Same
      BY <2>2 DEF QuestionFails, Arrived, Waiting
    <3> QED
      BY <3>1
  <2>3. CASE AnswerSaved(s)
    <3>1. PICK call \in calls :
            /\ call.op = "answer"
            /\ Become(s, IF call.conf = "open" THEN Going(alone[s], call.turn) ELSE alone[s])
            /\ calls' = (calls \ {call}) \cup
                  (IF call.conf = "open" THEN Approval(s, call.turn) ELSE ThenList(s, call))
            /\ Same
      BY <2>3 DEF AnswerSaved, Waiting
    <3> QED
      BY <3>1
  <2> QED
    BY <2>1, <2>2, <2>3
<1>4. call.turn \in Turns /\ call.conf \in Confirmations /\ call.index \in Nat
  BY <1>1, <1>3 DEF CallOK, Call
<1>5. Going(page, call.turn) \in StandalonePage
  BY <1>1, GoingTyped
<1>6. \A x \in calls' : x \in calls \/ CallOK(x, written)
  <2>1. \A x \in Approval(s, call.turn) : CallOK(x, written)
    <3>1. 0 \in Nat /\ TRUE \in BOOLEAN
      OBVIOUS
    <3>2. CallOK(ConfirmOf(s, page.chat, call.turn, TRUE, 0), written)
      BY <1>1, <1>4, <3>1, RequestsOK
    <3> QED
      BY <3>2 DEF Approval
  <2>2. \A x \in ThenList(s, call) : CallOK(x, written)
    BY <1>1, RequestsOK DEF ThenList, ListAgain
  <2>3. call.op = "question" /\ call.state = "ok" =>
          \A x \in SaveAnswer(s, call.turn, call.conf, call.index) : CallOK(x, written)
    <3>1. call.op = "question" /\ call.state = "ok" => Told("user", call.turn, written)
      BY <1>1 DEF CallOK
    <3> QED
      BY <1>4, <3>1, AnswerSavesOK
  <2> QED
    BY <1>3, <2>1, <2>2, <2>3
<1> QED
  BY <1>1, <1>3, <1>5, <1>6, AloneTaken DEF Same

LEMMA StandalonePanelsOK ==
    ASSUME PagesOK, NEW s \in StandalonePages, ApproveClicked(s) \/ Cancelled(s) \/ ActionOver(s), UNCHANGED app
    PROVE  PagesOK'
<1> DEFINE page == alone[s]
<1>1. /\ page \in StandalonePage /\ s \in Pages /\ asked \in 0..MaxTurns /\ edits \in 0..MaxEdits
      /\ \A i \in DOMAIN page.shown : page.shown[i] \in Shown
      /\ page.chat \in Chats \cup {NoChat} /\ page.shown \in Seq(Shown)
      /\ \A call \in calls : call \in Call /\ CallOK(call, written)
  BY AloneNow
<1>2. ASSUME NEW i \in DOMAIN page.shown, NEW k \in {"none", "open", "waiting", "running", "stuck", "done"}
      PROVE  [page EXCEPT !.shown[i].conf = k] \in StandalonePage
  <2> DEFINE m == [page.shown[i] EXCEPT !.conf = k]
             t == [page.shown EXCEPT ![i] = m]
             next == [page EXCEPT !.shown[i].conf = k]
  <2>1. m \in Shown
    BY <1>1, PanelTyped
  <2>2. t \in [DOMAIN page.shown -> Shown]
    <3>1. page.shown = [j \in DOMAIN page.shown |-> page.shown[j]]
      BY <1>1, LenProperties, SeqDef
    <3> HIDE DEF m
    <3> QED
      BY <1>1, <2>1, <3>1
  <2>3. next = [page EXCEPT !.shown = t]
    BY <1>1 DEF StandalonePage
  <2> HIDE DEF t, next
  <2>4. next \in StandalonePage
    BY <1>1, <2>2, <2>3, PanelsTyped
  <2> QED
    BY <2>4 DEF next
<1>3. CASE ApproveClicked(s)
  <2>1. PICK i \in DOMAIN page.shown : \E unsaved \in BOOLEAN :
          /\ Become(s, [page EXCEPT !.shown[i].conf = IF unsaved THEN "waiting" ELSE "running"])
          /\ calls' = IF unsaved THEN calls ELSE calls \cup {ConfirmOf(s, page.chat, page.shown[i].turn, TRUE, 0)}
          /\ Same
    BY <1>3 DEF ApproveClicked
  <2>2. PICK k \in {"waiting", "running"} : Become(s, [page EXCEPT !.shown[i].conf = k])
    BY <2>1
  <2>3. page.shown[i].turn \in Turns /\ 0 \in Nat /\ TRUE \in BOOLEAN
    BY <1>1 DEF Shown
  <2>4. CallOK(ConfirmOf(s, page.chat, page.shown[i].turn, TRUE, 0), written)
    BY <1>1, <2>3, RequestsOK
  <2>5. \A x \in calls' : x \in calls \/ CallOK(x, written)
    BY <2>1, <2>4
  <2>6. [page EXCEPT !.shown[i].conf = k] \in StandalonePage
    BY <1>2
  <2> QED
    BY <1>1, <2>1, <2>2, <2>5, <2>6, AloneTaken DEF Same
<1>4. CASE Cancelled(s)
  <2>1. PICK i \in DOMAIN page.shown :
          /\ Become(s, [page EXCEPT !.shown[i].conf = "done"])
          /\ calls' = calls \cup SaveAnswer(s, page.shown[i].turn, "done", 1)
          /\ Same
    BY <1>4 DEF Cancelled
  <2>2. page.shown[i].turn \in Turns /\ "done" \in Confirmations
    BY <1>1 DEF Shown, Confirmations
  <2>3. \A x \in SaveAnswer(s, page.shown[i].turn, "done", 1) : CallOK(x, written)
    BY <2>2, AnswerSavesOK
  <2>4. \A x \in calls' : x \in calls \/ CallOK(x, written)
    BY <2>1, <2>3
  <2>5. [page EXCEPT !.shown[i].conf = "done"] \in StandalonePage
    BY <1>2
  <2> QED
    BY <1>1, <2>1, <2>4, <2>5, AloneTaken DEF Same
<1>5. CASE ActionOver(s)
  <2>1. PICK call \in calls :
          /\ call.op = "confirm"
          /\ Become(s, [page EXCEPT !.shown = [i \in DOMAIN @ |->
                IF @[i].turn = call.turn /\ @[i].conf = "running" THEN [@[i] EXCEPT !.conf = "done"] ELSE @[i]]])
          /\ calls' = (calls \ {call}) \cup SaveAnswer(s, call.turn, "done", 1)
          /\ Same
    BY <1>5 DEF ActionOver, Waiting
  <2> DEFINE t == [i \in DOMAIN page.shown |->
                    IF page.shown[i].turn = call.turn /\ page.shown[i].conf = "running"
                    THEN [page.shown[i] EXCEPT !.conf = "done"] ELSE page.shown[i]]
             next == [page EXCEPT !.shown = t]
  <2>2. call.turn \in Turns /\ "done" \in Confirmations
    BY <1>1, <2>1 DEF CallOK, Confirmations
  <2>3. \A x \in SaveAnswer(s, call.turn, "done", 1) : CallOK(x, written)
    BY <2>2, AnswerSavesOK
  <2>4. \A x \in calls' : x \in calls \/ CallOK(x, written)
    BY <2>1, <2>3
  <2>5. \A i \in DOMAIN page.shown : t[i] \in Shown
    BY <1>1, PanelTyped
  <2>6. t \in [DOMAIN page.shown -> Shown] /\ Become(s, next)
    BY <2>1, <2>5
  <2>7. next = [page EXCEPT !.shown = t]
    OBVIOUS
  <2> HIDE DEF t, next
  <2>8. next \in StandalonePage
    BY <1>1, <2>6, <2>7, PanelsTyped
  <2> QED
    BY <1>1, <2>1, <2>4, <2>6, <2>8, AloneTaken DEF Same
<1> QED
  BY <1>3, <1>4, <1>5

LEMMA StandaloneStepKeeps ==
    ASSUME PagesOK, NEW s \in StandalonePages, StandaloneStep(s), UNCHANGED app
    PROVE  PagesOK'
BY ListingOK, ListChangesOK, ConversationOK, StreamOK, WritesOverOK, StandalonePanelsOK DEF StandaloneStep
-----------------------------------------------------------------------------
(* Every step keeps the types, and what an answer stands for is stored before it. *)
LEMMA PagesStay ==
    ASSUME ServerOK', written \subseteq written', PagesOK, UNCHANGED pages
    PROVE  PagesOK'
<1>1. AppOK(written)'
  <2>1. \A page : PageOK(page, written) => PageOK(page, written')
    BY ToldStays
  <2> QED
    BY <2>1 DEF PagesOK, AppOK, pages
<1> QED
  BY <1>1 DEF PagesOK, ServerOK, AloneOK, pages

LEMMA PagesStepKeeps ==
    ASSUME PagesOK, [Next]_vars
    PROVE  PagesOK' /\ written \subseteq written'
<1>1. ASSUME NEW p \in Pages, NEW op \in Ops, Server(p, op)
      PROVE  PagesOK' /\ written \subseteq written'
  BY <1>1, ServerStepKeeps, PagesStay DEF Server
<1>2. CASE JobDone \/ Network
  BY <1>2, JobDoneKeeps, NetworkKeeps, PagesStay DEF JobDone, Network
<1>3. ASSUME NEW p \in AppPages, AppStep(p), UNCHANGED alone
      PROVE  PagesOK' /\ written \subseteq written'
  BY <1>3, AppStepKeeps, AppLeavesChats
<1>4. ASSUME NEW s \in StandalonePages, StandaloneStep(s), UNCHANGED app
      PROVE  PagesOK' /\ written \subseteq written'
  BY <1>4, StandaloneStepKeeps, StandaloneLeavesChats
<1>5. CASE UNCHANGED vars
  <2>1. ServerOK'
    BY <1>5 DEF vars, serverVars, PagesOK, ServerOK, ServerTyped, AllTold, CallsOK
  <2> QED
    BY <1>5, <2>1, PagesStay DEF vars, serverVars, pages
<1> QED
  BY <1>1, <1>2, <1>3, <1>4, <1>5 DEF Next

LEMMA PagesBegin == Init => PagesOK
<1> SUFFICES ASSUME NEW session \in Sessions,
                    chats = [c \in Chats |->
                       IF c = CHOOSE d \in session.chats : TRUE
                       THEN TurnAppended(NewChat("live"), 1, "none")
                       ELSE NewChat(IF c \in session.chats THEN "unborn" ELSE "deleted")],
                    written = UNION {Noted(c, NewChat("live"), chats[c]) : c \in Chats},
                    asked = 1, InitCalls(session), InitApp(session), InitStandalone(session)
             PROVE  PagesOK
  BY DEF Init
<1>1. 1 \in Turns /\ 1 \in 0..MaxTurns
  BY ChatAssumption DEF Turns
<1>2. TurnAppended(NewChat("live"), 1, "none") \in ChatType
  <2>1. NewChat("live") \in ChatType
    BY ChatsTyped
  <2>2. Question(1) \in Message /\ Answer(1, "none") \in Message /\ 0 \in Nat
    BY <1>1, MessagesTyped DEF Confirmations
  <2> DEFINE mid == Appended(NewChat("live"), Question(1), 0)
  <2>3. mid \in ChatType
    BY <2>1, <2>2, AppendedTyped
  <2>4. TurnAppended(NewChat("live"), 1, "none") = Appended(mid, Answer(1, "none"), 0)
    BY DEF TurnAppended
  <2> HIDE DEF mid
  <2> QED
    BY <2>2, <2>3, <2>4, AppendedTyped
<1>3. chats \in [Chats -> ChatType]
  BY <1>2, ChatsTyped
<1>4. ServerTyped
  <2>1. session.losses \in 0..MaxLosses /\ session.edits \in 0..MaxEdits /\ MaxLosses \in Nat /\ MaxEdits \in Nat
    BY SessionAssumption
  <2>2. losses \in 0..MaxLosses /\ edits \in 0..MaxEdits
    BY <2>1 DEF InitCalls
  <2> QED
    BY <1>1, <1>3, <2>2 DEF ServerTyped, InitCalls
<1>5. AllTold(written)
  BY ZenonT(60), NotedTells DEF AllTold
<1>6. CallsOK(written)
  BY DEF CallsOK, InitCalls
<1>7. AppOK(written)
  <2>1. ASSUME NEW phase \in {"new", "closed"}
        PROVE  PageOK([NewAppPage EXCEPT !.phase = phase], written) /\ [NewAppPage EXCEPT !.phase = phase] \in AppPage
    <3> DEFINE next == [NewAppPage EXCEPT !.phase = phase]
    <3>1. next \in AppPage /\ next.phase = phase
      BY EmptySeq DEF NewAppPage, AppPage, Phases
    <3> HIDE DEF next
    <3>2. PageOK(next, written)
      BY <3>1, IdleOK DEF Sending
    <3> QED
      BY <3>1, <3>2 DEF next
  <2>2. \A p \in AppPages : \E phase \in {"new", "closed"} : app[p] = [NewAppPage EXCEPT !.phase = phase]
    BY DEF InitApp
  <2>3. app = [p \in AppPages |-> app[p]]
    BY DEF InitApp
  <2> QED
    BY <2>1, <2>2, <2>3 DEF AppOK
<1>8. AloneOK
  <2>1. \A phase \in {"new", "closed"} : [NewStandalonePage EXCEPT !.phase = phase] \in StandalonePage
    BY EmptySeq DEF NewStandalonePage, StandalonePage
  <2> QED
    BY <2>1 DEF AloneOK, InitStandalone
<1> QED
  BY <1>4, <1>5, <1>6, <1>7, <1>8 DEF PagesOK

(* The values the chats, the requests and the pages of both kinds take: every  *)
(* handler leaves a page it can go on with, and every answer of the server is   *)
(* one its page can take (mountChat(), standalone-chat.js, ChatStore).         *)
THEOREM ChatTypes == Spec => []TypeOK
<1>1. Init => PagesOK
  BY PagesBegin
<1>2. PagesOK /\ [Next]_vars => PagesOK'
  BY PagesStepKeeps
<1>3. PagesOK => TypeOK
  <2>1. SUFFICES ASSUME PagesOK PROVE TypeOK
    OBVIOUS
  <2>2. \A c \in Chats : chats[c] \in ChatType
    BY <2>1 DEF PagesOK, ServerTyped
  <2>3. \A c \in Chats : /\ chats[c].state \in {"unborn", "live", "deleted"}
                         /\ chats[c].msgs \in Seq(Message) /\ chats[c].rev \in Nat
    BY <2>2 DEF ChatType
  <2> QED
    BY <2>1, <2>3 DEF PagesOK, ServerTyped, CallsOK, CallOK, AppOK, AloneOK, TypeOK
<1> QED
  BY <1>1, <1>2, <1>3, PTL DEF Spec

(* A question is stored before any answer to it that is not the outcome of a    *)
(* confirmation panel, on both kinds of pages, whatever is lost, refused,      *)
(* delayed or closed: the question of an answer that is sent is in the history *)
(* already (saveTurn() writes both at once, standalone saveQuestion() is       *)
(* awaited, a regeneration answers a question the server has found).           *)
THEOREM QuestionsComeFirst == Spec => QuestionFirst
<1>1. Init => PagesOK
  BY PagesBegin
<1>2. PagesOK /\ [Next]_vars => PagesOK'
  BY PagesStepKeeps
<1>3. PagesOK /\ [Next]_vars =>
        [\A call \in Pending \ calls' :
           (call.op = "answer" /\ call.conf # "done" /\ <<"assistant", call.chat, call.turn>> \in written')
              => \E c \in Chats : <<"user", c, call.turn>> \in written']_vars
  <2>1. SUFFICES ASSUME PagesOK, [Next]_vars, NEW call \in Pending, call.op = "answer", call.conf # "done"
                 PROVE  \E c \in Chats : <<"user", c, call.turn>> \in written'
    OBVIOUS
  <2>2. Told("user", call.turn, written)
    BY <2>1 DEF Pending, PagesOK, CallsOK, CallOK
  <2> QED
    BY <2>1, <2>2, PagesStepKeeps DEF Told
<1> QED
  BY <1>1, <1>2, <1>3, PTL DEF Spec, QuestionFirst

-----------------------------------------------------------------------------
(* No answer is lost.  A complete answer on a page is stored, warned about or   *)
(* on its way; the panel of a regeneration, which no token guards, may also be  *)
(* open, or wait for its action.                                               *)
Complete(m) == m.role = "assistant" /\ m.done /\ m.text /\ ~m.error

OnItsWay(p, q, ops, C) ==
    \E call \in C : call.page = p /\ call.turn = q /\ call.op \in ops /\ call.state # "orphan"

Safe(p, page, q, C, W) == Told("assistant", q, W) \/ q \in page.warned \/ OnItsWay(p, q, {"turn", "answer"}, C)

EntryOK(p, page, m, C, W) ==
    Complete(m) => \/ Safe(p, page, m.turn, C, W)
                   \/ ~m.token /\ m.conf = "open"
                   \/ ~m.token /\ m.conf = "running" /\ OnItsWay(p, m.turn, {"confirm"}, C)

NoLoss ==
    \A p \in AppPages : Mounted(app[p]) =>
        \A i \in DOMAIN app[p].shown : EntryOK(p, app[p], app[p].shown[i], calls, written)

(* What page p waits for, for question q, it goes on waiting for. *)
Onward(p, q, C, D) ==
    \A call \in C : (call.page = p /\ call.turn = q /\ call.op \in {"turn", "answer", "confirm"} /\ call.state # "orphan") =>
        \E later \in D : later.page = p /\ later.turn = q /\ later.op = call.op /\ later.state # "orphan"

LEMMA EntryStays ==
    ASSUME NEW p, NEW page, NEW later, NEW m, NEW C, NEW D, NEW V, NEW W, V \subseteq W,
           page.warned \subseteq later.warned, Onward(p, m.turn, C, D), EntryOK(p, page, m, C, V)
    PROVE  EntryOK(p, later, m, D, W)
<1>1. Told("assistant", m.turn, V) => Told("assistant", m.turn, W)
  BY DEF Told
<1>2. \A ops \in SUBSET {"turn", "answer", "confirm"} : OnItsWay(p, m.turn, ops, C) => OnItsWay(p, m.turn, ops, D)
  BY DEF OnItsWay, Onward
<1>3. {"turn", "answer"} \in SUBSET {"turn", "answer", "confirm"} /\ {"confirm"} \in SUBSET {"turn", "answer", "confirm"}
  OBVIOUS
<1>4. Safe(p, page, m.turn, C, V) => Safe(p, later, m.turn, D, W)
  BY <1>1, <1>2, <1>3 DEF Safe
<1> QED
  BY <1>2, <1>3, <1>4 DEF EntryOK

(* The steps of the server and of the network. *)
LEMMA LossStays ==
    ASSUME NoLoss, written \subseteq written', UNCHANGED app,
           \A p \in AppPages, q \in Turns : Onward(p, q, calls, calls'), PagesOK
    PROVE  NoLoss'
<1> SUFFICES ASSUME NEW p \in AppPages, Mounted(app[p]), NEW i \in DOMAIN app[p].shown
             PROVE  EntryOK(p, app[p], app[p].shown[i], calls', written')
  BY DEF NoLoss
<1>1. EntryOK(p, app[p], app[p].shown[i], calls, written)
  BY DEF NoLoss
<1>2. app[p].shown[i].turn \in Turns
  BY PageNow, PageFields DEF Shown
<1> QED
  BY <1>1, <1>2, EntryStays

LEMMA AnsweredFields ==
    ASSUME NEW call \in Call, NEW state, NEW got
    PROVE  /\ Answered(call, state, got).page = call.page /\ Answered(call, state, got).op = call.op
           /\ Answered(call, state, got).turn = call.turn /\ Answered(call, state, got).state = state
BY DEF Call, Answered

LEMMA ReplyGoesOn ==
    ASSUME PagesOK, NEW call \in calls, NEW state \in {"ok", "refused"}, NEW got, Reply(call, state, got)
    PROVE  \A p, q : Onward(p, q, calls, calls')
<1>1. call \in Call
  BY DEF PagesOK, CallsOK, CallOK
<1>2. calls' = (calls \ {call}) \cup (IF call.state = "orphan" THEN {} ELSE {Answered(call, state, got)})
  BY DEF Reply, Answered
<1> QED
  BY <1>1, <1>2, AnsweredFields DEF Onward

LEMMA ServerGoesOn ==
    ASSUME PagesOK, NEW p, NEW op, Server(p, op)
    PROVE  \A r, q : Onward(r, q, calls, calls')
<1>1. PICK call \in calls :
        \/ ServeLoad(call) \/ ServeList(call) \/ ServeCreate(call) \/ ServeDelete(call)
        \/ ServeTurn(call) \/ ServeMessage(call) \/ ServeRegenerate(call)
        \/ ServeConfirm(call) \/ ServeHandover(call) \/ ServeMeta(call)
  BY DEF Server, Serve, Pending
<1>2. \E state \in {"ok", "refused"} : \E got : Reply(call, state, got)
  <2>1. CASE ServeLoad(call) \/ ServeList(call)
    BY <2>1 DEF ServeLoad, ServeList
  <2>2. CASE ServeCreate(call)
    BY <2>2 DEF ServeCreate, Refuse
  <2>3. CASE ServeDelete(call) \/ ServeTurn(call) \/ ServeMessage(call) \/ ServeHandover(call) \/ ServeMeta(call)
    BY <2>3 DEF ServeDelete, ServeTurn, ServeMessage, ServeHandover, ServeMeta, Store, Refuse
  <2>4. CASE ServeRegenerate(call)
    BY <2>4 DEF ServeRegenerate, Refuse
  <2>5. CASE ServeConfirm(call)
    BY <2>5 DEF ServeConfirm, Refuse
  <2> QED
    BY <1>1, <2>1, <2>2, <2>3, <2>4, <2>5
<1> QED
  BY <1>2, ReplyGoesOn

LEMMA NetworkGoesOn ==
    ASSUME PagesOK, Network
    PROVE  \A p, q : Onward(p, q, calls, calls')
<1>1. \A call \in calls : call \in Call
  BY DEF PagesOK, CallsOK, CallOK
<1>2. PICK call \in calls :
        \/ calls' = (calls \ {call}) \cup {Answered(call, "refused", Nothing)}
        \/ call.state = "orphan" /\ calls' = calls \ {call}
        \/ calls' = (calls \ {call}) \cup {Answered(call, "refused", call.got), Answered(call, "orphan", call.got)}
  <2>1. \A call \in calls : /\ [call EXCEPT !.state = "refused"] = Answered(call, "refused", call.got)
                            /\ [call EXCEPT !.state = "orphan"] = Answered(call, "orphan", call.got)
    BY <1>1, StateAlone
  <2> QED
    BY <2>1 DEF Network, Lose, Answered
<1> QED
  BY <1>1, <1>2, AnsweredFields DEF Onward

-----------------------------------------------------------------------------
(* The steps of a page. *)
LEMMA LossTaken ==
    ASSUME PagesOK, NoLoss, NEW p \in AppPages, NEW next, Set(p, next), UNCHANGED written,
           \A call \in calls \ calls' : call.page = p,
           Mounted(next) => \A i \in DOMAIN next.shown : EntryOK(p, next, next.shown[i], calls', written)
    PROVE  NoLoss'
<1>1. app' = [app EXCEPT ![p] = next] /\ app \in [AppPages -> AppPage]
  BY DEF Set, PagesOK, AppOK
<1>2. app'[p] = next /\ \A r \in AppPages : r # p => app'[r] = app[r]
  BY <1>1
<1>3. ASSUME NEW r \in AppPages, r # p, Mounted(app[r]), NEW i \in DOMAIN app[r].shown
      PROVE  EntryOK(r, app[r], app[r].shown[i], calls', written)
  <2>1. EntryOK(r, app[r], app[r].shown[i], calls, written)
    BY <1>3 DEF NoLoss
  <2>2. \A q : Onward(r, q, calls, calls')
    BY <1>3 DEF Onward
  <2> QED
    BY <2>1, <2>2, EntryStays
<1> QED
  BY <1>2, <1>3 DEF NoLoss

(* A step that takes nothing out of the way. *)
LEMMA QuietStep ==
    ASSUME PagesOK, NoLoss, NEW p \in AppPages, NEW next, Set(p, next), UNCHANGED written,
           Mounted(app[p]), app[p].warned \subseteq next.warned,
           \A call \in calls \ calls' : call.page = p /\ call.op \notin {"turn", "answer", "confirm"},
           \A i \in DOMAIN next.shown :
              \/ ~Complete(next.shown[i])
              \/ \E j \in DOMAIN app[p].shown : next.shown[i] = app[p].shown[j]
              \/ Safe(p, next, next.shown[i].turn, calls', written)
              \/ ~next.shown[i].token /\ next.shown[i].conf = "open"
    PROVE  NoLoss'
<1>1. \A q : Onward(p, q, calls, calls')
  BY DEF Onward
<1>2. ASSUME NEW i \in DOMAIN next.shown
      PROVE  EntryOK(p, next, next.shown[i], calls', written)
  <2>1. CASE \E j \in DOMAIN app[p].shown : next.shown[i] = app[p].shown[j]
    <3>1. EntryOK(p, app[p], next.shown[i], calls, written)
      BY <2>1 DEF NoLoss
    <3> QED
      BY <1>1, <3>1, EntryStays
  <2>2. CASE ~\E j \in DOMAIN app[p].shown : next.shown[i] = app[p].shown[j]
    BY <2>2 DEF EntryOK
  <2> QED
    BY <2>1, <2>2
<1> QED
  BY <1>2, LossTaken

(* ... and fills the place of the answer with m. *)
LEMMA FilledLoss ==
    ASSUME PagesOK, NoLoss, NEW p \in AppPages, NEW next, Set(p, next), UNCHANGED written,
           Sending(app[p]), app[p].warned \subseteq next.warned,
           \A call \in calls \ calls' : call.page = p /\ call.op \notin {"turn", "answer", "confirm"},
           NEW m, next.shown = [app[p].shown EXCEPT ![app[p].slot] = m],
           \/ ~Complete(m) \/ OnItsWay(p, m.turn, {"turn", "answer"}, calls')
           \/ ~m.token /\ m.conf = "open"
    PROVE  NoLoss'
<1>1. app[p].slot \in DOMAIN app[p].shown /\ Mounted(app[p])
  BY PageNow DEF PageOK, Sending, Mounted
<1>2. ASSUME NEW i \in DOMAIN next.shown
      PROVE  next.shown[i] = m \/ \E j \in DOMAIN app[p].shown : next.shown[i] = app[p].shown[j]
  BY <1>1
<1> QED
  BY <1>1, <1>2, QuietStep DEF Safe

LEMMA MountLoss ==
    ASSUME PagesOK, NoLoss, NEW p \in AppPages, Mount(p)
    PROVE  NoLoss'
<1>1. PICK next : /\ Set(p, next) /\ next.shown = <<>>
                  /\ calls \subseteq calls' /\ UNCHANGED written
  <2>1. /\ [NewAppPage EXCEPT !.phase = "idle"].shown = <<>>
        /\ \A c : [NewAppPage EXCEPT !.phase = "loading", !.chat = c].shown = <<>>
    BY DEF NewAppPage
  <2> QED
    BY <2>1 DEF Mount, Keep
<1>2. DOMAIN next.shown = {}
  BY <1>1
<1> QED
  BY <1>1, <1>2, LossTaken

LEMMA LoadedLoss ==
    ASSUME PagesOK, NoLoss, NEW p \in AppPages, Loaded(p)
    PROVE  NoLoss'
<1>1. PICK call \in calls :
        /\ call.op = "load" /\ call.state = "ok" /\ call.page = p
        /\ Set(p, Restored(app[p], call.got)) /\ calls' = calls \ {call} /\ UNCHANGED written
  BY DEF Loaded, Arrived, Waiting, Keep
<1> DEFINE next == Restored(app[p], call.got)
<1>2. call.got \in Got /\ CallOK(call, written) /\ app[p] \in AppPage
  BY PageNow
<1>3. next.shown = Bubbles(call.got.msgs)
  BY <1>2, RestoredTyped
<1>4. \A i \in DOMAIN next.shown : Complete(next.shown[i]) => Told("assistant", next.shown[i].turn, written)
  <2>1. DOMAIN next.shown = DOMAIN call.got.msgs
        /\ \A i \in DOMAIN call.got.msgs : next.shown[i] = Bubble(call.got.msgs[i])
    BY <1>3 DEF Bubbles
  <2>2. \A m : Bubble(m).role = m.role /\ Bubble(m).turn = m.turn
    BY DEF Bubble
  <2>3. \A i \in DOMAIN call.got.msgs : Told(call.got.msgs[i].role, call.got.msgs[i].turn, written)
    BY <1>1, <1>2 DEF CallOK
  <2> HIDE DEF next
  <2> QED
    BY <2>1, <2>2, <2>3 DEF Complete
<1> HIDE DEF next
<1>5. \A i \in DOMAIN next.shown : EntryOK(p, next, next.shown[i], calls', written)
  BY <1>4 DEF EntryOK, Safe
<1> QED
  BY <1>1, <1>5, LossTaken DEF next

LEMMA LoadFailsLoss ==
    ASSUME PagesOK, NoLoss, NEW p \in AppPages, LoadFails(p) \/ RetryLoad(p) \/ Synced(p) \/ Customized(p)
    PROVE  NoLoss'
<1>1. app[p] \in AppPage /\ Mounted(app[p]) /\ UNCHANGED written
  BY PageNow DEF LoadFails, RetryLoad, Synced, Customized, Mounted, Keep
<1>2. \A call \in calls \ calls' : call.page = p /\ call.op \notin {"turn", "answer", "confirm"}
  BY DEF LoadFails, RetryLoad, Synced, Customized, Arrived, Waiting
<1>3. PICK next : Set(p, next) /\ next.shown = app[p].shown /\ app[p].warned \subseteq next.warned
  <2>1. CASE LoadFails(p)
    <3>1. CASE app[p].phase = "loading" /\ Set(p, [app[p] EXCEPT !.phase = "failed"])
      <4>1. [app[p] EXCEPT !.phase = "failed"].shown = app[p].shown /\ [app[p] EXCEPT !.phase = "failed"].warned = app[p].warned
        BY <1>1 DEF AppPage
      <4> QED
        BY <3>1, <4>1
    <3>2. CASE app[p].phase \in {"restoring", "syncing"} /\ Set(p, Warned(Free(app[p]), Turn(app[p])))
      <4>1. Turn(app[p]) \in Turns
        BY <3>2, TurnTyped DEF Sending
      <4>2. Free(app[p]) \in AppPage /\ Free(app[p]).shown = app[p].shown /\ Free(app[p]).warned = app[p].warned
        BY <1>1, FreeTyped
      <4> QED
        BY <3>2, <4>1, <4>2, WarnedTyped
    <3> QED
      BY <2>1, <3>1, <3>2 DEF LoadFails
  <2>2. CASE RetryLoad(p)
    <3>1. [app[p] EXCEPT !.phase = "loading"].shown = app[p].shown /\ [app[p] EXCEPT !.phase = "loading"].warned = app[p].warned
      BY <1>1 DEF AppPage
    <3> QED
      BY <2>2, <3>1 DEF RetryLoad
  <2>3. CASE Synced(p)
    <3>1. Free(app[p]) \in AppPage /\ Free(app[p]).shown = app[p].shown /\ Free(app[p]).warned = app[p].warned
      BY <1>1, FreeTyped
    <3>2. \A r : LET next == [Free(app[p]) EXCEPT !.rev = r] IN next.shown = app[p].shown /\ next.warned = app[p].warned
      BY <3>1 DEF AppPage
    <3> QED
      BY <2>3, <3>2 DEF Synced
  <2>4. CASE Customized(p)
    <3>1. \A r : LET next == [app[p] EXCEPT !.rev = r] IN next.shown = app[p].shown /\ next.warned = app[p].warned
      BY <1>1 DEF AppPage
    <3> QED
      BY <2>4, <3>1 DEF Customized
  <2> QED
    BY <2>1, <2>2, <2>3, <2>4
<1> QED
  BY <1>1, <1>2, <1>3, QuietStep
LEMMA SendLoss ==
    ASSUME PagesOK, NoLoss, NEW p \in AppPages, Send(p)
    PROVE  NoLoss'
<1> DEFINE page == app[p]
           q == asked + 1
           two == <<Asking(q), Answering(q)>>
           shown == page.shown \o two
           next == [page EXCEPT !.shown = shown, !.slot = Len(shown), !.how = "send", !.seen = @ \cup {q},
                       !.phase = IF page.chat = NoChat THEN "creating" ELSE "streaming"]
<1>1. /\ page \in AppPage /\ q \in Turns /\ Mounted(page)
      /\ page.shown \in Seq(Shown) /\ DOMAIN page.shown = 1..Len(page.shown) /\ Len(page.shown) \in Nat
  BY PageNow, PageFields, ChatAssumption DEF Send, Turns, Mounted
<1>2. two \in Seq(Shown) /\ Len(two) = 2 /\ two[1] = Asking(q) /\ two[2] = Answering(q)
  BY <1>1, BubblesTyped
<1>3. \A i \in DOMAIN shown : \/ \E j \in DOMAIN page.shown : shown[i] = page.shown[j]
                              \/ shown[i] = Asking(q) \/ shown[i] = Answering(q)
  <2> HIDE DEF two
  <2>1. /\ shown \in Seq(Shown) /\ Len(shown) = Len(page.shown) + 2
        /\ \A i \in 1..Len(page.shown) + 2 :
              shown[i] = IF i <= Len(page.shown) THEN page.shown[i] ELSE two[i - Len(page.shown)]
    <3>1. page.shown \in Seq(Shown) /\ two \in Seq(Shown) /\ Len(two) = 2 /\ Len(page.shown) \in Nat
      BY <1>1, <1>2
    <3>2. /\ page.shown \o two \in Seq(Shown) /\ Len(page.shown \o two) = Len(page.shown) + 2
          /\ \A i \in 1..Len(page.shown) + 2 :
                (page.shown \o two)[i] = IF i <= Len(page.shown) THEN page.shown[i] ELSE two[i - Len(page.shown)]
      BY <3>1, ConcatProperties DEF two
    <3> QED
      BY <3>2
  <2> HIDE DEF shown
  <2>2. DOMAIN shown = 1..Len(page.shown) + 2
    BY <1>1, <2>1, LenProperties
  <2>3. ASSUME NEW i \in 1..Len(page.shown) + 2
        PROVE  i <= Len(page.shown) \/ i - Len(page.shown) = 1 \/ i - Len(page.shown) = 2
    BY <1>1
  <2> QED
    BY <1>1, <1>2, <2>1, <2>2, <2>3
<1>4. ~Complete(Asking(q)) /\ ~Complete(Answering(q))
  BY DEF Complete, Asking, Answering, Bubble, Question, Answer
<1>5. next.shown = shown /\ next.warned = page.warned
  <2> HIDE DEF shown
  <2> QED
    BY <1>1 DEF AppPage
<1>6. Set(p, next) /\ UNCHANGED written /\ calls \subseteq calls'
  BY DEF Send
<1> HIDE DEF next, shown
<1> QED
  BY <1>1, <1>3, <1>4, <1>5, <1>6, QuietStep

LEMMA CreatedLoss ==
    ASSUME PagesOK, NoLoss, NEW p \in AppPages, Created(p)
    PROVE  NoLoss'
<1>1. app[p].phase = "creating" /\ Sending(app[p]) /\ Mounted(app[p]) /\ app[p] \in AppPage /\ UNCHANGED written
  BY PageNow DEF Created, Sending, Mounted, Keep
<1>2. \A call \in calls \ calls' : call.page = p /\ call.op \notin {"turn", "answer", "confirm"}
  BY DEF Created, Arrived, Waiting
<1>3. /\ app[p].slot \in 1..Len(app[p].shown) /\ Len(app[p].shown) \in Nat /\ DOMAIN app[p].shown = 1..Len(app[p].shown)
      /\ \A i \in 1..Len(app[p].shown) : app[p].shown[i] \in Shown
  BY <1>1, PageNow, PageFields DEF PageOK
<1>4. ASSUME NEW call \in calls,
             Set(p, IF [app[p] EXCEPT !.chat = call.got.chat, !.rev = call.got.rev].how = "stopped"
                    THEN Free(Ended([app[p] EXCEPT !.chat = call.got.chat, !.rev = call.got.rev], FALSE, FALSE))
                    ELSE [[app[p] EXCEPT !.chat = call.got.chat, !.rev = call.got.rev] EXCEPT !.phase = "streaming"])
      PROVE  NoLoss'
  <2> DEFINE page == [app[p] EXCEPT !.chat = call.got.chat, !.rev = call.got.rev]
  <2>1. call.got.chat \in Chats \cup {NoChat} /\ call.got.rev \in Nat
    BY PageNow DEF Got
  <2>2. page \in AppPage /\ page.shown = app[p].shown /\ page.slot = app[p].slot /\ page.warned = app[p].warned
    BY <1>1, <2>1 DEF AppPage
  <2>3. CASE Set(p, Free(Ended(page, FALSE, FALSE)))
    <3> DEFINE m == EndedEntry(page, FALSE, FALSE)
               next == Free(Ended(page, FALSE, FALSE))
    <3>1. page.slot \in DOMAIN page.shown /\ page.phase \in Phases
      BY <1>3, <2>2, PageFields
    <3> HIDE DEF page
    <3>2. m \in Shown /\ Ended(page, FALSE, FALSE) = Filled(page, m, page.phase)
      BY <2>2, <3>1, EndedIsFilled
    <3>3. ~Complete(m)
      <4>1. Current(page) \in Shown
        BY <2>2, <3>1, PageFields DEF Current
      <4> QED
        BY <4>1 DEF Complete, EndedEntry, Shown
    <3> HIDE DEF m
    <3>4. /\ Filled(page, m, page.phase) \in AppPage /\ Filled(page, m, page.phase).warned = page.warned
          /\ Filled(page, m, page.phase).shown = [page.shown EXCEPT ![page.slot] = m]
      BY <2>2, <3>1, <3>2, FilledTyped
    <3>5. next.warned = app[p].warned /\ next.shown = [app[p].shown EXCEPT ![app[p].slot] = m]
      BY <2>2, <3>2, <3>4, FreeTyped
    <3>6. Set(p, next) /\ Sending(app[p]) /\ UNCHANGED written
      BY <1>1, <2>3
    <3> HIDE DEF next
    <3> QED
      BY <1>2, <3>3, <3>5, <3>6, FilledLoss
  <2>4. CASE Set(p, [page EXCEPT !.phase = "streaming"])
    <3> DEFINE next == [page EXCEPT !.phase = "streaming"]
    <3>1. next.shown = app[p].shown /\ next.warned = app[p].warned
      <4> HIDE DEF page
      <4> QED
        BY <2>2 DEF AppPage
    <3> HIDE DEF next
    <3> QED
      BY <1>1, <1>2, <2>4, <3>1, QuietStep DEF next
  <2> QED
    BY <1>4, <2>3, <2>4
<1>5. ASSUME Set(p, Free([app[p] EXCEPT !.shown = SubSeq(@, 1, app[p].slot - 2)]))
      PROVE  NoLoss'
  <2> DEFINE n == app[p].slot - 2
             s == SubSeq(app[p].shown, 1, n)
             page == [app[p] EXCEPT !.shown = s]
  <2>1. n \in Int /\ n <= Len(app[p].shown)
    BY <1>3
  <2>2. /\ s \in Seq(Shown) /\ Len(s) = IF 1 <= n THEN n - 1 + 1 ELSE 0
        /\ \A i \in 1..n - 1 + 1 : s[i] = app[p].shown[1 + i - 1]
    <3>1. \A i \in 1..n : app[p].shown[i] \in Shown
      BY <1>3, <2>1
    <3> HIDE DEF n
    <3> QED
      BY <2>1, <3>1, SubSeqProperties
  <2> HIDE DEF s, n
  <2>3. \A i \in DOMAIN s : i \in DOMAIN app[p].shown /\ s[i] = app[p].shown[i]
    <3>1. DOMAIN s = 1..(IF 1 <= n THEN n ELSE 0)
      BY <2>1, <2>2, LenProperties
    <3>2. \A i \in 1..(IF 1 <= n THEN n ELSE 0) : i \in 1..n - 1 + 1 /\ 1 + i - 1 = i /\ i \in 1..Len(app[p].shown)
      BY <1>3, <2>1
    <3> QED
      BY <1>3, <2>2, <3>1, <3>2
  <2>4. page \in AppPage /\ page.shown = s /\ page.warned = app[p].warned
    BY <1>1, <2>2 DEF AppPage
  <2>5. Free(page).shown = s /\ Free(page).warned = app[p].warned
    <3> HIDE DEF page
    <3> QED
      BY <2>4, FreeTyped
  <2>6. Set(p, Free(page))
    BY <1>5 DEF s, n
  <2> HIDE DEF page
  <2> QED
    BY <1>1, <1>2, <2>3, <2>5, <2>6, QuietStep
<1> QED
  BY <1>4, <1>5 DEF Created, Arrived, Waiting

LEMMA StreamTextLoss ==
    ASSUME PagesOK, NoLoss, NEW p \in AppPages, StreamText(p)
    PROVE  NoLoss'
<1> DEFINE page == app[p]
           m == [Current(page) EXCEPT !.text = TRUE]
           next == [page EXCEPT !.shown[page.slot].text = TRUE]
<1>1. page \in AppPage /\ page.slot \in DOMAIN page.shown /\ Current(page) \in Shown /\ ~Current(page).done /\ Sending(page)
  BY StreamingNow, PageNow DEF StreamText
<1>2. m \in Shown /\ ~Complete(m)
  BY <1>1 DEF Shown, Complete
<1>3. next = [page EXCEPT !.shown[page.slot] = m]
  BY DEF Current
<1> HIDE DEF m
<1>4. next.shown = [page.shown EXCEPT ![page.slot] = m] /\ next.warned = page.warned
  <2>1. next.shown = [page.shown EXCEPT ![page.slot] = m]
    <3>1. m \in Shown
      BY <1>2
    <3> HIDE DEF page, next
    <3> QED
      BY <1>1, <1>3, <3>1, SlotTyped
  <2>2. next.warned = page.warned
    BY <1>1, <1>3 DEF AppPage
  <2> QED
    BY <2>1, <2>2
<1>5. Set(p, next) /\ UNCHANGED <<calls, written>>
  BY DEF StreamText, Keep
<1> HIDE DEF next
<1> QED
  BY <1>1, <1>2, <1>4, <1>5, FilledLoss

(* The write of what was streamed is on its way. *)
LEMMA WriteGoesOut ==
    ASSUME NEW p, NEW c, NEW q, NEW k, NEW r
    PROVE  /\ TurnOf(p, c, q, k, r).page = p /\ TurnOf(p, c, q, k, r).turn = q
           /\ TurnOf(p, c, q, k, r).op = "turn" /\ TurnOf(p, c, q, k, r).state = "sent"
           /\ AnswerOf(p, c, q, k, r).page = p /\ AnswerOf(p, c, q, k, r).turn = q
           /\ AnswerOf(p, c, q, k, r).op = "answer" /\ AnswerOf(p, c, q, k, r).state = "sent"
           /\ \A b : /\ ConfirmOf(p, c, q, b, r).page = p /\ ConfirmOf(p, c, q, b, r).turn = q
                     /\ ConfirmOf(p, c, q, b, r).op = "confirm" /\ ConfirmOf(p, c, q, b, r).state = "sent"
BY DEF TurnOf, AnswerOf, ConfirmOf, Request

LEMMA StreamDoneLoss ==
    ASSUME PagesOK, NoLoss, NEW p \in AppPages, StreamDone(p)
    PROVE  NoLoss'
<1> DEFINE page == app[p]
           m == [Current(page) EXCEPT !.text = TRUE, !.done = TRUE]
           next == [page EXCEPT !.phase = "settling", !.token = 0,
                        !.shown[page.slot].text = TRUE, !.shown[page.slot].done = TRUE]
<1>1. /\ page \in AppPage /\ page.slot \in DOMAIN page.shown /\ Current(page) \in Shown /\ Sending(page)
      /\ Turn(page) = Current(page).turn
  BY StreamingNow, PageNow DEF StreamDone
<1>2. m \in Shown /\ m.turn = Turn(page)
  BY <1>1 DEF Shown
<1>3. next = Filled(page, m, "settling")
  BY <1>1 DEF Filled, Current, AppPage
<1> HIDE DEF m
<1>4. next.shown = [page.shown EXCEPT ![page.slot] = m] /\ next.warned = page.warned
  <2>1. "settling" \in Phases /\ m \in Shown
    BY <1>2 DEF Phases
  <2> HIDE DEF page, next
  <2> QED
    BY <1>1, <1>3, <2>1, FilledTyped
<1>5. Set(p, next) /\ UNCHANGED written /\ calls \subseteq calls'
  BY DEF StreamDone, Keep
<1>6. OnItsWay(p, m.turn, {"turn", "answer"}, calls')
  BY <1>2, WriteGoesOut DEF StreamDone, OnItsWay
<1> HIDE DEF next
<1> QED
  BY <1>1, <1>4, <1>5, <1>6, FilledLoss

LEMMA StreamConfirmationLoss ==
    ASSUME PagesOK, NoLoss, NEW p \in AppPages, StreamConfirmation(p)
    PROVE  NoLoss'
<1> DEFINE page == app[p]
           m == [Current(page) EXCEPT !.text = TRUE, !.done = TRUE, !.conf = "open",
                        !.rev = page.token, !.token = page.how = "send"]
           shown == [page EXCEPT !.shown[page.slot] = m, !.token = 0]
<1>1. /\ page.slot \in DOMAIN page.shown /\ Current(page) \in Shown /\ page \in AppPage /\ Sending(page)
      /\ page.token \in Nat /\ Turn(page) = Current(page).turn /\ page.phase \in Phases
  BY StreamingNow, PageNow, PageFields DEF StreamConfirmation
<1>2. m \in Shown /\ m.turn = Turn(page) /\ m.conf = "open" /\ (page.how = "regenerate" => ~m.token)
  BY <1>1 DEF Shown
<1>3. [shown EXCEPT !.phase = "settling"] = Filled(page, m, "settling") /\ shown = Filled(page, m, page.phase)
  <2> HIDE DEF m
  <2> QED
    BY <1>1 DEF Filled, AppPage
<1>4. \/ page.how = "send" /\ Set(p, [shown EXCEPT !.phase = "settling"])
         /\ calls' = calls \cup {TurnOf(p, page.chat, Turn(page), "open", page.rev)}
      \/ page.how = "regenerate" /\ Set(p, Free(shown)) /\ UNCHANGED calls
  BY DEF StreamConfirmation
<1> HIDE DEF m, shown
<1>5. \A phase \in Phases : LET f == Filled(page, m, phase)
                            IN  f \in AppPage /\ f.shown = [page.shown EXCEPT ![page.slot] = m] /\ f.warned = page.warned
  BY <1>1, <1>2, FilledTyped
<1>6. CASE page.how = "send" /\ Set(p, [shown EXCEPT !.phase = "settling"])
           /\ calls' = calls \cup {TurnOf(p, page.chat, Turn(page), "open", page.rev)}
  <2>1. OnItsWay(p, m.turn, {"turn", "answer"}, calls')
    BY <1>2, <1>6, WriteGoesOut DEF OnItsWay
  <2>2. "settling" \in Phases /\ UNCHANGED written
    BY DEF Phases, StreamConfirmation, Keep
  <2> DEFINE next == Filled(page, m, "settling")
  <2>3. Set(p, next) /\ next.shown = [page.shown EXCEPT ![page.slot] = m] /\ next.warned = page.warned
    BY <1>3, <1>5, <1>6, <2>2
  <2>4. calls \subseteq calls'
    BY <1>6
  <2> HIDE DEF next
  <2> QED
    BY <1>1, <2>1, <2>2, <2>3, <2>4, FilledLoss
<1>7. CASE page.how = "regenerate" /\ Set(p, Free(shown)) /\ UNCHANGED calls
  <2> DEFINE next == Free(shown)
  <2>1. next.shown = [page.shown EXCEPT ![page.slot] = m] /\ next.warned = page.warned
    BY <1>1, <1>3, <1>5, FreeTyped
  <2>2. UNCHANGED written
    BY DEF StreamConfirmation, Keep
  <2> HIDE DEF next
  <2> QED
    BY <1>1, <1>2, <1>7, <2>1, <2>2, FilledLoss DEF next
<1> QED
  BY <1>4, <1>6, <1>7

(* A stream that ends with nothing to store, or with what Stop stores. *)
LEMMA EndedLoss ==
    ASSUME PagesOK, NoLoss, NEW p \in AppPages, Streaming(p), NEW text \in BOOLEAN, NEW error \in BOOLEAN,
           \E phase \in Phases : Set(p, [Ended(app[p], text, error) EXCEPT !.phase = phase])
                                 \/ Set(p, Free(Ended(app[p], text, error))),
           UNCHANGED written,
           \A call \in calls \ calls' : call.page = p /\ call.op \notin {"turn", "answer", "confirm"},
           ~text \/ error \/ OnItsWay(p, Turn(app[p]), {"turn", "answer"}, calls')
    PROVE  NoLoss'
<1> DEFINE page == app[p]
           m == EndedEntry(page, text, error)
<1>1. /\ page.slot \in DOMAIN page.shown /\ Current(page) \in Shown /\ page \in AppPage /\ Sending(page)
      /\ Turn(page) = Current(page).turn /\ page.phase \in Phases
  BY StreamingNow, PageNow, PageFields
<1>2. /\ m \in Shown /\ Ended(page, text, error) = Filled(page, m, page.phase)
      /\ \A phase : [Ended(page, text, error) EXCEPT !.phase = phase] = Filled(page, m, phase)
  BY <1>1, EndedIsFilled
<1>3. m.turn = Turn(page) /\ (~text \/ error => ~Complete(m))
  BY <1>1 DEF EndedEntry, Complete, Shown
<1> HIDE DEF m
<1>4. \A phase \in Phases : LET f == Filled(page, m, phase)
                            IN  f \in AppPage /\ f.shown = [page.shown EXCEPT ![page.slot] = m] /\ f.warned = page.warned
  BY <1>1, <1>2, FilledTyped
<1>5. PICK next : Set(p, next) /\ next.shown = [page.shown EXCEPT ![page.slot] = m] /\ next.warned = page.warned
  <2>1. CASE Set(p, Free(Ended(page, text, error)))
    <3>1. Free(Ended(page, text, error)).shown = [page.shown EXCEPT ![page.slot] = m]
          /\ Free(Ended(page, text, error)).warned = page.warned
      BY <1>1, <1>2, <1>4, FreeTyped
    <3> QED
      BY <2>1, <3>1
  <2>2. ASSUME NEW phase \in Phases, Set(p, [Ended(page, text, error) EXCEPT !.phase = phase])
        PROVE  \E next : Set(p, next) /\ next.shown = [page.shown EXCEPT ![page.slot] = m] /\ next.warned = page.warned
    BY <1>2, <1>4, <2>2
  <2> QED
    BY <2>1, <2>2
<1> QED
  BY <1>1, <1>3, <1>5, FilledLoss

LEMMA StreamErrorLoss ==
    ASSUME PagesOK, NoLoss, NEW p \in AppPages, StreamError(p) \/ StreamBreak(p)
    PROVE  NoLoss'
<1>1. Streaming(p) /\ UNCHANGED written
  BY DEF StreamError, StreamBreak, Keep
<1>2. \/ Set(p, [Ended(app[p], TRUE, TRUE) EXCEPT !.phase = "settling"])
      \/ Set(p, [Ended(app[p], TRUE, TRUE) EXCEPT !.phase = "restoring"])
      \/ Set(p, Free(Ended(app[p], TRUE, TRUE)))
  BY DEF StreamError, StreamBreak, Restoring
<1>3. \A call \in calls \ calls' : call.page = p /\ call.op \notin {"turn", "answer", "confirm"}
  BY DEF StreamError, StreamBreak, Restoring, Waiting
<1>4. TRUE \in BOOLEAN /\ "settling" \in Phases /\ "restoring" \in Phases
  BY DEF Phases
<1> QED
  BY <1>1, <1>2, <1>3, <1>4, EndedLoss

LEMMA RegenerateRefusedLoss ==
    ASSUME PagesOK, NoLoss, NEW p \in AppPages, RegenerateRefused(p)
    PROVE  NoLoss'
<1>1. Streaming(p) /\ UNCHANGED written /\ Set(p, [Ended(app[p], TRUE, TRUE) EXCEPT !.phase = "restoring"])
  BY DEF RegenerateRefused, Keep
<1>2. \A call \in calls \ calls' : call.page = p /\ call.op \notin {"turn", "answer", "confirm"}
  BY DEF RegenerateRefused, Arrived, Waiting
<1>3. TRUE \in BOOLEAN /\ "restoring" \in Phases
  BY DEF Phases
<1> QED
  BY <1>1, <1>2, <1>3, EndedLoss
LEMMA StopLoss ==
    ASSUME PagesOK, NoLoss, NEW p \in AppPages, Stop(p)
    PROVE  NoLoss'
<1> DEFINE page == app[p]
           text == Current(page).text
           ended == Ended(page, text, FALSE)
<1>1. /\ page \in AppPage /\ PageOK(page, written) /\ UNCHANGED written
      /\ (Streaming(p) \/ page.phase = "creating") /\ FALSE \in BOOLEAN
      /\ "settling" \in Phases /\ "restoring" \in Phases
  BY PageNow DEF Stop, Keep, Phases
<1>2. text \in BOOLEAN /\ Mounted(page)
  <2>1. Sending(page)
    BY <1>1, StreamingNow DEF Sending
  <2> QED
    BY <2>1, TurnTyped DEF Shown, Sending, Mounted
<1>3. CASE page.phase = "creating" /\ Set(p, [page EXCEPT !.how = "stopped"]) /\ UNCHANGED calls
  <2> DEFINE next == [page EXCEPT !.how = "stopped"]
  <2>1. next.shown = page.shown /\ next.warned = page.warned
    BY <1>1 DEF AppPage
  <2>2. Set(p, next)
    BY <1>3
  <2> HIDE DEF next
  <2> QED
    BY <1>1, <1>2, <1>3, <2>1, <2>2, QuietStep
<1>4. CASE text /\ Set(p, [ended EXCEPT !.phase = "settling"])
           /\ calls' = calls \cup
                   {IF page.how = "send" THEN TurnOf(p, page.chat, Turn(page), "none", page.rev)
                    ELSE AnswerOf(p, page.chat, Turn(page), "none", page.token)}
  <2>1. Streaming(p)
    BY <1>1, <1>4 DEF PageOK
  <2>2. OnItsWay(p, Turn(page), {"turn", "answer"}, calls')
    BY <1>4, WriteGoesOut DEF OnItsWay
  <2>3. \A call \in calls \ calls' : call.page = p /\ call.op \notin {"turn", "answer", "confirm"}
    BY <1>4
  <2>4. Set(p, [Ended(page, text, FALSE) EXCEPT !.phase = "settling"])
    BY <1>4
  <2> HIDE DEF text
  <2> QED
    BY <1>1, <1>2, <2>1, <2>2, <2>3, <2>4, EndedLoss
<1>5. CASE page.phase = "streaming" /\ ~text /\ Set(p, Free(ended)) /\ UNCHANGED calls
  <2>1. Streaming(p)
    BY <1>1, <1>5
  <2>2. Set(p, Free(Ended(page, text, FALSE))) /\ ~text
    BY <1>5
  <2> HIDE DEF text
  <2> QED
    BY <1>1, <1>2, <1>5, <2>1, <2>2, EndedLoss
<1>6. CASE /\ page.how = "regenerate" /\ ~text /\ Set(p, [ended EXCEPT !.phase = "restoring"])
           /\ calls' = (calls \ Waiting(p, "regenerate")) \cup {LoadOf(p, page.chat)}
                    \cup {[call EXCEPT !.state = "orphan"] : call \in Arrived(p, "regenerate", "sent")}
  <2>1. Streaming(p)
    BY <1>1, <1>6 DEF PageOK
  <2>2. \A call \in calls \ calls' : call.page = p /\ call.op \notin {"turn", "answer", "confirm"}
    BY <1>6 DEF Waiting
  <2>3. Set(p, [Ended(page, text, FALSE) EXCEPT !.phase = "restoring"]) /\ ~text
    BY <1>6
  <2> HIDE DEF text
  <2> QED
    BY <1>1, <1>2, <2>1, <2>2, <2>3, EndedLoss
<1> QED
  BY <1>3, <1>4, <1>5, <1>6 DEF Stop

LEMMA RegenerateLoss ==
    ASSUME PagesOK, NoLoss, NEW p \in AppPages, Regenerate(p)
    PROVE  NoLoss'
<1> DEFINE page == app[p]
<1>1. /\ page \in AppPage /\ Mounted(page) /\ UNCHANGED written /\ calls \subseteq calls'
      /\ page.shown \in Seq(Shown) /\ DOMAIN page.shown = 1..Len(page.shown) /\ Len(page.shown) \in Nat
      /\ \A i \in DOMAIN page.shown : page.shown[i] \in Shown
  BY PageNow, PageFields DEF Regenerate, Mounted
<1>2. PICK i \in DOMAIN page.shown :
        Set(p, [page EXCEPT !.phase = "streaming", !.how = "regenerate", !.token = 0, !.slot = i + 1,
                         !.shown = Append(SubSeq(@, 1, i), Answering(page.shown[i].turn))])
  BY DEF Regenerate
<1> DEFINE q == page.shown[i].turn
           cut == SubSeq(page.shown, 1, i)
           shown == Append(cut, Answering(q))
           next == [page EXCEPT !.phase = "streaming", !.how = "regenerate", !.token = 0, !.slot = i + 1, !.shown = shown]
<1>3. i \in 1..Len(page.shown) /\ i \in Nat /\ q \in Turns /\ Answering(q) \in Shown
  <2>1. q \in Turns
    BY <1>1 DEF Shown
  <2> QED
    BY <1>1, <2>1, BubblesTyped
<1>4. cut \in Seq(Shown) /\ Len(cut) = i /\ \A j \in 1..i : cut[j] = page.shown[j]
  <2>1. \A j \in 1..i : page.shown[j] \in Shown
    BY <1>1, <1>3
  <2>2. /\ cut \in Seq(Shown)
        /\ Len(cut) = IF 1 <= i THEN i - 1 + 1 ELSE 0
        /\ \A j \in 1..i - 1 + 1 : cut[j] = page.shown[1 + j - 1]
    BY <1>3, <2>1, SubSeqProperties
  <2> HIDE DEF cut
  <2>3. Len(cut) = i /\ \A j \in 1..i : cut[j] = page.shown[j]
    BY <1>3, <2>2
  <2> QED
    BY <2>2, <2>3
<1> HIDE DEF cut
<1>5. \A j \in DOMAIN shown : shown[j] = Answering(q) \/ \E k \in DOMAIN page.shown : shown[j] = page.shown[k]
  <2>1. /\ shown \in Seq(Shown) /\ Len(shown) = i + 1 /\ shown[i + 1] = Answering(q)
        /\ \A j \in 1..i : shown[j] = cut[j]
    BY <1>3, <1>4, AppendProperties
  <2>2. DOMAIN shown = 1..i + 1
    BY <1>3, <2>1, LenProperties
  <2> HIDE DEF shown
  <2>3. \A j \in 1..i + 1 : j = i + 1 \/ (j \in 1..i /\ j \in 1..Len(page.shown))
    BY <1>1, <1>3
  <2> QED
    BY <1>1, <1>4, <2>1, <2>2, <2>3
<1>6. ~Complete(Answering(q))
  BY DEF Complete, Answering, Bubble, Answer
<1> HIDE DEF shown, q
<1>7. next = PageOf("streaming", page.chat, shown, i + 1, page.rev, "regenerate", 0, page.warned, page.seen)
  <2>1. next = [page EXCEPT !.phase = "streaming", !.how = "regenerate", !.token = 0, !.slot = i + 1, !.shown = shown]
    OBVIOUS
  <2> HIDE DEF page, next
  <2> QED
    BY <1>1, <2>1, PageCut
<1>8. next.shown = shown /\ next.warned = page.warned
  <2> HIDE DEF next
  <2> QED
    BY <1>7 DEF PageOf
<1>9. Set(p, next)
  BY <1>2 DEF next, shown, q, cut
<1> HIDE DEF next
<1> QED
  BY <1>1, <1>5, <1>6, <1>8, <1>9, QuietStep

LEMMA RegenerateBeginsLoss ==
    ASSUME PagesOK, NoLoss, NEW p \in AppPages, RegenerateBegins(p)
    PROVE  NoLoss'
<1> DEFINE page == app[p]
<1>1. PICK call \in calls :
        /\ call.op = "regenerate" /\ call.page = p /\ Streaming(p)
        /\ Set(p, [page EXCEPT !.token = call.got.rev, !.rev = Larger(@, call.got.rev),
                        !.shown[page.slot].turn = call.got.msgs[1].turn])
        /\ calls' = calls \ {call} /\ UNCHANGED written
  BY DEF RegenerateBegins, Arrived, Waiting, Keep
<1> DEFINE m == [Current(page) EXCEPT !.turn = call.got.msgs[1].turn]
           next == [page EXCEPT !.token = call.got.rev, !.rev = Larger(@, call.got.rev),
                        !.shown[page.slot].turn = call.got.msgs[1].turn]
<1>2. /\ page \in AppPage /\ page.slot \in DOMAIN page.shown /\ Current(page) \in Shown
      /\ ~Current(page).done /\ Sending(page)
  BY <1>1, StreamingNow, PageNow
<1>3. ~Complete(m)
  BY <1>2 DEF Shown, Complete
<1>4. next.shown = [page.shown EXCEPT ![page.slot] = m] /\ next.warned = page.warned
  BY <1>2 DEF Current, AppPage
<1>5. Set(p, next) /\ \A x \in calls \ calls' : x.page = p /\ x.op \notin {"turn", "answer", "confirm"}
  BY <1>1
<1> HIDE DEF next, m
<1> QED
  BY <1>1, <1>2, <1>3, <1>4, <1>5, FilledLoss

(* A step that takes a write, or an approval, out of the way: what it leaves    *)
(* of an entry.                                                                *)
LEMMA TakenEntry ==
    ASSUME NEW p, NEW page, NEW later, NEW m, NEW n, NEW call, NEW C, NEW D, NEW W,
           page.warned \subseteq later.warned, C \ {call} \subseteq D,
           EntryOK(p, page, m, C, W), n.turn = m.turn,
           \/ Safe(p, later, m.turn, D, W)
           \/ /\ Complete(n) => Complete(m)
              /\ n.token = m.token
              /\ n.conf = m.conf \/ (n.conf = "open" /\ m.conf = "running")
              /\ m.turn = call.turn => call.op = "question" \/ (call.op = "confirm" /\ n.conf # "running")
    PROVE  EntryOK(p, later, n, D, W)
<1>1. CASE Safe(p, later, m.turn, D, W)
  BY <1>1 DEF EntryOK
<1>2. CASE ~Complete(n)
  BY <1>2 DEF EntryOK
<1>3. CASE Complete(n) /\ ~Safe(p, later, m.turn, D, W)
  <2>1. /\ Complete(m) /\ n.token = m.token /\ (n.conf = m.conf \/ (n.conf = "open" /\ m.conf = "running"))
        /\ m.turn = call.turn => call.op = "question" \/ (call.op = "confirm" /\ n.conf # "running")
    BY <1>3
  <2>2. ~Safe(p, page, m.turn, C, W)
    BY <1>3, <2>1 DEF Safe, OnItsWay
  <2>3. ~m.token /\ (m.conf = "open" \/ (m.conf = "running" /\ OnItsWay(p, m.turn, {"confirm"}, C)))
    BY <2>1, <2>2 DEF EntryOK
  <2>4. n.conf = "open" \/ (n.conf = "running" /\ OnItsWay(p, m.turn, {"confirm"}, D))
    <3>1. CASE n.conf = "running"
      BY <1>3, <2>1, <2>3, <3>1 DEF OnItsWay
    <3>2. CASE n.conf # "running"
      BY <2>1, <2>3, <3>2
    <3> QED
      BY <3>1, <3>2
  <2> QED
    BY <2>1, <2>3, <2>4 DEF EntryOK
<1> QED
  BY <1>1, <1>2, <1>3

LEMMA TakenStep ==
    ASSUME PagesOK, NoLoss, NEW p \in AppPages, NEW next, NEW call \in calls, Set(p, next), UNCHANGED written,
           call.page = p, calls \ {call} \subseteq calls', app[p].warned \subseteq next.warned,
           DOMAIN next.shown = DOMAIN app[p].shown, Mounted(next) => Mounted(app[p]),
           \A i \in DOMAIN next.shown :
              LET m == app[p].shown[i]
                  n == next.shown[i]
              IN  /\ n.turn = m.turn
                  /\ \/ Safe(p, next, m.turn, calls', written)
                     \/ /\ Complete(n) => Complete(m)
                        /\ n.token = m.token
                        /\ n.conf = m.conf \/ (n.conf = "open" /\ m.conf = "running")
                        /\ m.turn = call.turn => call.op = "question" \/ (call.op = "confirm" /\ n.conf # "running")
    PROVE  NoLoss'
<1>1. ASSUME Mounted(next), NEW i \in DOMAIN next.shown
      PROVE  EntryOK(p, next, next.shown[i], calls', written)
  <2>1. EntryOK(p, app[p], app[p].shown[i], calls, written)
    BY <1>1 DEF NoLoss
  <2> QED
    BY <2>1, TakenEntry
<1>2. \A x \in calls \ calls' : x.page = p
  OBVIOUS
<1> QED
  BY <1>1, <1>2, LossTaken
LEMMA ReleasedEntries ==
    ASSUME NEW W, NEW page, PageOK(page, W), NEW q, NEW saved \in BOOLEAN
    PROVE  LET next == Released(page, q, saved)
           IN  /\ DOMAIN next.shown = DOMAIN page.shown
               /\ \A i \in DOMAIN page.shown :
                     /\ next.shown[i].turn = page.shown[i].turn
                     /\ page.shown[i].turn # q => next.shown[i] = page.shown[i]
<1> DEFINE s == [i \in DOMAIN page.shown |->
                    IF page.shown[i].turn = q /\ page.shown[i].conf = "waiting" /\ saved
                    THEN [page.shown[i] EXCEPT !.conf = "running"]
                    ELSE IF page.shown[i].turn = q /\ page.shown[i].conf \in {"open", "waiting"} /\ ~saved
                    THEN [page.shown[i] EXCEPT !.conf = "stuck"]
                    ELSE page.shown[i]]
<1>1. page \in AppPage /\ \A i \in DOMAIN page.shown : page.shown[i] \in Shown
  BY PageFields DEF PageOK
<1>2. \A i \in DOMAIN page.shown : /\ s[i] \in Shown /\ s[i].turn = page.shown[i].turn
                                   /\ page.shown[i].turn # q => s[i] = page.shown[i]
  BY <1>1, PanelTyped
<1>3. s = [i \in DOMAIN page.shown |-> s[i]] /\ DOMAIN s = DOMAIN page.shown
  OBVIOUS
<1>4. Released(page, q, saved) = [page EXCEPT !.shown = s]
  BY DEF Released
<1> HIDE DEF s
<1>5. Released(page, q, saved).shown = s
  <2>1. s \in [DOMAIN page.shown -> Shown]
    BY <1>2, <1>3
  <2> QED
    BY <1>1, <1>4, <2>1, ReshownTyped
<1> QED
  BY <1>2, <1>3, <1>5

LEMMA SavedLoss ==
    ASSUME PagesOK, NoLoss, NEW p \in AppPages, Saved(p)
    PROVE  NoLoss'
<1> DEFINE page == app[p]
<1>1. PICK call \in calls :
        /\ call.op \in {"turn", "question", "answer"} /\ call.page = p /\ call.state = "ok"
        /\ Set(p, [(IF call.op = "turn" THEN Released(IF Awaited(p, call) THEN Free(page) ELSE page, call.turn, TRUE)
                    ELSE IF Awaited(p, call) THEN Free(page) ELSE page) EXCEPT !.rev = Larger(@, call.got.rev)])
        /\ calls' = (calls \ {call}) \cup (IF call.op = "turn" THEN Approved(p, page, call.turn) ELSE {})
        /\ UNCHANGED written
  BY DEF Saved, Saves, Waiting, Keep
<1> DEFINE over == IF Awaited(p, call) THEN Free(page) ELSE page
           mid == IF call.op = "turn" THEN Released(over, call.turn, TRUE) ELSE over
           next == [mid EXCEPT !.rev = Larger(@, call.got.rev)]
<1>2. page \in AppPage /\ PageOK(page, written) /\ CallOK(call, written)
  BY <1>1, PageNow
<1>3. /\ PageOK(over, written) /\ over.shown = page.shown /\ over.warned = page.warned
      /\ over.phase \in {page.phase, "idle"} /\ (over.phase = "idle" => Mounted(page))
  <2>1. CASE Awaited(p, call)
    <3>1. PageOK(Free(page), written) /\ Mounted(page)
      BY <1>2, <2>1, FreeTyped, IdleOK DEF Sending, Awaited, Mounted
    <3> QED
      BY <1>2, <2>1, <3>1, FreeTyped
  <2>2. CASE ~Awaited(p, call)
    BY <1>2, <2>2 DEF Mounted
  <2> QED
    BY <2>1, <2>2
<1> HIDE DEF over
<1>4. /\ PageOK(mid, written) /\ mid.warned = page.warned /\ mid.phase = over.phase
      /\ DOMAIN mid.shown = DOMAIN page.shown
      /\ \A i \in DOMAIN page.shown : /\ mid.shown[i].turn = page.shown[i].turn
                                      /\ page.shown[i].turn # call.turn => mid.shown[i] = page.shown[i]
      /\ call.op # "turn" => mid.shown = page.shown
  <2> DEFINE rel == Released(over, call.turn, TRUE)
  <2>1. TRUE \in BOOLEAN
    OBVIOUS
  <2>2. /\ PageOK(rel, written) /\ rel.warned = over.warned /\ rel.phase = over.phase
        /\ DOMAIN rel.shown = DOMAIN over.shown
        /\ \A i \in DOMAIN over.shown : /\ rel.shown[i].turn = over.shown[i].turn
                                        /\ over.shown[i].turn # call.turn => rel.shown[i] = over.shown[i]
    <3>1. PageOK(rel, written) /\ rel.warned = over.warned /\ rel.phase = over.phase
      <4>1. PageOK(over, written)
        BY <1>3
      <4>2. PageOK(rel, written)
        BY <2>1, <4>1, ReleasedOK
      <4>3. rel.warned = over.warned
        BY <2>1, <4>1, ReleasedOK
      <4>4. rel.phase = over.phase
        BY ZenonT(60), <2>1, <4>1, ReleasedOK
      <4> QED
        BY <4>2, <4>3, <4>4
    <3>2. /\ DOMAIN rel.shown = DOMAIN over.shown
          /\ \A i \in DOMAIN over.shown : /\ rel.shown[i].turn = over.shown[i].turn
                                          /\ over.shown[i].turn # call.turn => rel.shown[i] = over.shown[i]
      BY ZenonT(60), <1>3, <2>1, ReleasedEntries
    <3> QED
      BY <3>1, <3>2
  <2>3. mid = IF call.op = "turn" THEN rel ELSE over
    OBVIOUS
  <2> HIDE DEF rel, mid
  <2> QED
    BY <1>3, <2>2, <2>3
<1> HIDE DEF mid
<1>5. next.shown = mid.shown /\ next.warned = mid.warned /\ next.phase = mid.phase
  <2>1. mid \in AppPage
    BY <1>4 DEF PageOK
  <2> QED
    BY <2>1 DEF AppPage
<1>6. Set(p, next)
  BY <1>1 DEF mid, over
<1> HIDE DEF next
<1>7. Mounted(next) => Mounted(page)
  BY <1>3, <1>4, <1>5 DEF Mounted
<1>8. call.op # "question" => Safe(p, next, call.turn, calls', written)
  BY <1>1, <1>2 DEF CallOK, Safe
<1>9. \A i \in DOMAIN page.shown :
        /\ next.shown[i].turn = page.shown[i].turn
        /\ page.shown[i].turn # call.turn \/ call.op = "question" => next.shown[i] = page.shown[i]
  BY <1>1, <1>4, <1>5
<1> QED
  BY ZenonT(60), <1>1, <1>4, <1>5, <1>6, <1>7, <1>8, <1>9, TakenStep

LEMMA SaveFailsLoss ==
    ASSUME PagesOK, NoLoss, NEW p \in AppPages, SaveFails(p)
    PROVE  NoLoss'
<1> DEFINE page == app[p]
<1>1. PICK call \in calls :
        /\ call.op \in {"turn", "question", "answer"} /\ call.page = p
        /\ LET regenerated == Awaited(p, call) /\ page.how = "regenerate"
               over == IF regenerated THEN [page EXCEPT !.phase = "syncing"]
                       ELSE IF Awaited(p, call) THEN Free(page) ELSE page
           IN  /\ Set(p, Warned(IF call.op = "turn" THEN Released(over, call.turn, FALSE) ELSE over, call.turn))
               /\ calls' = (calls \ {call}) \cup (IF regenerated THEN {LoadOf(p, page.chat)} ELSE {})
        /\ UNCHANGED written
  BY DEF SaveFails, Saves, Waiting, Keep
<1> DEFINE regenerated == Awaited(p, call) /\ page.how = "regenerate"
           over == IF regenerated THEN [page EXCEPT !.phase = "syncing"]
                   ELSE IF Awaited(p, call) THEN Free(page) ELSE page
           mid == IF call.op = "turn" THEN Released(over, call.turn, FALSE) ELSE over
           next == Warned(mid, call.turn)
<1>2. page \in AppPage /\ PageOK(page, written) /\ call.turn \in Turns
  BY <1>1, PageNow DEF CallOK
<1>3. PageOK(over, written) /\ over.shown = page.shown /\ over.warned = page.warned
      /\ (over.phase = page.phase \/ Mounted(page))
  <2>1. CASE Awaited(p, call)
    <3> DEFINE later == [page EXCEPT !.phase = "syncing"]
    <3>1. PageOK(Free(page), written) /\ Mounted(page) /\ Sending(page)
      BY <1>2, <2>1, FreeTyped, IdleOK DEF Sending, Awaited, Mounted
    <3>2. later \in AppPage /\ later.phase = "syncing" /\ later.slot = page.slot /\ later.shown = page.shown
          /\ later.warned = page.warned
      BY <1>2 DEF AppPage, Phases
    <3>3. over = later \/ over = Free(page)
      BY <2>1
    <3> HIDE DEF later, over
    <3>4. PageOK(later, written)
      BY <1>2, <3>1, <3>2, SettledOK
    <3> QED
      BY <1>2, <3>1, <3>2, <3>3, <3>4, FreeTyped
  <2>2. CASE ~Awaited(p, call)
    BY <1>2, <2>2
  <2> QED
    BY <2>1, <2>2
<1>4. Set(p, next) /\ calls \ {call} \subseteq calls'
  BY <1>1
<1> HIDE DEF over
<1>5. /\ PageOK(mid, written) /\ mid.warned = page.warned /\ mid.phase = over.phase
      /\ DOMAIN mid.shown = DOMAIN page.shown
      /\ \A i \in DOMAIN page.shown : /\ mid.shown[i].turn = page.shown[i].turn
                                      /\ page.shown[i].turn # call.turn => mid.shown[i] = page.shown[i]
  <2> DEFINE rel == Released(over, call.turn, FALSE)
  <2>1. FALSE \in BOOLEAN
    OBVIOUS
  <2>2. /\ PageOK(rel, written) /\ rel.warned = over.warned /\ rel.phase = over.phase
        /\ DOMAIN rel.shown = DOMAIN over.shown
        /\ \A i \in DOMAIN over.shown : /\ rel.shown[i].turn = over.shown[i].turn
                                        /\ over.shown[i].turn # call.turn => rel.shown[i] = over.shown[i]
    <3>1. PageOK(rel, written) /\ rel.warned = over.warned /\ rel.phase = over.phase
      <4>1. PageOK(over, written)
        BY <1>3
      <4>2. PageOK(rel, written)
        BY <2>1, <4>1, ReleasedOK
      <4>3. rel.warned = over.warned
        BY <2>1, <4>1, ReleasedOK
      <4>4. rel.phase = over.phase
        BY ZenonT(60), <2>1, <4>1, ReleasedOK
      <4> QED
        BY <4>2, <4>3, <4>4
    <3>2. /\ DOMAIN rel.shown = DOMAIN over.shown
          /\ \A i \in DOMAIN over.shown : /\ rel.shown[i].turn = over.shown[i].turn
                                          /\ over.shown[i].turn # call.turn => rel.shown[i] = over.shown[i]
      BY ZenonT(60), <1>3, <2>1, ReleasedEntries
    <3> QED
      BY <3>1, <3>2
  <2>3. mid = IF call.op = "turn" THEN rel ELSE over
    OBVIOUS
  <2> HIDE DEF rel, mid
  <2> QED
    BY <1>3, <2>2, <2>3
<1> HIDE DEF mid
<1>6. /\ next.shown = mid.shown /\ next.phase = mid.phase
      /\ page.warned \subseteq next.warned /\ call.turn \in next.warned
  <2>1. mid \in AppPage
    BY <1>5 DEF PageOK
  <2> QED
    BY <1>2, <1>5, <2>1 DEF Warned, AppPage
<1> HIDE DEF next
<1>7. Mounted(next) => Mounted(page)
  BY <1>3, <1>5, <1>6 DEF Mounted
<1>8. Safe(p, next, call.turn, calls', written)
  BY <1>6 DEF Safe
<1>9. \A i \in DOMAIN page.shown :
        /\ next.shown[i].turn = page.shown[i].turn
        /\ page.shown[i].turn # call.turn => next.shown[i] = page.shown[i]
  BY <1>5, <1>6
<1>10. call.page = p /\ UNCHANGED written /\ DOMAIN next.shown = DOMAIN page.shown
  BY <1>1, <1>5, <1>6
<1> QED
  BY SMTT(40), <1>4, <1>6, <1>7, <1>8, <1>9, <1>10, TakenStep
LEMMA ApproveLoss ==
    ASSUME PagesOK, NoLoss, NEW p \in AppPages, Approve(p)
    PROVE  NoLoss'
<1> DEFINE page == app[p]
<1>1. PICK i \in DOMAIN page.shown :
        LET m == page.shown[i]
            unsaved == \E call \in Waiting(p, "turn") : call.turn = m.turn
        IN  /\ m.conf = "open" /\ Mounted(page)
            /\ Set(p, [page EXCEPT !.shown[i].conf = IF unsaved THEN "waiting" ELSE "running"])
            /\ calls' = IF unsaved THEN calls
                        ELSE calls \cup {ConfirmOf(p, page.chat, m.turn, m.token, m.rev)}
            /\ UNCHANGED written
  BY DEF Approve, Panels, Keep
<1> DEFINE m == page.shown[i]
           unsaved == \E call \in Waiting(p, "turn") : call.turn = m.turn
           k == IF unsaved THEN "waiting" ELSE "running"
           n == [m EXCEPT !.conf = k]
           next == [page EXCEPT !.shown[i].conf = k]
<1>2. page \in AppPage /\ m \in Shown
  BY PageNow, PageFields
<1>3. k \in {"none", "open", "waiting", "running", "stuck", "done"}
  OBVIOUS
<1>4. n \in Shown /\ n.turn = m.turn /\ n.token = m.token /\ n.conf = k /\ (Complete(n) => Complete(m))
  <2> HIDE DEF k, m
  <2> QED
    BY <1>2, <1>3 DEF Shown, Complete
<1>5. next = [page EXCEPT !.shown[i] = n]
  BY <1>2 DEF AppPage
<1>6. next.shown = [page.shown EXCEPT ![i] = n] /\ next.warned = page.warned
  <2>1. next.warned = page.warned
    BY <1>2 DEF AppPage
  <2>2. n \in Shown /\ page \in AppPage
    BY <1>2, <1>4
  <2> HIDE DEF n, next, page
  <2> QED
    BY <1>5, <2>1, <2>2, SlotTyped
<1>7. /\ Set(p, next) /\ UNCHANGED written /\ m.conf = "open" /\ Mounted(page)
      /\ calls' = IF unsaved THEN calls ELSE calls \cup {ConfirmOf(p, page.chat, m.turn, m.token, m.rev)}
  BY <1>1
<1>8. EntryOK(p, page, m, calls, written)
  BY <1>7 DEF NoLoss
<1>9. \A q : Onward(p, q, calls, calls')
  <2> HIDE DEF unsaved, m
  <2> QED
    BY <1>7 DEF Onward
<1>10. EntryOK(p, next, n, calls', written)
  <2>1. EntryOK(p, next, m, calls', written)
    <3>1. page.warned \subseteq next.warned /\ Onward(p, m.turn, calls, calls')
      BY <1>6, <1>9
    <3>2. EntryOK(p, page, m, calls, written) /\ UNCHANGED written
      BY <1>7, <1>8
    <3> HIDE DEF page, next, m
    <3> QED
      BY <3>1, <3>2, EntryStays
  <2>2. CASE unsaved
    <3>1. OnItsWay(p, m.turn, {"turn", "answer"}, calls')
      BY <1>7, <2>2 DEF OnItsWay, Waiting
    <3> HIDE DEF n, m, next
    <3> QED
      BY <1>4, <3>1 DEF EntryOK, Safe
  <2>3. CASE ~unsaved
    <3>1. OnItsWay(p, m.turn, {"confirm"}, calls') /\ k = "running"
      <4>1. ConfirmOf(p, page.chat, m.turn, m.token, m.rev) \in calls'
        BY <1>7, <2>3
      <4> HIDE DEF m, unsaved
      <4>2. OnItsWay(p, m.turn, {"confirm"}, calls')
        BY <4>1, WriteGoesOut DEF OnItsWay
      <4> QED
        BY <2>3, <4>2
    <3> HIDE DEF n, m, next, k
    <3> QED
      BY <1>4, <1>7, <2>1, <3>1 DEF EntryOK
  <2> QED
    BY <2>2, <2>3
<1> HIDE DEF n, next, m
<1>11. ASSUME NEW j \in DOMAIN next.shown
       PROVE  EntryOK(p, next, next.shown[j], calls', written)
  <2>1. CASE j = i
    BY <1>6, <1>10, <2>1
  <2>2. CASE j # i
    <3>1. next.shown[j] = page.shown[j] /\ j \in DOMAIN page.shown
      BY <1>6, <2>2
    <3>2. EntryOK(p, page, page.shown[j], calls, written)
      BY <1>7, <3>1 DEF NoLoss
    <3> QED
      BY <1>6, <1>9, <3>1, <3>2, EntryStays
  <2> QED
    BY <2>1, <2>2
<1>12. calls \subseteq calls'
  BY <1>7
<1> QED
  BY <1>7, <1>11, <1>12, LossTaken

LEMMA RejectLoss ==
    ASSUME PagesOK, NoLoss, NEW p \in AppPages, Reject(p)
    PROVE  NoLoss'
<1> DEFINE page == app[p]
<1>1. PICK i \in DOMAIN page.shown : Finished(p, page, i) /\ UNCHANGED written /\ Mounted(page)
  BY DEF Reject, Panels, Keep
<1> DEFINE m == page.shown[i]
           n == [m EXCEPT !.conf = "done", !.text = TRUE]
           next == [page EXCEPT !.shown[i].conf = "done", !.shown[i].text = TRUE]
<1>2. page \in AppPage /\ m \in Shown
  BY PageNow, PageFields
<1>3. n \in Shown /\ n.turn = m.turn
  BY <1>2, PanelTyped
<1>4. next = [page EXCEPT !.shown[i] = n]
  BY <1>2 DEF AppPage
<1>5. next.shown = [page.shown EXCEPT ![i] = n] /\ next.warned = page.warned
  <2>1. next.warned = page.warned
    BY <1>2 DEF AppPage
  <2>2. n \in Shown /\ page \in AppPage
    BY <1>2, <1>3
  <2> HIDE DEF n, next, page
  <2> QED
    BY <1>4, <2>1, <2>2, SlotTyped
<1>6. Set(p, next) /\ calls' = calls \cup {AnswerOf(p, page.chat, m.turn, "done", m.rev)}
  BY <1>1 DEF Finished
<1>7. OnItsWay(p, m.turn, {"turn", "answer"}, calls')
  <2> HIDE DEF m
  <2> QED
    BY <1>6, WriteGoesOut DEF OnItsWay
<1>8. \A x \in calls \ calls' : x.page = p /\ x.op \notin {"turn", "answer", "confirm"}
  BY <1>6
<1> HIDE DEF n, next, m
<1>9. ASSUME NEW j \in DOMAIN next.shown
      PROVE  \/ \E l \in DOMAIN page.shown : next.shown[j] = page.shown[l]
             \/ Safe(p, next, next.shown[j].turn, calls', written)
  BY <1>3, <1>5, <1>7 DEF Safe
<1> QED
  BY <1>1, <1>5, <1>6, <1>8, <1>9, QuietStep

LEMMA ActionRanLoss ==
    ASSUME PagesOK, NoLoss, NEW p \in AppPages, ActionRan(p)
    PROVE  NoLoss'
<1> DEFINE page == app[p]
<1>1. PICK call \in calls :
        LET panel == {i \in Panels(p, {"running"}) : page.shown[i].turn = call.turn}
        IN  /\ call.op = "confirm" /\ call.page = p
            /\ Set(p, [page EXCEPT !.shown = [i \in DOMAIN @ |->
                    IF i \in panel THEN [@[i] EXCEPT !.conf = "done", !.text = TRUE] ELSE @[i]]])
            /\ calls' = (calls \ {call}) \cup {AnswerOf(p, page.chat, call.turn, "done", call.rev)}
            /\ UNCHANGED written
  BY DEF ActionRan, Arrived, Waiting, Keep
<1> DEFINE panel == {i \in Panels(p, {"running"}) : page.shown[i].turn = call.turn}
           s == [i \in DOMAIN page.shown |->
                    IF i \in panel THEN [page.shown[i] EXCEPT !.conf = "done", !.text = TRUE] ELSE page.shown[i]]
           next == [page EXCEPT !.shown = s]
<1>2. page \in AppPage /\ \A i \in DOMAIN page.shown : page.shown[i] \in Shown
  BY PageNow, PageFields
<1>3. \A i \in DOMAIN page.shown : /\ s[i] \in Shown /\ s[i].turn = page.shown[i].turn
                                   /\ page.shown[i].turn # call.turn => s[i] = page.shown[i]
  BY <1>2, PanelTyped DEF Panels
<1>4. s = [i \in DOMAIN page.shown |-> s[i]] /\ DOMAIN s = DOMAIN page.shown
  OBVIOUS
<1>5. Set(p, next) /\ calls' = (calls \ {call}) \cup {AnswerOf(p, page.chat, call.turn, "done", call.rev)}
  BY <1>1
<1>6. next = [page EXCEPT !.shown = s]
  OBVIOUS
<1> HIDE DEF s, next
<1>7. next.shown = s /\ next.phase = page.phase /\ next.warned = page.warned
  <2>1. s \in [DOMAIN page.shown -> Shown] /\ page \in AppPage
    BY <1>2, <1>3, <1>4
  <2> QED
    BY <1>6, <2>1, ReshownTyped
<1>8. Safe(p, next, call.turn, calls', written)
  BY <1>5, WriteGoesOut DEF OnItsWay, Safe
<1>9. call.page = p /\ UNCHANGED written /\ DOMAIN next.shown = DOMAIN page.shown /\ (Mounted(next) => Mounted(page))
      /\ calls \ {call} \subseteq calls'
  BY <1>1, <1>4, <1>5, <1>7 DEF Mounted
<1>10. \A i \in DOMAIN page.shown :
        /\ next.shown[i].turn = page.shown[i].turn
        /\ page.shown[i].turn # call.turn => next.shown[i] = page.shown[i]
  BY <1>3, <1>7
<1> QED
  BY <1>5, <1>7, <1>8, <1>9, <1>10, TakenStep

LEMMA ActionFailsLoss ==
    ASSUME PagesOK, NoLoss, NEW p \in AppPages, ActionFails(p)
    PROVE  NoLoss'
<1> DEFINE page == app[p]
<1>1. PICK call \in calls :
        /\ call.op = "confirm" /\ call.page = p
        /\ Set(p, [page EXCEPT !.shown = [i \in DOMAIN @ |->
                IF @[i].turn = call.turn /\ @[i].conf = "running" THEN [@[i] EXCEPT !.conf = "open"] ELSE @[i]]])
        /\ calls' = calls \ {call} /\ UNCHANGED written
  BY DEF ActionFails, Arrived, Waiting, Keep
<1> DEFINE s == [i \in DOMAIN page.shown |->
                    IF page.shown[i].turn = call.turn /\ page.shown[i].conf = "running"
                    THEN [page.shown[i] EXCEPT !.conf = "open"] ELSE page.shown[i]]
           next == [page EXCEPT !.shown = s]
<1>2. page \in AppPage /\ \A i \in DOMAIN page.shown : page.shown[i] \in Shown
  BY PageNow, PageFields
<1>3. ASSUME NEW i \in DOMAIN page.shown
      PROVE  /\ s[i] \in Shown /\ s[i].turn = page.shown[i].turn /\ s[i].token = page.shown[i].token
             /\ Complete(s[i]) => Complete(page.shown[i])
             /\ s[i].conf = page.shown[i].conf \/ (s[i].conf = "open" /\ page.shown[i].conf = "running")
             /\ page.shown[i].turn = call.turn => s[i].conf # "running"
  <2> DEFINE m == page.shown[i]
             n == [m EXCEPT !.conf = "open"]
  <2>1. m \in Shown
    BY <1>2
  <2>2. s[i] = IF m.turn = call.turn /\ m.conf = "running" THEN n ELSE m
    OBVIOUS
  <2> HIDE DEF m, s
  <2>3. n \in Shown /\ n.turn = m.turn /\ n.token = m.token /\ n.conf = "open" /\ (Complete(n) => Complete(m))
    BY <2>1 DEF Shown, Complete
  <2> HIDE DEF n
  <2>4. /\ s[i] \in Shown /\ s[i].turn = m.turn /\ s[i].token = m.token
        /\ Complete(s[i]) => Complete(m)
        /\ s[i].conf = m.conf \/ (s[i].conf = "open" /\ m.conf = "running")
        /\ m.turn = call.turn => s[i].conf # "running"
    BY <2>1, <2>2, <2>3
  <2> QED
    BY <2>4 DEF m
<1>4. s = [i \in DOMAIN page.shown |-> s[i]] /\ DOMAIN s = DOMAIN page.shown
  OBVIOUS
<1>5. Set(p, next)
  BY <1>1
<1>6. next = [page EXCEPT !.shown = s]
  OBVIOUS
<1> HIDE DEF s, next
<1>7. next.shown = s /\ next.phase = page.phase /\ next.warned = page.warned
  <2>1. s \in [DOMAIN page.shown -> Shown] /\ page \in AppPage
    BY <1>2, <1>3, <1>4
  <2> QED
    BY <1>6, <2>1, ReshownTyped
<1>8. DOMAIN next.shown = DOMAIN page.shown /\ (Mounted(next) => Mounted(page)) /\ calls \ {call} \subseteq calls'
  BY <1>1, <1>4, <1>7 DEF Mounted
<1> QED
  BY <1>1, <1>3, <1>5, <1>7, <1>8, TakenStep
LEMMA CustomizeLoss ==
    ASSUME PagesOK, NoLoss, NEW p \in AppPages, Customize(p)
    PROVE  NoLoss'
<1>1. UNCHANGED <<app, written>> /\ \A q, r : Onward(r, q, calls, calls')
  BY DEF Customize, Onward
<1> QED
  BY <1>1, LossStays

LEMMA LeaveLoss ==
    ASSUME PagesOK, NoLoss, NEW p \in AppPages, Destroy(p) \/ CloseTab(p)
    PROVE  NoLoss'
<1>1. PICK phase \in {"gone", "closed"} : Leave(p, phase)
  BY DEF Destroy, CloseTab
<1>2. PICK next : Set(p, next) /\ ~Mounted(next) /\ UNCHANGED written
  <2> DEFINE page == app[p]
             shown == IF phase = "gone" /\ (\E i \in DOMAIN page.shown : page.shown[i].conf \in {"waiting", "running"})
                      THEN page.shown ELSE <<>>
             next == [NewAppPage EXCEPT !.phase = phase, !.chat = page.chat, !.seen = page.seen, !.shown = shown]
  <2>1. Set(p, next) /\ UNCHANGED written
    BY <1>1 DEF Leave, Keep
  <2> HIDE DEF shown
  <2>2. next.phase = phase
    BY DEF NewAppPage
  <2> HIDE DEF next
  <2> QED
    BY <2>1, <2>2 DEF Mounted
<1>3. \A call \in calls \ calls' : call.page = p
  BY <1>1 DEF Leave
<1> QED
  BY <1>2, <1>3, LossTaken

LEMMA AppStepLoss ==
    ASSUME PagesOK, NoLoss, NEW p \in AppPages, AppStep(p)
    PROVE  NoLoss'
<1>1. CASE Mount(p) \/ Loaded(p) \/ LoadFails(p) \/ RetryLoad(p) \/ Send(p) \/ Created(p) \/ StreamText(p)
  BY <1>1, MountLoss, LoadedLoss, LoadFailsLoss, SendLoss, CreatedLoss, StreamTextLoss
<1>2. CASE StreamDone(p) \/ StreamConfirmation(p) \/ StreamError(p) \/ StreamBreak(p) \/ Stop(p)
  BY <1>2, StreamDoneLoss, StreamConfirmationLoss, StreamErrorLoss, StopLoss
<1>3. CASE Regenerate(p) \/ RegenerateBegins(p) \/ RegenerateRefused(p) \/ Saved(p) \/ SaveFails(p) \/ Synced(p)
  BY <1>3, RegenerateLoss, RegenerateBeginsLoss, RegenerateRefusedLoss, SavedLoss, SaveFailsLoss, LoadFailsLoss
<1>4. CASE Approve(p) \/ Reject(p) \/ ActionRan(p) \/ ActionFails(p) \/ Customize(p) \/ Customized(p) \/ Destroy(p) \/ CloseTab(p)
  BY <1>4, ApproveLoss, RejectLoss, ActionRanLoss, ActionFailsLoss, CustomizeLoss, LoadFailsLoss, LeaveLoss
<1> QED
  BY <1>1, <1>2, <1>3, <1>4 DEF AppStep

(* A standalone page takes its own requests only. *)
LEMMA StandaloneTakesItsOwn ==
    ASSUME NEW s \in StandalonePages, StandaloneStep(s)
    PROVE  \A call \in calls \ calls' : call.page = s
<1>1. CASE Open(s) \/ Listed(s) \/ ListFails(s) \/ Choose(s) \/ ChatLoaded(s) \/ ChatLoadFails(s)
  BY <1>1 DEF Open, Listed, ListFails, Choose, ChatLoaded, ChatLoadFails, Arrived, Waiting
<1>2. CASE NewChatClicked(s) \/ NewChatOpens(s) \/ NewChatFails(s) \/ DeleteChat(s) \/ Deleted(s) \/ DeleteFails(s)
  BY <1>2 DEF NewChatClicked, NewChatOpens, NewChatFails, DeleteChat, Deleted, DeleteFails, Arrived, Waiting
<1>3. CASE SendQuestion(s) \/ ChatEnsured(s) \/ Text(s) \/ Terminal(s) \/ Broken(s) \/ StopClicked(s) \/ Unheard(s)
  BY <1>3 DEF SendQuestion, ChatEnsured, Text, Terminal, Broken, StopClicked, Unheard, Waiting
<1>4. CASE QuestionSaved(s) \/ QuestionFails(s) \/ AnswerSaved(s)
  BY <1>4 DEF QuestionSaved, QuestionFails, AnswerSaved, Arrived, Waiting
<1>5. CASE ApproveClicked(s) \/ Cancelled(s) \/ ActionOver(s)
  BY <1>5 DEF ApproveClicked, Cancelled, ActionOver, Waiting
<1> QED
  BY <1>1, <1>2, <1>3, <1>4, <1>5 DEF StandaloneStep

LEMMA StepLosesNothing ==
    ASSUME PagesOK, NoLoss, [Next]_vars
    PROVE  NoLoss'
<1>1. written \subseteq written'
  BY PagesStepKeeps
<1>2. ASSUME NEW p \in Pages, NEW op \in Ops, Server(p, op)
      PROVE  NoLoss'
  <2>1. UNCHANGED app /\ \A r, q : Onward(r, q, calls, calls')
    BY <1>2, ServerGoesOn DEF Server, pages
  <2> QED
    BY <1>1, <2>1, LossStays
<1>3. CASE JobDone
  <2>1. UNCHANGED <<app, calls>> /\ \A r, q : Onward(r, q, calls, calls')
    BY <1>3 DEF JobDone, FinishJob, pages, Onward
  <2> QED
    BY <1>1, <2>1, LossStays
<1>4. CASE Network
  <2>1. UNCHANGED app /\ \A r, q : Onward(r, q, calls, calls')
    BY <1>4, NetworkGoesOn DEF Network, pages
  <2> QED
    BY <1>1, <2>1, LossStays
<1>5. ASSUME NEW p \in AppPages, AppStep(p)
      PROVE  NoLoss'
  BY <1>5, AppStepLoss
<1>6. ASSUME NEW s \in StandalonePages, StandaloneStep(s), UNCHANGED app
      PROVE  NoLoss'
  <2>1. \A p \in AppPages, q \in Turns : Onward(p, q, calls, calls')
    BY <1>6, StandaloneTakesItsOwn, PagesAssumption DEF Onward
  <2> QED
    BY <1>1, <1>6, <2>1, LossStays
<1>7. CASE UNCHANGED vars
  <2>1. UNCHANGED <<app, calls>> /\ \A r, q : Onward(r, q, calls, calls')
    BY <1>7 DEF vars, serverVars, Onward
  <2> QED
    BY <1>1, <2>1, LossStays
<1> QED
  BY <1>2, <1>3, <1>4, <1>5, <1>6, <1>7 DEF Next

LEMMA NothingLostYet == Init => NoLoss
<1>1. \A phase : [NewAppPage EXCEPT !.phase = phase].shown = <<>>
  BY DEF NewAppPage
<1>2. Init => \A p \in AppPages : app[p].shown = <<>>
  BY ZenonT(60), <1>1 DEF Init, InitApp
<1>3. DOMAIN <<>> = {}
  OBVIOUS
<1> QED
  BY <1>2, <1>3 DEF NoLoss

(* An answer that an app page shows as complete is not lost in silence: when    *)
(* the page is free again the answer is stored, or the page has warned about   *)
(* it, or a request that stands for it is under way, whatever is refused,       *)
(* lost, served late, stopped, regenerated or approved in between              *)
(* (saveTurn(), saveMessage(), showHistorySaveWarning()).                      *)
THEOREM NothingIsLost == Spec => []NoSilentLoss
<1>1. Init => PagesOK /\ NoLoss
  BY PagesBegin, NothingLostYet
<1>2. PagesOK /\ NoLoss /\ [Next]_vars => (PagesOK /\ NoLoss)'
  BY PagesStepKeeps, StepLosesNothing
<1>3. PagesOK /\ NoLoss => NoSilentLoss
  <2>1. SUFFICES ASSUME PagesOK, NoLoss, NEW p \in AppPages, app[p].phase = "idle", NEW i \in DOMAIN app[p].shown,
                        Complete(app[p].shown[i]), app[p].shown[i].conf # "open" \/ app[p].shown[i].token
                 PROVE  \/ \E c \in Chats : <<"assistant", c, app[p].shown[i].turn>> \in written
                        \/ app[p].shown[i].turn \in app[p].warned
                        \/ \E call \in calls : call.page = p /\ call.turn = app[p].shown[i].turn
    BY DEF NoSilentLoss, Complete
  <2>2. EntryOK(p, app[p], app[p].shown[i], calls, written)
    BY <2>1 DEF NoLoss, Mounted
  <2> QED
    BY <2>1, <2>2 DEF EntryOK, Safe, OnItsWay, Told
<1> QED
  BY <1>1, <1>2, <1>3, PTL DEF Spec

=============================================================================
