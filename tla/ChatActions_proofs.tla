-------------------------- MODULE ChatActions_proofs -------------------------
(***************************************************************************)
(* An action that a page of ChatPages approves runs once, for any number of *)
(* pages, chats and turns: the right to store a placeholder passes from a   *)
(* page to a request and to the chat, and the chat's claim lets one         *)
(* approval through.                                                        *)
(***************************************************************************)
EXTENDS ChatPages_proofs

-----------------------------------------------------------------------------
(* An action runs once.  Whoever may still store the placeholder of a         *)
(* question holds it: an app page that streams the answer, then the request   *)
(* that stores the turn; a standalone page that streams, then the request     *)
(* that stores the question, then the one that stores the answer.             *)
Asks(m) == m.conf \in {"open", "claimed"}

AppHolds(page, q) ==
    page.phase \in {"creating", "streaming"} /\ page.how = "send" /\ Turn(page) = q

AloneHolds(page, q) ==
    page.slot \in DOMAIN page.shown /\ Slot(page).turn = q /\ ~Slot(page).done

CallHolds(call, q) ==
    /\ call.turn = q /\ Asks(call)
    /\ \/ call.op \in {"turn", "answer"} /\ call.state \in {"sent", "orphan"}
       \/ call.op = "question" /\ call.state \in {"sent", "ok"}

HoldingPages(q) == {p \in AppPages : AppHolds(app[p], q)} \cup {s \in StandalonePages : AloneHolds(alone[s], q)}
HoldingCalls(q) == {call \in calls : CallHolds(call, q)}

OneHolder(q) ==
    /\ \A x, y \in HoldingPages(q) : x = y
    /\ \A x, y \in HoldingCalls(q) : x = y
    /\ HoldingPages(q) = {} \/ HoldingCalls(q) = {}

(* As long as somebody holds it, nothing of its token is stored, was run or    *)
(* is about to run, and the panels wait for the write.                        *)
CallStill(call, q) ==
    /\ call.turn = q =>
         /\ call.op = "confirm" => call.index = 0
         /\ call.op = "turn" => Asks(call) /\ call.state # "ok"
         /\ call.op = "answer" /\ Asks(call) => call.state \in {"sent", "orphan"}
         /\ call.op = "question" /\ Asks(call) => call.state \in {"sent", "ok"}
    /\ \A i \in DOMAIN call.got.msgs : call.got.msgs[i].turn = q => ~Asks(call.got.msgs[i])

Panel(m, q) == m.turn = q /\ m.conf \in {"open", "waiting", "running"}

AppStill(p, page, q, C) ==
    \A i \in DOMAIN page.shown : (Panel(page.shown[i], q) /\ page.shown[i].token) =>
        /\ page.shown[i].conf # "running"
        /\ \E call \in C : call.page = p /\ call.op = "turn" /\ call.turn = q /\ call.state # "orphan"

AloneStill(s, page, q, C) ==
    \A i \in DOMAIN page.shown : Panel(page.shown[i], q) =>
        /\ page.shown[i].conf # "running"
        /\ \E call \in C : /\ call.page = s /\ call.op \in {"question", "answer"} /\ call.turn = q
                           /\ call.conf = "open" /\ call.state # "orphan"

ServerStill(q) ==
    /\ \A c \in Chats \cup {NoChat} : ran[<<c, q>>] = 0
    /\ \A c \in Chats : <<"token", c, q>> \notin written
    /\ \A c \in Chats : \A i \in DOMAIN chats[c].msgs : chats[c].msgs[i].turn = q => ~Asks(chats[c].msgs[i])

CallsStill(q) == \A call \in calls : CallStill(call, q)
PagesStill(q) ==
    /\ \A p \in AppPages : AppStill(p, app[p], q, calls)
    /\ \A s \in StandalonePages : AloneStill(s, alone[s], q, calls)

Still(q) == ServerStill(q) /\ CallsStill(q) /\ PagesStill(q)

Held(q) == HoldingPages(q) # {} \/ HoldingCalls(q) # {}

QuestionOK(q) ==
    /\ OneHolder(q)
    /\ q > asked => ~Held(q)
    /\ q > asked \/ Held(q) => Still(q)

(* What a chat holds, and what was ever stored and run for it. *)
Recorded(c) ==
    /\ chats[c].state # "live" => chats[c].msgs = <<>>
    /\ \A i \in DOMAIN chats[c].msgs : Asks(chats[c].msgs[i]) =>
          /\ <<"token", c, chats[c].msgs[i].turn>> \in written
          /\ chats[c].msgs[i].conf = "open" => ran[<<c, chats[c].msgs[i].turn>>] = 0
    /\ \A q \in Turns : (<<"token", c, q>> \in written /\ <<"replaced", c, q>> \notin written) =>
          Tokens(chats[c], q) # {} /\ ran[<<c, q>>] <= 1

(* A regeneration whose answer a page waits for is the only one, and nothing   *)
(* of it has been streamed.                                                   *)
Unbegun(page) == page.phase = "streaming" /\ page.how = "regenerate" /\ page.token = 0 /\ ~Current(page).text
RegenerationOK(p) ==
    \A x, y \in Waiting(p, "regenerate") : x = y /\ Unbegun(app[p])

(* An approval names a token or not, and only a standalone page stores the      *)
(* question of a placeholder and the placeholder by requests of their own.    *)
FormOK(call) ==
    /\ call.op = "confirm" => call.index \in {0, 1}
    /\ call.op \in {"question", "answer"} /\ Asks(call) => call.page \in StandalonePages
ConfirmsOK == \A call \in calls : FormOK(call)

ChatsQuiet == \A c \in Chats : Recorded(c)
TurnsQuiet == \A q \in Turns : QuestionOK(q)
PagesQuiet == \A p \in AppPages : RegenerationOK(p)
Quiet == ChatsQuiet /\ TurnsQuiet /\ PagesQuiet /\ ConfirmsOK

(* Nobody becomes a holder. *)
LEMMA NobodyNew ==
    ASSUME NEW q \in Turns, QuestionOK(q), q > asked' => q > asked,
           HoldingPages(q)' \subseteq HoldingPages(q), HoldingCalls(q)' \subseteq HoldingCalls(q),
           (Held(q)' \/ q > asked') /\ Still(q) => Still(q)'
    PROVE  QuestionOK(q)'
<1>1. Held(q)' => Held(q)
  BY DEF Held
<1>2. OneHolder(q)'
  BY DEF OneHolder, QuestionOK
<1> QED
  BY <1>1, <1>2 DEF QuestionOK

(* The holder hands over to a request. *)
LEMMA HandsOn ==
    ASSUME NEW q \in Turns, QuestionOK(q), q > asked' => q > asked, Held(q), NEW k,
           HoldingPages(q)' = {}, HoldingCalls(q)' \subseteq {k}, Still(q) => Still(q)'
    PROVE  QuestionOK(q)'
<1>1. ~(q > asked) /\ Still(q)
  BY DEF QuestionOK
<1>2. OneHolder(q)'
  BY DEF OneHolder
<1> QED
  BY <1>1, <1>2 DEF QuestionOK

(* A page takes up a new question. *)
LEMMA TakesUp ==
    ASSUME NEW q \in Turns, QuestionOK(q), q > asked, ~(q > asked'), NEW p,
           HoldingPages(q)' \subseteq {p}, HoldingCalls(q)' = {}, Still(q) => Still(q)'
    PROVE  QuestionOK(q)'
<1>1. Still(q)
  BY DEF QuestionOK
<1>2. OneHolder(q)'
  BY DEF OneHolder
<1> QED
  BY <1>1, <1>2 DEF QuestionOK

-----------------------------------------------------------------------------
(* A step of an app page. *)
LEMMA AppHolding ==
    ASSUME PagesOK, NEW p \in AppPages, NEW next, Set(p, next), UNCHANGED alone, NEW q
    PROVE  /\ HoldingPages(q)' = (HoldingPages(q) \ {p}) \cup (IF AppHolds(next, q) THEN {p} ELSE {})
           /\ p \in HoldingPages(q) <=> AppHolds(app[p], q)
<1>1. app' = [app EXCEPT ![p] = next] /\ app \in [AppPages -> AppPage] /\ p \notin StandalonePages
  BY PagesAssumption DEF Set, PagesOK, AppOK
<1>2. app'[p] = next /\ \A r \in AppPages : r # p => app'[r] = app[r]
  BY <1>1
<1>3. \A r : r \in HoldingPages(q) <=> (r \in AppPages /\ AppHolds(app[r], q)) \/ (r \in StandalonePages /\ AloneHolds(alone[r], q))
  BY DEF HoldingPages
<1>4. \A r : r \in HoldingPages(q)' <=> (r \in AppPages /\ AppHolds(app'[r], q)) \/ (r \in StandalonePages /\ AloneHolds(alone[r], q))
  BY DEF HoldingPages
<1> QED
  BY <1>1, <1>2, <1>3, <1>4

LEMMA AppStillness ==
    ASSUME PagesOK, NEW q \in Turns, Still(q), NEW p \in AppPages, NEW next, Set(p, next),
           UNCHANGED <<alone, chats, ran, written>>,
           \A call \in calls \ calls' : call.page = p,
           \A call \in calls' \ calls : CallStill(call, q),
           AppStill(p, next, q, calls')
    PROVE  Still(q)'
<1>1. app' = [app EXCEPT ![p] = next] /\ app \in [AppPages -> AppPage] /\ p \notin StandalonePages
  BY PagesAssumption DEF Set, PagesOK, AppOK
<1>2. app'[p] = next /\ \A r \in AppPages : r # p => app'[r] = app[r]
  BY <1>1
<1>3. ServerStill(q)'
  BY DEF Still, ServerStill
<1>4. CallsStill(q)'
  BY DEF Still, CallsStill
<1>5. ASSUME NEW r \in AppPages, r # p
      PROVE  AppStill(r, app'[r], q, calls')
  <2>1. AppStill(r, app[r], q, calls)
    BY DEF Still, PagesStill
  <2>2. AppStill(r, app[r], q, calls')
    BY <1>5, <2>1 DEF AppStill
  <2> QED
    BY <1>2, <1>5, <2>2
<1>6. ASSUME NEW s \in StandalonePages
      PROVE  AloneStill(s, alone'[s], q, calls')
  <2>1. AloneStill(s, alone[s], q, calls) /\ s # p
    BY <1>1 DEF Still, PagesStill
  <2> QED
    BY <2>1 DEF AloneStill
<1>7. PagesStill(q)'
  BY <1>2, <1>5, <1>6 DEF PagesStill
<1> QED
  BY <1>3, <1>4, <1>7 DEF Still

LEMMA AppCalm ==
    ASSUME PagesOK, NEW q \in Turns, QuestionOK(q), NEW p \in AppPages, NEW next, Set(p, next),
           UNCHANGED <<alone, chats, ran, written, asked>>,
           AppHolds(next, q) => AppHolds(app[p], q),
           \A call \in calls \ calls' : call.page = p,
           \A call \in calls' \ calls : ~CallHolds(call, q),
           ((AppHolds(app[p], q) => AppHolds(next, q)) /\ Still(q)) =>
               ((\A call \in calls' \ calls : CallStill(call, q)) /\ AppStill(p, next, q, calls'))
    PROVE  QuestionOK(q)'
<1>1. HoldingCalls(q)' \subseteq HoldingCalls(q)
  BY DEF HoldingCalls
<1>2. HoldingPages(q)' \subseteq HoldingPages(q)
  BY AppHolding
<1>3. CASE AppHolds(app[p], q) => AppHolds(next, q)
  <2>1. Still(q) => Still(q)'
    BY <1>3, AppStillness
  <2> QED
    BY <1>1, <1>2, <2>1, NobodyNew
<1>4. CASE AppHolds(app[p], q) /\ ~AppHolds(next, q)
  <2>1. HoldingPages(q) \subseteq {p} /\ HoldingCalls(q) = {} /\ ~(q > asked)
    BY <1>4, AppHolding DEF QuestionOK, OneHolder, Held
  <2>2. HoldingPages(q)' = {}
    BY <1>4, <2>1, AppHolding
  <2>3. ~(Held(q)' \/ q > asked')
    BY <1>1, <2>1, <2>2 DEF Held
  <2> QED
    BY <1>1, <1>2, <2>3, NobodyNew
<1> QED
  BY <1>3, <1>4

(* Panels that were there before, or whose approval has no token. *)
LEMMA PanelsStay ==
    ASSUME NEW p, NEW page, NEW next, NEW q, NEW C, NEW D, AppStill(p, page, q, C),
           \A i \in DOMAIN next.shown : (Panel(next.shown[i], q) /\ next.shown[i].token) =>
              \E j \in DOMAIN page.shown : /\ Panel(page.shown[j], q) /\ page.shown[j].token
                                           /\ next.shown[i].conf = "running" => page.shown[j].conf = "running",
           \A call \in C \ D : call.op # "turn" \/ call.turn # q
    PROVE  AppStill(p, next, q, D)
BY DEF AppStill

(* A request that stores no placeholder, and brings back nothing new. *)
Plain(call) == ~Asks(call) \/ call.op \notin {"turn", "question", "answer"}
Blank(call) == call.got.msgs = <<>> \/ \E x \in calls : call.got = x.got

LEMMA PlainCall ==
    ASSUME NEW call, NEW q, Still(q), Blank(call),
           \/ call.turn # q
           \/ /\ Plain(call) /\ call.op # "turn"
              /\ call.op = "confirm" => call.index = 0
    PROVE  CallStill(call, q)
<1>1. CASE call.got.msgs = <<>>
  <2>1. DOMAIN call.got.msgs = {}
    BY <1>1
  <2> QED
    BY <2>1 DEF CallStill, Plain
<1>2. CASE \E x \in calls : call.got = x.got
  BY <1>2 DEF CallStill, Still, CallsStill, Plain
<1> QED
  BY <1>1, <1>2 DEF Blank

LEMMA NewCalls ==
    ASSUME NEW q \in Turns, NEW p, NEW c
    PROVE  /\ \A op : LET x == Request(p, op, c) IN x.turn = 0 /\ x.got.msgs = <<>> /\ x.page = p /\ x.op = op
           /\ \A k, r, t : LET x == TurnOf(p, c, t, k, r)
                           IN x.turn = t /\ x.conf = k /\ x.op = "turn" /\ x.state = "sent" /\ x.got.msgs = <<>> /\ x.page = p
           /\ \A t : LET x == QuestionOf(p, c, t)
                     IN  /\ x.turn = t /\ x.conf = "none" /\ x.op = "question" /\ x.state = "sent" /\ x.got.msgs = <<>>
                         /\ x.page = p
           /\ \A k, r, t : LET x == AnswerOf(p, c, t, k, r)
                           IN x.turn = t /\ x.conf = k /\ x.op = "answer" /\ x.state = "sent" /\ x.got.msgs = <<>> /\ x.page = p
           /\ \A b, r, t : LET x == ConfirmOf(p, c, t, b, r)
                           IN  /\ x.turn = t /\ x.conf = "none" /\ x.op = "confirm" /\ x.got.msgs = <<>> /\ x.page = p
                               /\ x.index = IF b THEN 1 ELSE 0
BY DEF Request, TurnOf, QuestionOf, AnswerOf, ConfirmOf, Nothing

(* The regenerations a page waits for. *)
LEMMA NoneBegins ==
    ASSUME PagesQuiet, NEW p \in AppPages, ~Unbegun(app[p]),
           \A call \in calls' \ calls : call.op = "regenerate" => call.state = "orphan"
    PROVE  RegenerationOK(p)'
BY DEF PagesQuiet, RegenerationOK, Waiting

LEMMA StillUnbegun ==
    ASSUME PagesOK, PagesQuiet, NEW p \in AppPages, NEW next, Set(p, next), Unbegun(app[p]) => Unbegun(next),
           \A call \in calls' \ calls : call.op = "regenerate" => call.state = "orphan"
    PROVE  RegenerationOK(p)'
<1>1. app'[p] = next
  BY DEF Set, PagesOK, AppOK
<1> QED
  BY <1>1 DEF PagesQuiet, RegenerationOK, Waiting

LEMMA OthersUnbegun ==
    ASSUME PagesOK, PagesQuiet, NEW p \in AppPages, NEW next, Set(p, next), RegenerationOK(p)',
           \A call \in calls' \ calls : call.page = p
    PROVE  PagesQuiet'
<1>1. \A r \in AppPages : r # p => app'[r] = app[r]
  BY DEF Set, PagesOK, AppOK
<1>2. ASSUME NEW r \in AppPages, r # p
      PROVE  RegenerationOK(r)'
  BY <1>1, <1>2 DEF PagesQuiet, RegenerationOK, Waiting
<1> QED
  BY <1>2 DEF PagesQuiet

(* A page that neither asks nor takes up a write of a placeholder. *)
Same4 == UNCHANGED <<alone, chats, ran, written, asked>>
PagesCalm == PagesOK /\ TurnsQuiet /\ PagesQuiet /\ ConfirmsOK
Calmly == TurnsQuiet /\ PagesQuiet /\ ConfirmsOK

LEMMA AppEasy ==
    ASSUME PagesCalm, NEW p \in AppPages, NEW next, Set(p, next), Same4, RegenerationOK(p)',
           \A q \in Turns : AppHolds(next, q) => AppHolds(app[p], q),
           \A call \in calls \ calls' : call.page = p /\ call.op # "turn",
           \A call \in calls' \ calls :
              /\ call.page = p /\ Blank(call) /\ Plain(call) /\ call.op # "confirm"
              /\ call.op = "turn" => AppHolds(app[p], call.turn) /\ ~AppHolds(next, call.turn),
           \A i \in DOMAIN next.shown :
              \/ next.shown[i].conf \notin {"open", "waiting", "running"} \/ ~next.shown[i].token
              \/ \E j \in DOMAIN app[p].shown : next.shown[i] = app[p].shown[j]
    PROVE  Calmly'
<1>1. ASSUME NEW q \in Turns
      PROVE  QuestionOK(q)'
  <2>1. QuestionOK(q) /\ PagesOK
    BY DEF PagesCalm, TurnsQuiet
  <2>2. \A call \in calls' \ calls : ~CallHolds(call, q)
    BY DEF CallHolds, Plain
  <2>3. ASSUME AppHolds(app[p], q) => AppHolds(next, q), Still(q)
        PROVE  (\A call \in calls' \ calls : CallStill(call, q)) /\ AppStill(p, next, q, calls')
    <3>1. ASSUME NEW call \in calls' \ calls
          PROVE  CallStill(call, q)
      <4>1. Blank(call) /\ Plain(call) /\ call.op # "confirm" /\ (call.turn # q \/ call.op # "turn")
        BY <2>3
      <4> QED
        BY <2>3, <4>1, PlainCall
    <3>2. AppStill(p, app[p], q, calls)
      BY <2>3 DEF Still, PagesStill
    <3>3. AppStill(p, next, q, calls')
      <4>1. \A i \in DOMAIN next.shown : (Panel(next.shown[i], q) /\ next.shown[i].token) =>
              \E j \in DOMAIN app[p].shown : /\ Panel(app[p].shown[j], q) /\ app[p].shown[j].token
                                             /\ next.shown[i].conf = "running" => app[p].shown[j].conf = "running"
        BY DEF Panel
      <4> QED
        BY <3>2, <4>1, PanelsStay
    <3> QED
      BY <3>1, <3>3
  <2> QED
    BY <2>1, <2>2, <2>3, AppCalm DEF Same4
<1>2. PagesQuiet'
  BY OthersUnbegun DEF PagesCalm
<1>3. ConfirmsOK'
  BY DEF ConfirmsOK, FormOK, PagesCalm, Plain
<1> QED
  BY <1>1, <1>2, <1>3 DEF TurnsQuiet, Calmly

LEMMA MountCalm ==
    ASSUME PagesCalm, NEW p \in AppPages, Mount(p), UNCHANGED alone
    PROVE  Calmly'
<1>1. PICK next : /\ Set(p, next) /\ next.shown = <<>> /\ next.phase \in {"idle", "loading"}
                  /\ calls \subseteq calls' /\ \A call \in calls' \ calls : \E c : call = LoadOf(p, c)
  <2>1. /\ LET next == [NewAppPage EXCEPT !.phase = "idle"] IN next.shown = <<>> /\ next.phase = "idle"
        /\ \A c : LET next == [NewAppPage EXCEPT !.phase = "loading", !.chat = c]
                  IN  next.shown = <<>> /\ next.phase = "loading"
    BY DEF NewAppPage
  <2> QED
    BY <2>1 DEF Mount, Keep
<1>2. DOMAIN next.shown = {}
  BY <1>1
<1>3. \A q : ~AppHolds(next, q)
  BY <1>1 DEF AppHolds
<1>4. \A c : LET x == LoadOf(p, c) IN x.page = p /\ x.got.msgs = <<>> /\ ~Asks(x) /\ x.op = "load"
  BY DEF LoadOf, Request, Nothing, Asks
<1>5. RegenerationOK(p)'
  BY <1>1, <1>4, NoneBegins DEF PagesCalm, Mount, Unbegun
<1>6. Same4
  BY DEF Same4, Mount, Keep
<1> QED
  BY <1>1, <1>2, <1>3, <1>4, <1>5, <1>6, AppEasy DEF Blank, Plain

LEMMA LoadFailsCalm ==
    ASSUME PagesCalm, NEW p \in AppPages, LoadFails(p) \/ RetryLoad(p) \/ Synced(p) \/ Customized(p), UNCHANGED alone
    PROVE  Calmly'
<1>1. app[p] \in AppPage /\ Same4
  BY PageNow DEF LoadFails, RetryLoad, Synced, Customized, Keep, PagesCalm, Same4
<1>2. \A call \in calls \ calls' : call.page = p /\ call.op # "turn"
  BY DEF LoadFails, RetryLoad, Synced, Customized, Arrived, Waiting
<1>3. \A call \in calls' \ calls : \E c : call = LoadOf(p, c)
  <2>1. CASE RetryLoad(p)
    BY <2>1 DEF RetryLoad
  <2>2. CASE ~RetryLoad(p)
    <3>1. calls' \ calls = {}
      BY <2>2 DEF LoadFails, Synced, Customized
    <3> QED
      BY <3>1
  <2> QED
    BY <2>1, <2>2
<1>4. \A c : LET x == LoadOf(p, c) IN x.page = p /\ x.got.msgs = <<>> /\ ~Asks(x) /\ x.op = "load"
  BY DEF LoadOf, Request, Nothing, Asks
<1>5. PICK next : /\ Set(p, next) /\ next.shown = app[p].shown
                  /\ \/ next.phase \in {"failed", "loading", "idle"} /\ ~Unbegun(app[p])
                     \/ next.phase = app[p].phase /\ next.how = app[p].how /\ next.slot = app[p].slot /\ next.token = app[p].token
  <2>1. CASE LoadFails(p)
    <3>1. CASE app[p].phase = "loading" /\ Set(p, [app[p] EXCEPT !.phase = "failed"])
      <4>1. [app[p] EXCEPT !.phase = "failed"].shown = app[p].shown /\ [app[p] EXCEPT !.phase = "failed"].phase = "failed"
        BY <1>1 DEF AppPage
      <4> QED
        BY <3>1, <4>1 DEF Unbegun
    <3>2. CASE app[p].phase \in {"restoring", "syncing"} /\ Set(p, Warned(Free(app[p]), Turn(app[p])))
      <4>1. Free(app[p]) \in AppPage /\ Free(app[p]).shown = app[p].shown /\ Free(app[p]).phase = "idle"
        BY <1>1, FreeTyped
      <4> DEFINE f == Free(app[p])
      <4> HIDE DEF f
      <4>2. \A q : Warned(f, q).shown = f.shown /\ Warned(f, q).phase = f.phase
        BY <4>1 DEF Warned, AppPage, f
      <4> QED
        BY <3>2, <4>1, <4>2 DEF f, Unbegun
    <3> QED
      BY <2>1, <3>1, <3>2 DEF LoadFails
  <2>2. CASE RetryLoad(p)
    <3>1. [app[p] EXCEPT !.phase = "loading"].shown = app[p].shown /\ [app[p] EXCEPT !.phase = "loading"].phase = "loading"
      BY <1>1 DEF AppPage
    <3> QED
      BY <2>2, <3>1 DEF RetryLoad, Unbegun
  <2>3. CASE Synced(p)
    <3>1. Free(app[p]) \in AppPage /\ Free(app[p]).shown = app[p].shown /\ Free(app[p]).phase = "idle"
      BY <1>1, FreeTyped
    <3>2. \A r : LET next == [Free(app[p]) EXCEPT !.rev = r] IN next.shown = app[p].shown /\ next.phase = "idle"
      BY <3>1 DEF AppPage
    <3> QED
      BY <2>3, <3>2 DEF Synced, Unbegun
  <2>4. CASE Customized(p)
    <3>1. \A r : LET next == [app[p] EXCEPT !.rev = r]
                 IN  /\ next.shown = app[p].shown /\ next.phase = app[p].phase /\ next.how = app[p].how
                     /\ next.slot = app[p].slot /\ next.token = app[p].token
      BY <1>1 DEF AppPage
    <3> QED
      BY <2>4, <3>1 DEF Customized
  <2> QED
    BY <2>1, <2>2, <2>3, <2>4
<1>6. \A q : AppHolds(next, q) => AppHolds(app[p], q)
  BY <1>5 DEF AppHolds, Turn
<1>7. \A call \in calls' \ calls : call.op = "load"
  BY <1>3, <1>4
<1>8. RegenerationOK(p)'
  <2>1. CASE ~Unbegun(app[p])
    BY <1>7, <2>1, NoneBegins DEF PagesCalm
  <2>2. CASE Unbegun(app[p])
    <3>1. Unbegun(next)
      BY <1>5, <2>2 DEF Unbegun, Current
    <3> QED
      BY <1>5, <1>7, <3>1, StillUnbegun DEF PagesCalm
  <2> QED
    BY <2>1, <2>2
<1> QED
  BY <1>1, <1>2, <1>3, <1>4, <1>5, <1>6, <1>8, AppEasy DEF Blank, Plain

LEMMA CustomizeCalm ==
    ASSUME PagesCalm, NEW p \in AppPages, Customize(p), UNCHANGED alone
    PROVE  Calmly'
<1>1. app \in [AppPages -> AppPage] /\ UNCHANGED app /\ Same4
  BY DEF Customize, PagesCalm, PagesOK, AppOK, Same4
<1>2. Set(p, app[p])
  BY <1>1 DEF Set
<1>3. \E c : calls' = calls \cup {Request(p, "meta", c)}
  BY DEF Customize
<1>4. \A c : LET x == Request(p, "meta", c) IN x.page = p /\ x.got.msgs = <<>> /\ ~Asks(x) /\ x.op = "meta"
  BY DEF Request, Nothing, Asks
<1>5. RegenerationOK(p)'
  BY <1>2, <1>3, <1>4, StillUnbegun DEF PagesCalm
<1> QED
  BY <1>1, <1>2, <1>3, <1>4, <1>5, AppEasy DEF Blank, Plain

(* A page fills the bubble of its answer with m. *)
LEMMA FilledCalm ==
    ASSUME PagesCalm, NEW p \in AppPages, NEW next, Set(p, next), Same4, Sending(app[p]), RegenerationOK(p)',
           \A q \in Turns : AppHolds(next, q) => AppHolds(app[p], q),
           \A call \in calls \ calls' : call.page = p /\ call.op # "turn",
           \A call \in calls' \ calls :
              /\ call.page = p /\ Blank(call) /\ Plain(call) /\ call.op # "confirm"
              /\ call.op = "turn" => AppHolds(app[p], call.turn) /\ ~AppHolds(next, call.turn),
           NEW m, next.shown = [app[p].shown EXCEPT ![app[p].slot] = m], m.conf = "none" \/ ~m.token
    PROVE  Calmly'
<1>1. app[p].slot \in DOMAIN app[p].shown
  BY PageNow DEF PageOK, PagesCalm
<1>2. ASSUME NEW i \in DOMAIN next.shown
      PROVE  next.shown[i] = m \/ \E j \in DOMAIN app[p].shown : next.shown[i] = app[p].shown[j]
  BY <1>1
<1> QED
  BY <1>2, AppEasy

LEMMA StreamTextCalm ==
    ASSUME PagesCalm, NEW p \in AppPages, StreamText(p), UNCHANGED alone
    PROVE  Calmly'
<1> DEFINE page == app[p]
           m == [Current(page) EXCEPT !.text = TRUE]
           next == [page EXCEPT !.shown[page.slot].text = TRUE]
<1>1. /\ page \in AppPage /\ page.slot \in DOMAIN page.shown /\ Current(page) \in Shown /\ Current(page).conf = "none"
      /\ Sending(page) /\ Turn(page) = Current(page).turn
  BY StreamingNow, PageNow DEF StreamText, PagesCalm
<1>2. m \in Shown /\ m.conf = "none" /\ m.turn = Current(page).turn
  BY <1>1 DEF Shown
<1>3. next = [page EXCEPT !.shown[page.slot] = m]
  BY DEF Current
<1> HIDE DEF m
<1>4. next.shown = [page.shown EXCEPT ![page.slot] = m]
  <2>1. m \in Shown
    BY <1>2
  <2> HIDE DEF page, next
  <2> QED
    BY <1>1, <1>3, <2>1, SlotTyped
<1>5. next.phase = page.phase /\ next.how = page.how /\ next.slot = page.slot
  BY <1>1, <1>3 DEF AppPage
<1>6. Set(p, next) /\ UNCHANGED calls /\ Same4
  BY DEF StreamText, Keep, Same4
<1> HIDE DEF next
<1>7. Turn(next) = Turn(page)
  BY <1>1, <1>2, <1>4, <1>5 DEF Turn
<1>8. \A q : AppHolds(next, q) => AppHolds(page, q)
  BY <1>5, <1>7 DEF AppHolds
<1>9. ~Unbegun(page)
  BY DEF StreamText, Begins, Unbegun
<1>10. RegenerationOK(p)'
  BY <1>6, <1>9, NoneBegins DEF PagesCalm
<1> QED
  BY <1>1, <1>2, <1>4, <1>6, <1>8, <1>10, FilledCalm DEF Blank, Plain

LEMMA StreamDoneCalm ==
    ASSUME PagesCalm, NEW p \in AppPages, StreamDone(p), UNCHANGED alone
    PROVE  Calmly'
<1> DEFINE page == app[p]
           m == [Current(page) EXCEPT !.text = TRUE, !.done = TRUE]
           next == [page EXCEPT !.phase = "settling", !.token = 0,
                        !.shown[page.slot].text = TRUE, !.shown[page.slot].done = TRUE]
<1>1. /\ page \in AppPage /\ page.slot \in DOMAIN page.shown /\ Current(page) \in Shown /\ Sending(page)
      /\ Current(page).conf = "none" /\ page.phase = "streaming" /\ page.how \in {"send", "regenerate"}
  BY StreamingNow, PageNow DEF StreamDone, PagesCalm
<1>2. m \in Shown /\ m.conf = "none"
  BY <1>1 DEF Shown
<1>3. next = Filled(page, m, "settling")
  BY <1>1 DEF Filled, Current, AppPage
<1> HIDE DEF m
<1>4. next.shown = [page.shown EXCEPT ![page.slot] = m] /\ next.phase = "settling"
  <2>1. "settling" \in Phases /\ m \in Shown
    BY <1>2 DEF Phases
  <2> HIDE DEF page, next
  <2> QED
    BY <1>1, <1>3, <2>1, FilledTyped
<1>5. Set(p, next) /\ Same4
  BY DEF StreamDone, Keep, Same4
<1>6. PICK call : /\ calls' = calls \cup {call}
                  /\ call = IF page.how = "send" THEN TurnOf(p, page.chat, Turn(page), "none", page.rev)
                            ELSE AnswerOf(p, page.chat, Turn(page), "none", page.token)
  BY DEF StreamDone
<1> HIDE DEF next
<1>7. \A q : ~AppHolds(next, q)
  BY <1>4 DEF AppHolds
<1>8. page.how = "send" => AppHolds(page, Turn(page))
  BY <1>1 DEF AppHolds
<1>9. /\ call.page = p /\ call.got.msgs = <<>> /\ ~Asks(call) /\ call.op \in {"turn", "answer"}
      /\ call.op = "turn" => AppHolds(page, call.turn)
  BY <1>6, <1>8 DEF TurnOf, AnswerOf, Request, Nothing, Asks
<1>10. ~Unbegun(page)
  BY DEF StreamDone, Begins, Unbegun
<1>11. RegenerationOK(p)'
  BY <1>6, <1>9, <1>10, NoneBegins DEF PagesCalm
<1> QED
  BY <1>1, <1>2, <1>4, <1>5, <1>6, <1>7, <1>9, <1>11, FilledCalm DEF Blank, Plain

(* A stream that ends with nothing to store, or with what Stop stores. *)
LEMMA EndedCalm ==
    ASSUME PagesCalm, NEW p \in AppPages, Streaming(p), NEW text \in BOOLEAN, NEW error \in BOOLEAN, Same4,
           RegenerationOK(p)',
           \/ \E phase \in {"settling", "restoring"} : Set(p, [Ended(app[p], text, error) EXCEPT !.phase = phase])
           \/ Set(p, Free(Ended(app[p], text, error))),
           \A call \in calls \ calls' : call.page = p /\ call.op # "turn",
           \A call \in calls' \ calls :
              /\ call.page = p /\ Blank(call) /\ Plain(call) /\ call.op # "confirm"
              /\ call.op = "turn" => AppHolds(app[p], call.turn)
    PROVE  Calmly'
<1> DEFINE page == app[p]
           m == EndedEntry(page, text, error)
<1>1. /\ page.slot \in DOMAIN page.shown /\ Current(page) \in Shown /\ page \in AppPage /\ Sending(page)
      /\ Current(page).conf = "none" /\ page.phase \in Phases
  BY StreamingNow, PageNow, PageFields DEF PagesCalm
<1>2. /\ m \in Shown /\ Ended(page, text, error) = Filled(page, m, page.phase)
      /\ \A phase : [Ended(page, text, error) EXCEPT !.phase = phase] = Filled(page, m, phase)
  BY <1>1, EndedIsFilled
<1>3. m.conf = "none"
  BY <1>1 DEF EndedEntry, Shown
<1> HIDE DEF m
<1>4. \A phase \in Phases : LET f == Filled(page, m, phase)
                            IN  f \in AppPage /\ f.shown = [page.shown EXCEPT ![page.slot] = m] /\ f.phase = phase
  BY <1>1, <1>2, FilledTyped
<1>5. PICK next : /\ Set(p, next) /\ next.shown = [page.shown EXCEPT ![page.slot] = m]
                  /\ next.phase \in {"settling", "restoring", "idle"}
  <2>1. CASE Set(p, Free(Ended(page, text, error)))
    <3>1. Free(Ended(page, text, error)).shown = [page.shown EXCEPT ![page.slot] = m]
          /\ Free(Ended(page, text, error)).phase = "idle"
      BY <1>1, <1>2, <1>4, FreeTyped
    <3> QED
      BY <2>1, <3>1
  <2>2. ASSUME NEW phase \in {"settling", "restoring"}, Set(p, [Ended(page, text, error) EXCEPT !.phase = phase])
        PROVE  \E next : /\ Set(p, next) /\ next.shown = [page.shown EXCEPT ![page.slot] = m]
                         /\ next.phase \in {"settling", "restoring", "idle"}
    <3>1. phase \in Phases
      BY DEF Phases
    <3> QED
      BY <1>2, <1>4, <2>2, <3>1
  <2> QED
    BY <2>1, <2>2
<1>6. \A q : ~AppHolds(next, q)
  BY <1>5 DEF AppHolds
<1> QED
  BY <1>1, <1>3, <1>5, <1>6, FilledCalm

LEMMA StreamErrorCalm ==
    ASSUME PagesCalm, NEW p \in AppPages, StreamError(p) \/ StreamBreak(p), UNCHANGED alone
    PROVE  Calmly'
<1>1. Streaming(p) /\ Same4 /\ ~Unbegun(app[p])
  BY DEF StreamError, StreamBreak, Keep, Same4, Begins, Unbegun
<1>2. \/ Set(p, [Ended(app[p], TRUE, TRUE) EXCEPT !.phase = "settling"])
      \/ Set(p, [Ended(app[p], TRUE, TRUE) EXCEPT !.phase = "restoring"])
      \/ Set(p, Free(Ended(app[p], TRUE, TRUE)))
  BY DEF StreamError, StreamBreak, Restoring
<1>3. \A call \in calls \ calls' : call.page = p /\ call.op # "turn"
  BY DEF StreamError, StreamBreak, Restoring, Waiting
<1>4. \A call \in calls' \ calls : \E c, q : call = QuestionOf(p, c, q) \/ call = LoadOf(p, c)
  <2>1. \/ \E c, q : calls' = calls \cup {QuestionOf(p, c, q)}
        \/ \E c : calls' = (calls \ Waiting(p, "regenerate")) \cup {LoadOf(p, c)}
        \/ calls' = calls
    BY DEF StreamError, StreamBreak, Restoring
  <2> QED
    BY <2>1
<1>5. \A c, q : /\ LET x == QuestionOf(p, c, q) IN x.page = p /\ x.got.msgs = <<>> /\ ~Asks(x) /\ x.op = "question"
                /\ LET x == LoadOf(p, c) IN x.page = p /\ x.got.msgs = <<>> /\ ~Asks(x) /\ x.op = "load"
  BY DEF QuestionOf, LoadOf, Request, Nothing, Asks
<1>6. \A call \in calls' \ calls : call.page = p /\ call.got.msgs = <<>> /\ ~Asks(call) /\ call.op \in {"question", "load"}
  BY <1>4, <1>5
<1>7. RegenerationOK(p)'
  BY <1>1, <1>6, NoneBegins DEF PagesCalm
<1>8. TRUE \in BOOLEAN
  OBVIOUS
<1> QED
  BY <1>1, <1>2, <1>3, <1>6, <1>7, <1>8, EndedCalm DEF Blank, Plain

(* The answer of a regeneration arrives: the page waits for no other. *)
LEMMA RegenerationArrives ==
    ASSUME PagesQuiet, NEW p \in AppPages, NEW state, NEW call \in Arrived(p, "regenerate", state), call \notin calls',
           \A x \in calls' \ calls : x.op = "regenerate" => x.state = "orphan"
    PROVE  RegenerationOK(p)' /\ Unbegun(app[p])
<1>1. call \in Waiting(p, "regenerate")
  BY DEF Arrived
<1>2. \A x \in Waiting(p, "regenerate") : x = call
  BY <1>1 DEF PagesQuiet, RegenerationOK
<1>3. Waiting(p, "regenerate")' = {}
  BY <1>2 DEF Waiting
<1> QED
  BY <1>1, <1>3 DEF PagesQuiet, RegenerationOK

LEMMA RegenerateRefusedCalm ==
    ASSUME PagesCalm, NEW p \in AppPages, RegenerateRefused(p), UNCHANGED alone
    PROVE  Calmly'
<1>1. PICK call \in Arrived(p, "regenerate", "refused") :
        /\ Streaming(p) /\ Set(p, [Ended(app[p], TRUE, TRUE) EXCEPT !.phase = "restoring"])
        /\ calls' = (calls \ {call}) \cup {LoadOf(p, app[p].chat)} /\ Same4
  BY DEF RegenerateRefused, Keep, Same4
<1> DEFINE load == LoadOf(p, app[p].chat)
<1>2. load.page = p /\ load.got.msgs = <<>> /\ ~Asks(load) /\ load.op = "load"
  BY DEF LoadOf, Request, Nothing, Asks
<1>3. call.page = p /\ call.op = "regenerate"
  BY <1>1 DEF Arrived, Waiting
<1>4. calls' = (calls \ {call}) \cup {load} /\ call # load
  BY <1>1, <1>2, <1>3
<1> HIDE DEF load
<1>5. RegenerationOK(p)'
  BY <1>1, <1>2, <1>4, RegenerationArrives DEF PagesCalm
<1>6. TRUE \in BOOLEAN
  OBVIOUS
<1> QED
  BY <1>1, <1>2, <1>3, <1>4, <1>5, <1>6, EndedCalm DEF Blank, Plain

LEMMA StopCalm ==
    ASSUME PagesCalm, NEW p \in AppPages, Stop(p), UNCHANGED alone
    PROVE  Calmly'
<1> DEFINE page == app[p]
           text == Current(page).text
           ended == Ended(page, text, FALSE)
<1>1. /\ page \in AppPage /\ PageOK(page, written) /\ Same4
      /\ (Streaming(p) \/ page.phase = "creating") /\ FALSE \in BOOLEAN
  BY PageNow DEF Stop, Keep, Same4, PagesCalm
<1>2. text \in BOOLEAN
  <2>1. Sending(page)
    BY <1>1, StreamingNow DEF Sending, PagesCalm
  <2> QED
    BY <2>1, TurnTyped DEF Shown, Sending, PagesCalm
<1>3. CASE page.phase = "creating" /\ Set(p, [page EXCEPT !.how = "stopped"]) /\ UNCHANGED calls
  <2> DEFINE next == [page EXCEPT !.how = "stopped"]
  <2>1. next.shown = page.shown /\ next.how = "stopped"
    BY <1>1 DEF AppPage
  <2>2. Set(p, next)
    BY <1>3
  <2> HIDE DEF next
  <2>3. \A q : ~AppHolds(next, q)
    BY <2>1 DEF AppHolds
  <2>4. RegenerationOK(p)'
    BY <1>3, NoneBegins DEF PagesCalm, Unbegun
  <2> QED
    BY <1>1, <1>3, <2>1, <2>2, <2>3, <2>4, AppEasy
<1>4. CASE text /\ Set(p, [ended EXCEPT !.phase = "settling"])
           /\ calls' = calls \cup
                   {IF page.how = "send" THEN TurnOf(p, page.chat, Turn(page), "none", page.rev)
                    ELSE AnswerOf(p, page.chat, Turn(page), "none", page.token)}
  <2>1. Streaming(p) /\ page.phase = "streaming"
    BY <1>1, <1>4 DEF PageOK, Streaming
  <2>2. PICK call : /\ calls' = calls \cup {call}
                    /\ call = IF page.how = "send" THEN TurnOf(p, page.chat, Turn(page), "none", page.rev)
                              ELSE AnswerOf(p, page.chat, Turn(page), "none", page.token)
    BY <1>4
  <2>3. page.how = "send" => AppHolds(page, Turn(page))
    BY <2>1 DEF AppHolds
  <2>4. /\ call.page = p /\ call.got.msgs = <<>> /\ ~Asks(call) /\ call.op \in {"turn", "answer"}
        /\ call.op = "turn" => AppHolds(page, call.turn)
    BY <2>2, <2>3 DEF TurnOf, AnswerOf, Request, Nothing, Asks
  <2>5. RegenerationOK(p)'
    BY <1>4, <2>2, <2>4, NoneBegins DEF PagesCalm, Unbegun
  <2>6. Set(p, [Ended(page, text, FALSE) EXCEPT !.phase = "settling"])
    BY <1>4
  <2> HIDE DEF text
  <2> QED
    BY <1>1, <1>2, <2>1, <2>2, <2>4, <2>5, <2>6, EndedCalm DEF Blank, Plain
<1>5. CASE page.phase = "streaming" /\ ~text /\ page.how = "send" /\ Set(p, Free(ended)) /\ UNCHANGED calls
  <2>1. Streaming(p)
    BY <1>1, <1>5
  <2>2. Set(p, Free(Ended(page, text, FALSE)))
    BY <1>5
  <2>3. RegenerationOK(p)'
    BY <1>5, NoneBegins DEF PagesCalm, Unbegun
  <2> HIDE DEF text
  <2> QED
    BY <1>1, <1>2, <1>5, <2>1, <2>2, <2>3, EndedCalm
<1>6. CASE /\ page.how = "regenerate" /\ ~text /\ Set(p, [ended EXCEPT !.phase = "restoring"])
           /\ calls' = (calls \ Waiting(p, "regenerate")) \cup {LoadOf(p, page.chat)}
                    \cup {[call EXCEPT !.state = "orphan"] : call \in Arrived(p, "regenerate", "sent")}
  <2>1. Streaming(p)
    BY <1>1, <1>6 DEF PageOK
  <2> DEFINE load == LoadOf(p, page.chat)
             given == {[call EXCEPT !.state = "orphan"] : call \in Arrived(p, "regenerate", "sent")}
  <2>2. load.page = p /\ load.got.msgs = <<>> /\ ~Asks(load) /\ load.op = "load"
    BY DEF LoadOf, Request, Nothing, Asks
  <2>3. ASSUME NEW x \in given
        PROVE  /\ x.page = p /\ x.op = "regenerate" /\ x.state = "orphan"
               /\ \E call \in calls : x.got = call.got
    <3>1. PICK call \in Arrived(p, "regenerate", "sent") : x = [call EXCEPT !.state = "orphan"]
      OBVIOUS
    <3>2. call \in calls /\ call \in Call /\ call.page = p /\ call.op = "regenerate"
      BY PageNow DEF Arrived, Waiting, PagesCalm
    <3>3. x.page = p /\ x.op = "regenerate" /\ x.state = "orphan" /\ x.conf = call.conf /\ x.got = call.got
      BY <3>1, <3>2 DEF Call
    <3> QED
      BY <3>2, <3>3
  <2>4. calls' = (calls \ Waiting(p, "regenerate")) \cup {load} \cup given
    BY <1>6
  <2> HIDE DEF load, given
  <2>5. \A call \in calls \ calls' : call.page = p /\ call.op # "turn"
    BY <2>4 DEF Waiting
  <2>6. Waiting(p, "regenerate")' = {}
    BY <2>2, <2>3, <2>4 DEF Waiting
  <2>7. RegenerationOK(p)'
    BY <2>6 DEF RegenerationOK
  <2>8. Set(p, [Ended(page, text, FALSE) EXCEPT !.phase = "restoring"])
    BY <1>6
  <2>9. \A call \in calls' \ calls : call.page = p /\ Blank(call) /\ Plain(call) /\ call.op \in {"load", "regenerate"}
    BY <2>2, <2>3, <2>4 DEF Blank, Plain
  <2> HIDE DEF text
  <2> QED
    BY <1>1, <1>2, <2>1, <2>5, <2>7, <2>8, <2>9, EndedCalm
<1> QED
  BY <1>3, <1>4, <1>5, <1>6 DEF Stop

LEMMA CreatedCalm ==
    ASSUME PagesCalm, NEW p \in AppPages, Created(p), UNCHANGED alone
    PROVE  Calmly'
<1>1. /\ app[p].phase = "creating" /\ Sending(app[p]) /\ app[p] \in AppPage /\ PageOK(app[p], written) /\ Same4
  BY PageNow DEF Created, Sending, Keep, Same4, PagesCalm
<1>2. (\A call \in calls \ calls' : call.page = p /\ call.op # "turn") /\ calls' \ calls = {}
  BY DEF Created, Arrived, Waiting
<1>3. /\ app[p].slot \in 1..Len(app[p].shown) /\ Len(app[p].shown) \in Nat /\ DOMAIN app[p].shown = 1..Len(app[p].shown)
      /\ \A i \in 1..Len(app[p].shown) : app[p].shown[i] \in Shown
      /\ Current(app[p]).conf = "none"
  BY <1>1, PageFields DEF PageOK
<1>4. RegenerationOK(p)'
  BY <1>1, <1>2, NoneBegins DEF PagesCalm, Unbegun
<1>5. ASSUME NEW call \in calls,
             Set(p, IF [app[p] EXCEPT !.chat = call.got.chat, !.rev = call.got.rev].how = "stopped"
                    THEN Free(Ended([app[p] EXCEPT !.chat = call.got.chat, !.rev = call.got.rev], FALSE, FALSE))
                    ELSE [[app[p] EXCEPT !.chat = call.got.chat, !.rev = call.got.rev] EXCEPT !.phase = "streaming"])
      PROVE  Calmly'
  <2> DEFINE page == [app[p] EXCEPT !.chat = call.got.chat, !.rev = call.got.rev]
  <2>1. call.got.chat \in Chats \cup {NoChat} /\ call.got.rev \in Nat
    BY PageNow DEF Got, PagesCalm
  <2>2. page \in AppPage /\ page.shown = app[p].shown /\ page.slot = app[p].slot /\ page.how = app[p].how
    BY <1>1, <2>1 DEF AppPage
  <2>3. CASE Set(p, Free(Ended(page, FALSE, FALSE)))
    <3> DEFINE m == EndedEntry(page, FALSE, FALSE)
               next == Free(Ended(page, FALSE, FALSE))
    <3>1. page.slot \in DOMAIN page.shown /\ page.phase \in Phases
      BY <1>3, <2>2, PageFields
    <3>2. Current(page) \in Shown /\ Current(page) = Current(app[p])
      BY <2>2, <3>1, PageFields DEF Current
    <3> HIDE DEF page
    <3>3. m \in Shown /\ Ended(page, FALSE, FALSE) = Filled(page, m, page.phase)
      BY <2>2, <3>1, EndedIsFilled
    <3>4. m.conf = "none"
      BY <1>3, <3>2 DEF EndedEntry, Shown
    <3> HIDE DEF m
    <3>5. /\ Filled(page, m, page.phase) \in AppPage
          /\ Filled(page, m, page.phase).shown = [page.shown EXCEPT ![page.slot] = m]
      BY <2>2, <3>1, <3>3, FilledTyped
    <3>6. next.phase = "idle" /\ next.shown = [app[p].shown EXCEPT ![app[p].slot] = m]
      BY <2>2, <3>3, <3>5, FreeTyped
    <3>7. Set(p, next)
      BY <2>3
    <3> HIDE DEF next
    <3>8. \A q : ~AppHolds(next, q)
      BY <3>6 DEF AppHolds
    <3> QED
      BY <1>1, <1>2, <1>4, <3>4, <3>6, <3>7, <3>8, FilledCalm
  <2>4. CASE page.how # "stopped" /\ Set(p, [page EXCEPT !.phase = "streaming"])
    <3> DEFINE next == [page EXCEPT !.phase = "streaming"]
    <3>1. next.shown = app[p].shown /\ next.how = app[p].how /\ next.slot = app[p].slot
      <4> HIDE DEF page
      <4> QED
        BY <2>2 DEF AppPage
    <3>2. Set(p, next)
      BY <2>4
    <3> HIDE DEF next
    <3>3. \A q : AppHolds(next, q) => AppHolds(app[p], q)
      BY <1>1, <3>1 DEF AppHolds, Turn
    <3> QED
      BY <1>1, <1>2, <1>4, <3>1, <3>2, <3>3, AppEasy
  <2> QED
    BY <1>5, <2>3, <2>4
<1>6. ASSUME Set(p, Free([app[p] EXCEPT !.shown = SubSeq(@, 1, app[p].slot - 2)]))
      PROVE  Calmly'
  <2> DEFINE n == app[p].slot - 2
             s == SubSeq(app[p].shown, 1, n)
             page == [app[p] EXCEPT !.shown = s]
  <2>1. n \in Int /\ n <= Len(app[p].shown)
    BY <1>3
  <2>2. /\ s \in Seq(Shown) /\ Len(s) = IF 1 <= n THEN n - 1 + 1 ELSE 0
        /\ \A i \in 1..n - 1 + 1 : s[i] = app[p].shown[1 + i - 1]
    <3>1. \A i \in 1..n : app[p].shown[i] \in Shown
      BY <1>3, <2>1
    <3> HIDE DEF n
    <3> QED
      BY <2>1, <3>1, SubSeqProperties
  <2> HIDE DEF s, n
  <2>3. \A i \in DOMAIN s : i \in DOMAIN app[p].shown /\ s[i] = app[p].shown[i]
    <3>1. DOMAIN s = 1..(IF 1 <= n THEN n ELSE 0)
      BY <2>1, <2>2, LenProperties
    <3>2. \A i \in 1..(IF 1 <= n THEN n ELSE 0) : i \in 1..n - 1 + 1 /\ 1 + i - 1 = i /\ i \in 1..Len(app[p].shown)
      BY <1>3, <2>1
    <3> QED
      BY <1>3, <2>2, <3>1, <3>2
  <2>4. page \in AppPage /\ page.shown = s
    BY <1>1, <2>2 DEF AppPage
  <2>5. Free(page).shown = s /\ Free(page).phase = "idle"
    <3> HIDE DEF page
    <3> QED
      BY <2>4, FreeTyped
  <2>6. Set(p, Free(page))
    BY <1>6 DEF s, n
  <2>7. \A q : ~AppHolds(Free(page), q)
    BY <2>5 DEF AppHolds
  <2> HIDE DEF page
  <2> QED
    BY <1>1, <1>2, <1>4, <2>3, <2>5, <2>6, <2>7, AppEasy
<1> QED
  BY <1>5, <1>6 DEF Created, Arrived, Waiting

LEMMA RegenerateCalm ==
    ASSUME PagesCalm, NEW p \in AppPages, Regenerate(p), UNCHANGED alone
    PROVE  Calmly'
<1> DEFINE page == app[p]
<1>1. /\ page \in AppPage /\ Same4 /\ page.phase = "idle"
      /\ page.shown \in Seq(Shown) /\ DOMAIN page.shown = 1..Len(page.shown) /\ Len(page.shown) \in Nat
      /\ \A i \in DOMAIN page.shown : page.shown[i] \in Shown
  BY PageNow, PageFields DEF Regenerate, PagesCalm, Same4
<1>2. PICK i \in DOMAIN page.shown :
        /\ Set(p, [page EXCEPT !.phase = "streaming", !.how = "regenerate", !.token = 0, !.slot = i + 1,
                         !.shown = Append(SubSeq(@, 1, i), Answering(page.shown[i].turn))])
        /\ calls' = calls \cup {[Request(p, "regenerate", page.chat) EXCEPT !.index = i, !.rev = page.rev]}
  BY DEF Regenerate
<1> DEFINE q == page.shown[i].turn
           cut == SubSeq(page.shown, 1, i)
           shown == Append(cut, Answering(q))
           next == [page EXCEPT !.phase = "streaming", !.how = "regenerate", !.token = 0, !.slot = i + 1, !.shown = shown]
           call == [Request(p, "regenerate", page.chat) EXCEPT !.index = i, !.rev = page.rev]
<1>3. i \in 1..Len(page.shown) /\ i \in Nat /\ q \in Turns /\ Answering(q) \in Shown
  <2>1. q \in Turns
    BY <1>1 DEF Shown
  <2> QED
    BY <1>1, <2>1, BubblesTyped
<1>4. cut \in Seq(Shown) /\ Len(cut) = i /\ \A j \in 1..i : cut[j] = page.shown[j]
  <2>1. \A j \in 1..i : page.shown[j] \in Shown
    BY <1>1, <1>3
  <2>2. /\ cut \in Seq(Shown)
        /\ Len(cut) = IF 1 <= i THEN i - 1 + 1 ELSE 0
        /\ \A j \in 1..i - 1 + 1 : cut[j] = page.shown[1 + j - 1]
    BY <1>3, <2>1, SubSeqProperties
  <2> HIDE DEF cut
  <2>3. Len(cut) = i /\ \A j \in 1..i : cut[j] = page.shown[j]
    BY <1>3, <2>2
  <2> QED
    BY <2>2, <2>3
<1> HIDE DEF cut
<1>5. shown[i + 1] = Answering(q) /\ \A j \in DOMAIN shown : shown[j] = Answering(q) \/ \E k \in DOMAIN page.shown : shown[j] = page.shown[k]
  <2>1. /\ shown \in Seq(Shown) /\ Len(shown) = i + 1 /\ shown[i + 1] = Answering(q)
        /\ \A j \in 1..i : shown[j] = cut[j]
    BY <1>3, <1>4, AppendProperties
  <2>2. DOMAIN shown = 1..i + 1
    BY <1>3, <2>1, LenProperties
  <2> HIDE DEF shown
  <2>3. \A j \in 1..i + 1 : j = i + 1 \/ (j \in 1..i /\ j \in 1..Len(page.shown))
    BY <1>1, <1>3
  <2> QED
    BY <1>1, <1>4, <2>1, <2>2, <2>3
<1>6. Answering(q).conf = "none" /\ ~Answering(q).text
  BY DEF Answering, Bubble, Answer
<1> HIDE DEF shown, q
<1>7. next = PageOf("streaming", page.chat, shown, i + 1, page.rev, "regenerate", 0, page.warned, page.seen)
  <2>1. next = [page EXCEPT !.phase = "streaming", !.how = "regenerate", !.token = 0, !.slot = i + 1, !.shown = shown]
    OBVIOUS
  <2> HIDE DEF page, next
  <2> QED
    BY <1>1, <2>1, PageCut
<1>8. next.shown = shown /\ next.phase = "streaming" /\ next.how = "regenerate" /\ next.token = 0 /\ next.slot = i + 1
  <2> HIDE DEF next
  <2> QED
    BY <1>7 DEF PageOf
<1>9. Set(p, next)
  BY <1>2 DEF next, shown, q, cut
<1> HIDE DEF next
<1>10. \A t : ~AppHolds(next, t)
  BY <1>8 DEF AppHolds
<1>11. call.page = p /\ call.got.msgs = <<>> /\ ~Asks(call) /\ call.op = "regenerate" /\ calls' = calls \cup {call}
  BY <1>2 DEF Request, Nothing, Asks
<1> HIDE DEF call
<1>12. RegenerationOK(p)'
  <2>1. Waiting(p, "regenerate") = {}
    BY <1>1 DEF PagesCalm, PagesQuiet, RegenerationOK, Unbegun
  <2>2. \A x \in Waiting(p, "regenerate")' : x = call
    BY <1>11, <2>1 DEF Waiting
  <2>3. app'[p] = next
    BY <1>9 DEF Set, PagesCalm, PagesOK, AppOK
  <2>4. Unbegun(next)
    BY <1>5, <1>6, <1>8 DEF Unbegun, Current
  <2> QED
    BY <2>2, <2>3, <2>4 DEF RegenerationOK
<1> QED
  BY SMTT(40), <1>1, <1>5, <1>6, <1>8, <1>9, <1>10, <1>11, <1>12, AppEasy DEF Blank, Plain

LEMMA RegenerateBeginsCalm ==
    ASSUME PagesCalm, NEW p \in AppPages, RegenerateBegins(p), UNCHANGED alone
    PROVE  Calmly'
<1> DEFINE page == app[p]
<1>1. PICK call \in Arrived(p, "regenerate", "ok") :
        /\ Streaming(p)
        /\ Set(p, [page EXCEPT !.token = call.got.rev, !.rev = Larger(@, call.got.rev),
                        !.shown[page.slot].turn = call.got.msgs[1].turn])
        /\ calls' = calls \ {call} /\ Same4
  BY DEF RegenerateBegins, Keep, Same4
<1> DEFINE m == [Current(page) EXCEPT !.turn = call.got.msgs[1].turn]
           next == [page EXCEPT !.token = call.got.rev, !.rev = Larger(@, call.got.rev),
                        !.shown[page.slot].turn = call.got.msgs[1].turn]
<1>2. /\ page \in AppPage /\ page.slot \in DOMAIN page.shown /\ Current(page) \in Shown
      /\ Current(page).conf = "none" /\ Sending(page)
  BY <1>1, StreamingNow, PageNow DEF PagesCalm
<1>3. m.conf = "none"
  BY <1>2 DEF Shown
<1>4. next.shown = [page.shown EXCEPT ![page.slot] = m] /\ next.how = page.how
  BY <1>2 DEF Current, AppPage
<1>5. Set(p, next) /\ \A x \in calls \ calls' : x.page = p /\ x.op = "regenerate"
  BY <1>1 DEF Arrived, Waiting
<1> HIDE DEF next, m
<1>6. RegenerationOK(p)' /\ Unbegun(page)
  BY <1>1, RegenerationArrives DEF PagesCalm
<1>7. \A q : ~AppHolds(next, q)
  BY <1>4, <1>6 DEF AppHolds, Unbegun
<1> QED
  BY <1>1, <1>2, <1>3, <1>4, <1>5, <1>6, <1>7, FilledCalm

LEMMA AppDone ==
    ASSUME PagesCalm, NEW p \in AppPages, NEW next, Set(p, next), RegenerationOK(p)', TurnsQuiet',
           \A call \in calls' \ calls : call.page = p /\ FormOK(call)
    PROVE  Calmly'
<1>1. PagesQuiet'
  BY OthersUnbegun DEF PagesCalm
<1>2. ConfirmsOK'
  BY DEF ConfirmsOK, PagesCalm
<1> QED
  BY <1>1, <1>2 DEF Calmly

(* What a page reads asks for nothing that may still be stored. *)
LEMMA BubblesStill ==
    ASSUME NEW call \in Call, NEW q, CallStill(call, q), NEW i \in DOMAIN call.got.msgs
    PROVE  ~Panel(Bubble(call.got.msgs[i]), q)
<1> DEFINE m == call.got.msgs[i]
<1>1. call.got.msgs \in Seq(Message)
  BY StateAlone DEF Got
<1>2. m \in Message
  BY <1>1, ElementOfSeq, LenProperties
<1>3. m.conf \in {"none", "open", "claimed", "done"}
  BY <1>2 DEF Message, Confirmations
<1>4. m.turn = q => m.conf \notin {"open", "claimed"}
  BY DEF CallStill, Asks
<1>5. /\ Bubble(m).turn = m.turn
      /\ m.conf \in {"none", "done"} => Bubble(m).conf = m.conf
  BY DEF Bubble
<1> QED
  BY <1>3, <1>4, <1>5 DEF Panel

LEMMA LoadedCalm ==
    ASSUME PagesCalm, NEW p \in AppPages, Loaded(p), UNCHANGED alone
    PROVE  Calmly'
<1>1. PICK call \in calls :
        /\ call.op = "load" /\ call.state = "ok" /\ call.page = p
        /\ app[p].phase \in {"loading", "restoring"}
        /\ Set(p, Restored(app[p], call.got)) /\ calls' = calls \ {call} /\ Same4
  BY DEF Loaded, Arrived, Waiting, Keep, Same4
<1> DEFINE next == Restored(app[p], call.got)
<1>2. call.got \in Got /\ call \in Call /\ app[p] \in AppPage /\ PagesOK
  BY PageNow DEF PagesCalm
<1>3. next.shown = Bubbles(call.got.msgs) /\ next.phase = "idle"
  BY <1>2, RestoredTyped
<1>4. DOMAIN next.shown = DOMAIN call.got.msgs
      /\ \A i \in DOMAIN call.got.msgs : next.shown[i] = Bubble(call.got.msgs[i])
  BY <1>3 DEF Bubbles
<1>5. Set(p, next)
  BY <1>1
<1> HIDE DEF next
<1>6. ASSUME NEW q \in Turns
      PROVE  QuestionOK(q)'
  <2>1. QuestionOK(q) /\ ~AppHolds(next, q) /\ calls' \subseteq calls /\ \A x \in calls \ calls' : x.page = p
    BY <1>1, <1>3 DEF AppHolds, PagesCalm, TurnsQuiet
  <2>2. ASSUME Still(q)
        PROVE  AppStill(p, next, q, calls')
    <3>1. CallStill(call, q)
      BY <2>2 DEF Still, CallsStill
    <3>2. \A i \in DOMAIN next.shown : ~Panel(next.shown[i], q)
      BY <1>2, <1>4, <3>1, BubblesStill
    <3> QED
      BY <3>2 DEF AppStill
  <2> QED
    BY <1>1, <1>2, <1>5, <2>1, <2>2, AppCalm DEF Same4
<1>7. RegenerationOK(p)'
  BY <1>1, NoneBegins DEF PagesCalm, Unbegun
<1> QED
  BY <1>1, <1>5, <1>6, <1>7, AppDone DEF TurnsQuiet

LEMMA SendCalm ==
    ASSUME PagesCalm, NEW p \in AppPages, Send(p), UNCHANGED alone
    PROVE  Calmly'
<1> DEFINE page == app[p]
           n == asked + 1
           two == <<Asking(n), Answering(n)>>
           shown == page.shown \o two
           next == [page EXCEPT !.shown = shown, !.slot = Len(shown), !.how = "send", !.seen = @ \cup {n},
                       !.phase = IF page.chat = NoChat THEN "creating" ELSE "streaming"]
<1>1. /\ page \in AppPage /\ n \in Turns /\ page.phase = "idle" /\ asked \in Nat /\ asked' = n
      /\ page.shown \in Seq(Shown) /\ DOMAIN page.shown = 1..Len(page.shown) /\ Len(page.shown) \in Nat
      /\ UNCHANGED <<alone, chats, ran, written>> /\ PagesOK
  <2>1. asked \in 0..MaxTurns /\ asked < MaxTurns /\ MaxTurns \in Nat
    BY PageNow, ChatAssumption DEF PagesCalm, Send
  <2>2. asked \in Nat /\ n \in Turns
    BY <2>1 DEF Turns
  <2> QED
    BY <2>2, PageNow, PageFields DEF Send, PagesCalm
<1>2. two \in Seq(Shown) /\ Len(two) = 2 /\ two[1] = Asking(n) /\ two[2] = Answering(n)
  BY <1>1, BubblesTyped
<1>3. /\ \A i \in DOMAIN shown : \/ \E j \in DOMAIN page.shown : shown[i] = page.shown[j]
                                 \/ shown[i] = Asking(n) \/ shown[i] = Answering(n)
      /\ shown[Len(shown)] = Answering(n)
  <2> HIDE DEF two
  <2>1. /\ shown \in Seq(Shown) /\ Len(shown) = Len(page.shown) + 2
        /\ \A i \in 1..Len(page.shown) + 2 :
              shown[i] = IF i <= Len(page.shown) THEN page.shown[i] ELSE two[i - Len(page.shown)]
    <3>1. page.shown \in Seq(Shown) /\ two \in Seq(Shown) /\ Len(two) = 2 /\ Len(page.shown) \in Nat
      BY <1>1, <1>2
    <3>2. /\ page.shown \o two \in Seq(Shown) /\ Len(page.shown \o two) = Len(page.shown) + 2
          /\ \A i \in 1..Len(page.shown) + 2 :
                (page.shown \o two)[i] = IF i <= Len(page.shown) THEN page.shown[i] ELSE two[i - Len(page.shown)]
      BY <3>1, ConcatProperties DEF two
    <3> QED
      BY <3>2
  <2> HIDE DEF shown
  <2>2. DOMAIN shown = 1..Len(page.shown) + 2
    BY <1>1, <2>1, LenProperties
  <2>3. ASSUME NEW i \in 1..Len(page.shown) + 2
        PROVE  i <= Len(page.shown) \/ i - Len(page.shown) = 1 \/ i - Len(page.shown) = 2
    BY <1>1
  <2>4. /\ Len(page.shown) + 2 \in 1..Len(page.shown) + 2 /\ ~(Len(page.shown) + 2 <= Len(page.shown))
        /\ Len(page.shown) + 2 - Len(page.shown) = 2
    BY <1>1
  <2>5. shown[Len(shown)] = Answering(n)
    BY <1>2, <2>1, <2>4
  <2> QED
    BY <1>1, <1>2, <2>1, <2>2, <2>3, <2>5
<1>4. Asking(n).conf = "none" /\ Answering(n).conf = "none" /\ Answering(n).turn = n
  BY DEF Asking, Answering, Bubble, Question, Answer
<1>5. next.shown = shown /\ next.slot = Len(shown)
  <2> HIDE DEF shown
  <2> QED
    BY <1>1 DEF AppPage
<1>6. Set(p, next)
  BY DEF Send
<1>7. \A call \in calls' \ calls : call.page = p /\ call.turn = 0 /\ call.got.msgs = <<>> /\ call.op = "create"
  BY DEF Send, Request, Nothing
<1>8. calls \subseteq calls'
  BY DEF Send
<1> HIDE DEF next, shown, n
<1>9. Turn(next) = n
  BY <1>3, <1>4, <1>5 DEF Turn
<1>10. ASSUME NEW q \in Turns
       PROVE  QuestionOK(q)'
  <2>1. QuestionOK(q) /\ q \in Nat
    BY DEF PagesCalm, TurnsQuiet, Turns
  <2>2. \A call \in calls' \ calls : ~CallHolds(call, q)
    BY <1>7 DEF CallHolds
  <2>3. HoldingCalls(q)' \subseteq HoldingCalls(q)
    BY <2>2 DEF HoldingCalls
  <2>4. ASSUME Still(q)
        PROVE  Still(q)'
    <3>1. \A call \in calls' \ calls : CallStill(call, q)
      <4>1. \A call \in calls' \ calls : Blank(call) /\ Plain(call) /\ call.op \notin {"turn", "confirm"}
        BY <1>7 DEF Blank, Plain
      <4> QED
        BY <2>4, <4>1, PlainCall
    <3>2. AppStill(p, app[p], q, calls)
      BY <2>4 DEF Still, PagesStill
    <3>3. \A i \in DOMAIN next.shown : (Panel(next.shown[i], q) /\ next.shown[i].token) =>
              \E j \in DOMAIN app[p].shown : /\ Panel(app[p].shown[j], q) /\ app[p].shown[j].token
                                             /\ next.shown[i].conf = "running" => app[p].shown[j].conf = "running"
      BY <1>3, <1>4, <1>5 DEF Panel
    <3>4. AppStill(p, next, q, calls')
      BY <1>8, <3>2, <3>3, PanelsStay
    <3>5. \A call \in calls \ calls' : call.page = p
      BY <1>8
    <3> QED
      BY <1>1, <1>6, <2>4, <3>1, <3>4, <3>5, AppStillness
  <2>5. HoldingPages(q)' = (HoldingPages(q) \ {p}) \cup (IF AppHolds(next, q) THEN {p} ELSE {})
    BY <1>1, <1>6, AppHolding
  <2>6. AppHolds(next, q) => q = n
    BY <1>9 DEF AppHolds
  <2>7. CASE q = n
    <3>1. q > asked /\ ~(q > asked')
      BY <1>1, <2>1, <2>7 DEF n
    <3>2. HoldingPages(q) = {} /\ HoldingCalls(q) = {}
      BY <2>1, <3>1 DEF QuestionOK, Held
    <3> QED
      BY <2>1, <2>3, <2>4, <2>5, <3>1, <3>2, TakesUp
  <2>8. CASE q # n
    <3>1. q > asked' => q > asked
      BY <1>1, <2>1 DEF n
    <3> QED
      BY <2>1, <2>3, <2>4, <2>5, <2>6, <2>8, <3>1, NobodyNew
  <2> QED
    BY <2>7, <2>8
<1>11. RegenerationOK(p)'
  BY <1>1, <1>7, NoneBegins DEF PagesCalm, Unbegun
<1> QED
  BY <1>6, <1>7, <1>10, <1>11, AppDone DEF TurnsQuiet, FormOK

(* Steps that change panels: the bubble that is being streamed has none. *)
Untouched(page, next) ==
    /\ next.phase = page.phase /\ next.how = page.how /\ next.slot = page.slot /\ next.token = page.token
    /\ Alike(page.shown, next.shown)

Quietly(page) == page.phase \notin {"creating", "streaming"}

LEMMA PanelsOnly ==
    ASSUME PagesCalm, NEW p \in AppPages, NEW next, Set(p, next),
           Untouched(app[p], next) \/ (Quietly(app[p]) /\ Quietly(next)),
           \A call \in calls' \ calls : call.op # "regenerate"
    PROVE  RegenerationOK(p)' /\ \A q : AppHolds(next, q) <=> AppHolds(app[p], q)
<1>1. CASE Quietly(app[p]) /\ Quietly(next)
  <2>1. RegenerationOK(p)'
    BY <1>1, NoneBegins DEF PagesCalm, Quietly, Unbegun
  <2> QED
    BY <1>1, <2>1 DEF Quietly, AppHolds
<1>2. CASE ~Quietly(app[p]) /\ Untouched(app[p], next)
  <2>1. app[p].slot \in DOMAIN app[p].shown /\ Current(app[p]).conf = "none"
    BY <1>2, PageNow DEF PagesCalm, PageOK, Quietly, Sending
  <2>2. Current(next) = Current(app[p]) /\ Turn(next) = Turn(app[p])
    BY <1>2, <2>1 DEF Untouched, Alike, Current, Turn
  <2>3. Unbegun(app[p]) => Unbegun(next)
    BY <1>2, <2>2 DEF Untouched, Unbegun
  <2>4. RegenerationOK(p)'
    BY <2>3, StillUnbegun DEF PagesCalm
  <2> QED
    BY <1>2, <2>2, <2>4 DEF Untouched, AppHolds
<1>3. CASE Quietly(app[p]) /\ Untouched(app[p], next)
  BY <1>1, <1>3 DEF Untouched, Quietly
<1> QED
  BY <1>1, <1>2, <1>3

LEMMA PanelsCalm ==
    ASSUME PagesCalm, NEW p \in AppPages, NEW next, Set(p, next), Same4,
           Untouched(app[p], next) \/ (Quietly(app[p]) /\ Quietly(next)),
           \A call \in calls \ calls' : call.page = p,
           \A call \in calls' \ calls : /\ call.page = p /\ Blank(call) /\ ~Asks(call) /\ call.op \in {"answer", "confirm", "load"}
                                        /\ call.op = "confirm" => call.index \in {0, 1},
           \A q \in Turns : Still(q) =>
              /\ \A call \in calls' \ calls : call.turn = q /\ call.op = "confirm" => call.index = 0
              /\ AppStill(p, next, q, calls')
    PROVE  Calmly'
<1>1. RegenerationOK(p)' /\ \A q : AppHolds(next, q) <=> AppHolds(app[p], q)
  BY PanelsOnly
<1>2. ASSUME NEW q \in Turns
      PROVE  QuestionOK(q)'
  <2>1. QuestionOK(q) /\ PagesOK
    BY DEF PagesCalm, TurnsQuiet
  <2>2. \A call \in calls' \ calls : ~CallHolds(call, q)
    BY DEF CallHolds
  <2>3. ASSUME Still(q)
        PROVE  (\A call \in calls' \ calls : CallStill(call, q)) /\ AppStill(p, next, q, calls')
    <3>1. ASSUME NEW call \in calls' \ calls
          PROVE  CallStill(call, q)
      <4>1. Blank(call) /\ Plain(call) /\ call.op # "turn" /\ (call.turn # q \/ (call.op = "confirm" => call.index = 0))
        BY <2>3 DEF Plain
      <4> QED
        BY <2>3, <4>1, PlainCall
    <3> QED
      BY <2>3, <3>1
  <2> QED
    BY <1>1, <2>1, <2>2, <2>3, AppCalm DEF Same4
<1>3. TurnsQuiet'
  BY <1>2 DEF TurnsQuiet
<1> QED
  BY <1>1, <1>3, AppDone DEF FormOK

LEMMA ReleasedPanels ==
    ASSUME NEW W, NEW page, PageOK(page, W), NEW q, NEW saved \in BOOLEAN
    PROVE  LET next == Released(page, q, saved)
           IN  \A i \in DOMAIN page.shown :
                  /\ next.shown[i].token = page.shown[i].token
                  /\ ~saved /\ page.shown[i].turn = q =>
                        /\ next.shown[i].conf \notin {"open", "waiting"}
                        /\ next.shown[i].conf = "running" => page.shown[i].conf = "running"
<1> DEFINE s == [i \in DOMAIN page.shown |->
                    IF page.shown[i].turn = q /\ page.shown[i].conf = "waiting" /\ saved
                    THEN [page.shown[i] EXCEPT !.conf = "running"]
                    ELSE IF page.shown[i].turn = q /\ page.shown[i].conf \in {"open", "waiting"} /\ ~saved
                    THEN [page.shown[i] EXCEPT !.conf = "stuck"]
                    ELSE page.shown[i]]
<1>1. page \in AppPage /\ \A i \in DOMAIN page.shown : page.shown[i] \in Shown
  BY PageFields DEF PageOK
<1>2. ASSUME NEW i \in DOMAIN page.shown
      PROVE  /\ s[i] \in Shown /\ s[i].token = page.shown[i].token
             /\ ~saved /\ page.shown[i].turn = q =>
                   s[i].conf \notin {"open", "waiting"} /\ (s[i].conf = "running" => page.shown[i].conf = "running")
  <2> DEFINE m == page.shown[i]
  <2>1. m \in Shown
    BY <1>1
  <2>2. s[i] = IF m.turn = q /\ m.conf = "waiting" /\ saved THEN [m EXCEPT !.conf = "running"]
               ELSE IF m.turn = q /\ m.conf \in {"open", "waiting"} /\ ~saved THEN [m EXCEPT !.conf = "stuck"] ELSE m
    OBVIOUS
  <2> HIDE DEF m, s
  <2>3. \A k \in {"running", "stuck"} : [m EXCEPT !.conf = k] \in Shown /\ [m EXCEPT !.conf = k].token = m.token
                                        /\ [m EXCEPT !.conf = k].conf = k
    BY <2>1 DEF Shown
  <2>4. /\ s[i] \in Shown /\ s[i].token = m.token
        /\ ~saved /\ m.turn = q => s[i].conf \notin {"open", "waiting"} /\ (s[i].conf = "running" => m.conf = "running")
    BY <2>1, <2>2, <2>3
  <2> QED
    BY <2>4 DEF m
<1>3. s = [i \in DOMAIN page.shown |-> s[i]] /\ DOMAIN s = DOMAIN page.shown
  OBVIOUS
<1>4. Released(page, q, saved) = [page EXCEPT !.shown = s]
  BY DEF Released
<1> HIDE DEF s
<1>5. Released(page, q, saved).shown = s
  <2>1. s \in [DOMAIN page.shown -> Shown]
    BY <1>2, <1>3
  <2> QED
    BY <1>1, <1>4, <2>1, ReshownTyped
<1> QED
  BY <1>2, <1>3, <1>5

(* The placeholder of a question goes out, and its panel waits for it. *)
LEMMA StreamConfirmationCalm ==
    ASSUME PagesCalm, NEW p \in AppPages, StreamConfirmation(p), UNCHANGED alone
    PROVE  Calmly'
<1> DEFINE page == app[p]
           m == [Current(page) EXCEPT !.text = TRUE, !.done = TRUE, !.conf = "open",
                        !.rev = page.token, !.token = page.how = "send"]
           shown == [page EXCEPT !.shown[page.slot] = m, !.token = 0]
           t == Turn(page)
           call == TurnOf(p, page.chat, t, "open", page.rev)
<1>1. /\ page.slot \in DOMAIN page.shown /\ Current(page) \in Shown /\ page \in AppPage /\ Sending(page)
      /\ page.token \in Nat /\ t = Current(page).turn /\ page.phase \in Phases /\ page.phase = "streaming"
      /\ Same4 /\ PagesOK
  BY StreamingNow, PageNow, PageFields DEF StreamConfirmation, PagesCalm, Keep, Same4
<1>2. m \in Shown /\ m.turn = t /\ m.conf = "open" /\ (page.how = "regenerate" => ~m.token)
  BY <1>1 DEF Shown
<1>3. [shown EXCEPT !.phase = "settling"] = Filled(page, m, "settling") /\ shown = Filled(page, m, page.phase)
  <2> HIDE DEF m
  <2> QED
    BY <1>1 DEF Filled, AppPage
<1>4. \/ page.how = "send" /\ Set(p, [shown EXCEPT !.phase = "settling"]) /\ calls' = calls \cup {call}
      \/ page.how = "regenerate" /\ Set(p, Free(shown)) /\ UNCHANGED calls
  BY DEF StreamConfirmation
<1>5. ~Unbegun(page)
  BY DEF StreamConfirmation, Begins, Unbegun
<1>6. /\ call.turn = t /\ call.conf = "open" /\ call.op = "turn" /\ call.state = "sent" /\ call.got.msgs = <<>>
      /\ call.page = p
  <2> HIDE DEF t
  <2> QED
    BY DEF TurnOf, Request, Nothing
<1> HIDE DEF m, shown, call
<1>7. \A phase \in Phases : LET f == Filled(page, m, phase)
                            IN  f \in AppPage /\ f.shown = [page.shown EXCEPT ![page.slot] = m] /\ f.phase = phase
  BY <1>1, <1>2, FilledTyped
<1>8. CASE page.how = "send" /\ Set(p, [shown EXCEPT !.phase = "settling"]) /\ calls' = calls \cup {call}
  <2> DEFINE next == Filled(page, m, "settling")
  <2>1. Set(p, next) /\ next.shown = [page.shown EXCEPT ![page.slot] = m] /\ next.phase = "settling"
    <3>1. "settling" \in Phases
      BY DEF Phases
    <3> QED
      BY <1>3, <1>7, <1>8, <3>1
  <2> HIDE DEF next
  <2>2. \A q : ~AppHolds(next, q)
    BY <2>1 DEF AppHolds
  <2>3. AppHolds(page, t) /\ \A q : AppHolds(page, q) => q = t
    BY <1>1, <1>8 DEF AppHolds
  <2>4. (\A x \in calls' \ calls : x = call) /\ calls \subseteq calls' /\ (\A x \in calls \ calls' : x.page = p)
    BY <1>8
  <2>5. ASSUME NEW q \in Turns, Still(q)
        PROVE  AppStill(p, next, q, calls')
    <3>1. AppStill(p, page, q, calls)
      BY <2>5 DEF Still, PagesStill
    <3>2. ASSUME NEW i \in DOMAIN next.shown, Panel(next.shown[i], q), next.shown[i].token
          PROVE  /\ next.shown[i].conf # "running"
                 /\ \E x \in calls' : x.page = p /\ x.op = "turn" /\ x.turn = q /\ x.state # "orphan"
      <4>1. CASE i = page.slot
        <5>1. next.shown[i] = m /\ q = t
          BY <1>1, <1>2, <2>1, <3>2, <4>1 DEF Panel
        <5> QED
          BY <1>2, <1>6, <1>8, <5>1
      <4>2. CASE i # page.slot
        <5>1. next.shown[i] = page.shown[i] /\ i \in DOMAIN page.shown
          BY <1>1, <2>1, <3>2, <4>2
        <5> QED
          BY <2>4, <3>1, <3>2, <5>1 DEF AppStill
      <4> QED
        BY <4>1, <4>2
    <3> QED
      BY <3>2 DEF AppStill
  <2>6. ASSUME NEW q \in Turns, Still(q)
        PROVE  CallStill(call, q)
    BY <1>6 DEF CallStill, Asks
  <2>7. ASSUME NEW q \in Turns
        PROVE  QuestionOK(q)'
    <3>1. QuestionOK(q)
      BY DEF PagesCalm, TurnsQuiet
    <3>2. CASE q = t
      <4>1. p \in HoldingPages(q) /\ HoldingPages(q)' = HoldingPages(q) \ {p}
        BY <1>1, <2>1, <2>2, <2>3, <3>2, AppHolding DEF Same4
      <4>2. HoldingPages(q)' = {} /\ HoldingCalls(q) = {} /\ Held(q)
        BY <3>1, <4>1 DEF QuestionOK, OneHolder, Held
      <4>3. HoldingCalls(q)' \subseteq {call}
        BY <2>4, <4>2 DEF HoldingCalls
      <4>4. Still(q) => Still(q)'
        BY <1>1, <2>1, <2>4, <2>5, <2>6, AppStillness DEF Same4
      <4>5. q > asked' => q > asked
        BY <1>1 DEF Same4
      <4> QED
        BY <3>1, <4>2, <4>3, <4>4, <4>5, HandsOn
    <3>3. CASE q # t
      <4>1. ~CallHolds(call, q)
        BY <1>6, <3>3 DEF CallHolds
      <4> QED
        BY <1>1, <2>1, <2>2, <2>3, <2>4, <2>5, <2>6, <3>1, <3>3, <4>1, AppCalm DEF Same4
    <3> QED
      BY <3>2, <3>3
  <2>8. RegenerationOK(p)'
    BY <1>5, <1>6, <2>4, NoneBegins DEF PagesCalm
  <2> QED
    BY <1>6, <2>1, <2>4, <2>7, <2>8, AppDone DEF TurnsQuiet, FormOK
<1>9. CASE page.how = "regenerate" /\ Set(p, Free(shown)) /\ UNCHANGED calls
  <2> DEFINE next == Free(shown)
  <2>1. next.shown = [page.shown EXCEPT ![page.slot] = m] /\ next.phase = "idle"
    BY <1>1, <1>3, <1>7, FreeTyped
  <2>2. Set(p, next)
    BY <1>9
  <2> HIDE DEF next
  <2>3. \A q : ~AppHolds(next, q)
    BY <2>1 DEF AppHolds
  <2>4. RegenerationOK(p)'
    BY <1>5, <1>9, NoneBegins DEF PagesCalm
  <2> QED
    BY <1>1, <1>2, <1>9, <2>1, <2>2, <2>3, <2>4, FilledCalm
<1> QED
  BY <1>4, <1>8, <1>9

LEMMA SavedCalm ==
    ASSUME PagesCalm, NEW p \in AppPages, Saved(p), UNCHANGED alone
    PROVE  Calmly'
<1> DEFINE page == app[p]
<1>1. PICK call \in calls :
        /\ call.op \in {"turn", "question", "answer"} /\ call.page = p /\ call.state = "ok"
        /\ Set(p, [(IF call.op = "turn" THEN Released(IF Awaited(p, call) THEN Free(page) ELSE page, call.turn, TRUE)
                    ELSE IF Awaited(p, call) THEN Free(page) ELSE page) EXCEPT !.rev = Larger(@, call.got.rev)])
        /\ calls' = (calls \ {call}) \cup (IF call.op = "turn" THEN Approved(p, page, call.turn) ELSE {})
        /\ Same4
  BY DEF Saved, Saves, Waiting, Keep, Same4
<1> DEFINE over == IF Awaited(p, call) THEN Free(page) ELSE page
           mid == IF call.op = "turn" THEN Released(over, call.turn, TRUE) ELSE over
           next == [mid EXCEPT !.rev = Larger(@, call.got.rev)]
<1>2. page \in AppPage /\ PageOK(page, written) /\ CallOK(call, written) /\ PagesOK
  BY <1>1, PageNow DEF PagesCalm
<1>3. /\ PageOK(over, written) /\ over.shown = page.shown
      /\ over = page \/ (Quietly(page) /\ Quietly(over))
  <2>1. PageOK(Free(page), written) /\ Free(page).shown = page.shown /\ Quietly(Free(page))
    BY <1>2, FreeTyped, IdleOK DEF Sending, Quietly
  <2> QED
    BY <1>2, <2>1 DEF Awaited, Quietly
<1>4. Set(p, next)
  BY <1>1
<1> HIDE DEF over
<1> DEFINE rel == Released(over, call.turn, TRUE)
<1>5. /\ PageOK(mid, written) /\ mid.phase = over.phase /\ mid.slot = over.slot /\ mid.how = over.how
      /\ mid.token = over.token /\ Alike(over.shown, mid.shown)
      /\ \A i \in DOMAIN page.shown : (call.op = "turn" /\ page.shown[i].turn = call.turn) \/ mid.shown[i] = page.shown[i]
  <2>1. TRUE \in BOOLEAN
    OBVIOUS
  <2>2. Alike(over.shown, over.shown)
    BY DEF Alike
  <2>3. /\ PageOK(rel, written) /\ rel.phase = over.phase /\ rel.slot = over.slot /\ rel.how = over.how
        /\ rel.token = over.token /\ Alike(over.shown, rel.shown)
    <3>1. PageOK(over, written)
      BY <1>3
    <3>2. PageOK(rel, written) /\ rel.phase = over.phase
      BY ZenonT(60), <2>1, <3>1, ReleasedOK
    <3>3. rel.slot = over.slot /\ rel.how = over.how
      BY ZenonT(60), <2>1, <3>1, ReleasedOK
    <3>4. rel.token = over.token
      BY <2>1, <3>1, ReleasedOK
    <3>5. Alike(over.shown, rel.shown)
      BY <2>1, <3>1, ReleasedOK
    <3> QED
      BY <3>2, <3>3, <3>4, <3>5
  <2>4. \A i \in DOMAIN over.shown : over.shown[i].turn # call.turn => rel.shown[i] = over.shown[i]
    BY ZenonT(60), <1>3, <2>1, ReleasedEntries
  <2>5. mid = IF call.op = "turn" THEN rel ELSE over
    OBVIOUS
  <2> HIDE DEF rel, mid
  <2> QED
    BY <1>3, <2>2, <2>3, <2>4, <2>5
<1> HIDE DEF mid
<1>7. /\ next.shown = mid.shown /\ next.phase = mid.phase /\ next.slot = mid.slot /\ next.how = mid.how
      /\ next.token = mid.token
  <2>1. mid \in AppPage
    BY <1>5 DEF PageOK
  <2> QED
    BY <2>1 DEF AppPage
<1> HIDE DEF next
<1>8. Untouched(page, next) \/ (Quietly(page) /\ Quietly(next))
  BY <1>3, <1>5, <1>7 DEF Untouched, Quietly
<1> DEFINE approval == ConfirmOf(p, page.chat, call.turn, TRUE, 0)
<1>9. /\ approval.page = p /\ approval.turn = call.turn /\ ~Asks(approval) /\ approval.op = "confirm"
      /\ approval.index = 1 /\ approval.got.msgs = <<>>
  BY DEF ConfirmOf, Request, Nothing, Asks
<1>10. (\A x \in calls' \ calls : x = approval /\ call.op = "turn") /\ \A x \in calls \ calls' : x = call
  <2>1. Approved(p, page, call.turn) \subseteq {approval}
    BY DEF Approved
  <2> HIDE DEF approval
  <2> QED
    BY <1>1, <2>1
<1> HIDE DEF approval
<1>11. ASSUME NEW q \in Turns, Still(q)
       PROVE  /\ \A x \in calls' \ calls : x.turn = q /\ x.op = "confirm" => x.index = 0
              /\ AppStill(p, next, q, calls')
  <2>1. call.op = "turn" => call.turn # q
    BY <1>1, <1>11 DEF Still, CallsStill, CallStill
  <2>2. AppStill(p, page, q, calls)
    BY <1>11 DEF Still, PagesStill
  <2>3. \A i \in DOMAIN next.shown : i \in DOMAIN page.shown /\ next.shown[i].turn = page.shown[i].turn
    BY <1>3, <1>5, <1>7 DEF Alike
  <2>4. \A i \in DOMAIN next.shown : Panel(next.shown[i], q) => next.shown[i] = page.shown[i]
    BY <1>5, <1>7, <2>1, <2>3 DEF Panel
  <2>5. \A x \in calls \ calls' : x.op # "turn" \/ x.turn # q
    BY <1>10, <2>1
  <2>6. AppStill(p, next, q, calls')
    BY <2>2, <2>3, <2>4, <2>5, PanelsStay
  <2> QED
    BY <1>9, <1>10, <2>1, <2>6
<1> QED
  BY <1>1, <1>4, <1>8, <1>9, <1>10, <1>11, PanelsCalm DEF Blank

LEMMA SaveFailsCalm ==
    ASSUME PagesCalm, NEW p \in AppPages, SaveFails(p), UNCHANGED alone
    PROVE  Calmly'
<1> DEFINE page == app[p]
<1>1. PICK call \in calls :
        /\ call.op \in {"turn", "question", "answer"} /\ call.page = p /\ call.state = "refused"
        /\ LET regenerated == Awaited(p, call) /\ page.how = "regenerate"
               over == IF regenerated THEN [page EXCEPT !.phase = "syncing"]
                       ELSE IF Awaited(p, call) THEN Free(page) ELSE page
           IN  /\ Set(p, Warned(IF call.op = "turn" THEN Released(over, call.turn, FALSE) ELSE over, call.turn))
               /\ calls' = (calls \ {call}) \cup (IF regenerated THEN {LoadOf(p, page.chat)} ELSE {})
        /\ Same4
  BY DEF SaveFails, Saves, Waiting, Keep, Same4
<1> DEFINE regenerated == Awaited(p, call) /\ page.how = "regenerate"
           over == IF regenerated THEN [page EXCEPT !.phase = "syncing"]
                   ELSE IF Awaited(p, call) THEN Free(page) ELSE page
           mid == IF call.op = "turn" THEN Released(over, call.turn, FALSE) ELSE over
           next == Warned(mid, call.turn)
           load == LoadOf(p, page.chat)
<1>2. page \in AppPage /\ PageOK(page, written) /\ call.turn \in Turns /\ PagesOK
  BY <1>1, PageNow DEF CallOK, PagesCalm
<1>3. /\ PageOK(over, written) /\ over.shown = page.shown
      /\ over = page \/ (Quietly(page) /\ Quietly(over))
  <2>1. CASE Awaited(p, call)
    <3> DEFINE later == [page EXCEPT !.phase = "syncing"]
    <3>1. PageOK(Free(page), written) /\ Quietly(page) /\ Quietly(Free(page)) /\ Sending(page)
      BY <1>2, <2>1, FreeTyped, IdleOK DEF Sending, Awaited, Quietly
    <3>2. later \in AppPage /\ later.phase = "syncing" /\ later.slot = page.slot /\ later.shown = page.shown
      BY <1>2 DEF AppPage, Phases
    <3>3. over = later \/ over = Free(page)
      BY <2>1
    <3> HIDE DEF later, over
    <3>4. PageOK(later, written)
      BY <1>2, <3>1, <3>2, SettledOK
    <3> QED
      BY <1>2, <3>1, <3>2, <3>3, <3>4, FreeTyped DEF Quietly
  <2>2. CASE ~Awaited(p, call)
    BY <1>2, <2>2
  <2> QED
    BY <2>1, <2>2
<1>4. Set(p, next) /\ calls' = (calls \ {call}) \cup (IF regenerated THEN {load} ELSE {})
  BY <1>1
<1>5. load.page = p /\ load.got.msgs = <<>> /\ ~Asks(load) /\ load.op = "load"
  BY DEF LoadOf, Request, Nothing, Asks
<1> HIDE DEF over, load
<1> DEFINE rel == Released(over, call.turn, FALSE)
<1>6. /\ PageOK(mid, written) /\ mid.phase = over.phase /\ mid.slot = over.slot /\ mid.how = over.how
      /\ mid.token = over.token /\ Alike(over.shown, mid.shown)
      /\ \A i \in DOMAIN page.shown :
            /\ (call.op = "turn" /\ page.shown[i].turn = call.turn) \/ mid.shown[i] = page.shown[i]
            /\ call.op = "turn" /\ page.shown[i].turn = call.turn =>
                  /\ mid.shown[i].conf \notin {"open", "waiting"} /\ mid.shown[i].token = page.shown[i].token
                  /\ mid.shown[i].conf = "running" => page.shown[i].conf = "running"
  <2>1. FALSE \in BOOLEAN
    OBVIOUS
  <2>2. Alike(over.shown, over.shown)
    BY DEF Alike
  <2>3. /\ PageOK(rel, written) /\ rel.phase = over.phase /\ rel.slot = over.slot /\ rel.how = over.how
        /\ rel.token = over.token /\ Alike(over.shown, rel.shown)
    <3>1. PageOK(over, written)
      BY <1>3
    <3>2. PageOK(rel, written) /\ rel.phase = over.phase
      BY ZenonT(60), <2>1, <3>1, ReleasedOK
    <3>3. rel.slot = over.slot /\ rel.how = over.how
      BY ZenonT(60), <2>1, <3>1, ReleasedOK
    <3>4. rel.token = over.token
      BY <2>1, <3>1, ReleasedOK
    <3>5. Alike(over.shown, rel.shown)
      BY <2>1, <3>1, ReleasedOK
    <3> QED
      BY <3>2, <3>3, <3>4, <3>5
  <2>4. \A i \in DOMAIN over.shown : over.shown[i].turn # call.turn => rel.shown[i] = over.shown[i]
    BY ZenonT(60), <1>3, <2>1, ReleasedEntries
  <2>5. \A i \in DOMAIN over.shown : over.shown[i].turn = call.turn =>
          /\ rel.shown[i].conf \notin {"open", "waiting"} /\ rel.shown[i].token = over.shown[i].token
          /\ rel.shown[i].conf = "running" => over.shown[i].conf = "running"
    <3>1. PageOK(over, written)
      BY <1>3
    <3>2. \A i \in DOMAIN over.shown :
             /\ rel.shown[i].token = over.shown[i].token
             /\ ~FALSE /\ over.shown[i].turn = call.turn =>
                   /\ rel.shown[i].conf \notin {"open", "waiting"}
                   /\ rel.shown[i].conf = "running" => over.shown[i].conf = "running"
      BY ZenonT(60), <2>1, <3>1, ReleasedPanels
    <3> HIDE DEF rel
    <3> QED
      BY <3>2
  <2>6. mid = IF call.op = "turn" THEN rel ELSE over
    OBVIOUS
  <2> HIDE DEF rel, mid
  <2> QED
    BY <1>3, <2>2, <2>3, <2>4, <2>5, <2>6
<1> HIDE DEF mid
<1>7. /\ next.shown = mid.shown /\ next.phase = mid.phase /\ next.slot = mid.slot /\ next.how = mid.how
      /\ next.token = mid.token
  <2>1. mid \in AppPage
    BY <1>6 DEF PageOK
  <2> QED
    BY <1>2, <2>1 DEF Warned, AppPage
<1> HIDE DEF next, regenerated
<1>8. Untouched(page, next) \/ (Quietly(page) /\ Quietly(next))
  BY <1>3, <1>6, <1>7 DEF Untouched, Quietly
<1>9. (\A x \in calls' \ calls : x = load) /\ \A x \in calls \ calls' : x = call
  BY <1>4
<1>10. ASSUME NEW q \in Turns, Still(q)
       PROVE  AppStill(p, next, q, calls')
  <2>1. AppStill(p, page, q, calls)
    BY <1>10 DEF Still, PagesStill
  <2>2. \A i \in DOMAIN next.shown : i \in DOMAIN page.shown /\ next.shown[i].turn = page.shown[i].turn
    BY <1>3, <1>6, <1>7 DEF Alike
  <2>3. CASE call.op = "turn" /\ call.turn = q
    <3>1. ASSUME NEW i \in DOMAIN next.shown, Panel(next.shown[i], q), next.shown[i].token
          PROVE  FALSE
      <4>1. page.shown[i].turn = q /\ i \in DOMAIN page.shown
        BY <2>2, <3>1 DEF Panel
      <4>2. page.shown[i].token /\ page.shown[i].conf = "running"
        BY <1>6, <1>7, <2>3, <3>1, <4>1 DEF Panel
      <4> QED
        BY <2>1, <4>1, <4>2 DEF AppStill, Panel
    <3> QED
      BY <3>1 DEF AppStill
  <2>4. CASE ~(call.op = "turn" /\ call.turn = q)
    <3>1. \A i \in DOMAIN next.shown : Panel(next.shown[i], q) => next.shown[i] = page.shown[i]
      BY <1>6, <1>7, <2>2, <2>4 DEF Panel
    <3>2. \A x \in calls \ calls' : x.op # "turn" \/ x.turn # q
      BY <1>9, <2>4
    <3> QED
      BY <2>1, <2>2, <3>1, <3>2, PanelsStay
  <2> QED
    BY <2>3, <2>4
<1> QED
  BY <1>1, <1>4, <1>5, <1>8, <1>9, <1>10, PanelsCalm DEF Blank

LEMMA ApproveCalm ==
    ASSUME PagesCalm, NEW p \in AppPages, Approve(p), UNCHANGED alone
    PROVE  Calmly'
<1> DEFINE page == app[p]
<1>1. PICK i \in DOMAIN page.shown :
        LET m == page.shown[i]
            unsaved == \E call \in Waiting(p, "turn") : call.turn = m.turn
        IN  /\ m.conf = "open"
            /\ Set(p, [page EXCEPT !.shown[i].conf = IF unsaved THEN "waiting" ELSE "running"])
            /\ calls' = IF unsaved THEN calls
                        ELSE calls \cup {ConfirmOf(p, page.chat, m.turn, m.token, m.rev)}
            /\ Same4
  BY DEF Approve, Panels, Keep, Same4
<1> DEFINE m == page.shown[i]
           unsaved == \E call \in Waiting(p, "turn") : call.turn = m.turn
           k == IF unsaved THEN "waiting" ELSE "running"
           n == [m EXCEPT !.conf = k]
           next == [page EXCEPT !.shown[i].conf = k]
           approval == ConfirmOf(p, page.chat, m.turn, m.token, m.rev)
<1>2. page \in AppPage /\ m \in Shown /\ PagesOK
  BY PageNow, PageFields DEF PagesCalm
<1>3. k \in {"none", "open", "waiting", "running", "stuck", "done"}
  OBVIOUS
<1>4. n \in Shown /\ n.turn = m.turn /\ n.token = m.token /\ n.conf = k /\ n.role = m.role
  <2> HIDE DEF k, m
  <2> QED
    BY <1>2, <1>3 DEF Shown
<1>5. next = [page EXCEPT !.shown[i] = n]
  BY <1>2 DEF AppPage
<1>6. /\ next.shown = [page.shown EXCEPT ![i] = n] /\ next.phase = page.phase /\ next.slot = page.slot
      /\ next.how = page.how /\ next.token = page.token
  <2>1. next.phase = page.phase /\ next.slot = page.slot /\ next.how = page.how /\ next.token = page.token
    BY <1>2 DEF AppPage
  <2>2. n \in Shown /\ page \in AppPage
    BY <1>2, <1>4
  <2> HIDE DEF n, next, page
  <2> QED
    BY <1>5, <2>1, <2>2, SlotTyped
<1>7. /\ Set(p, next) /\ m.conf = "open" /\ Same4
      /\ calls' = IF unsaved THEN calls ELSE calls \cup {approval}
  BY <1>1
<1>8. /\ approval.page = p /\ approval.turn = m.turn /\ ~Asks(approval) /\ approval.op = "confirm"
      /\ approval.index = (IF m.token THEN 1 ELSE 0) /\ approval.got.msgs = <<>>
  <2> HIDE DEF m
  <2> QED
    BY DEF ConfirmOf, Request, Nothing, Asks
<1> HIDE DEF n, next, m, approval
<1>9. Untouched(page, next)
  BY <1>4, <1>6, <1>7 DEF Untouched, Alike, m
<1>10. calls \subseteq calls' /\ \A x \in calls' \ calls : x = approval /\ ~unsaved
  BY <1>7
<1>11. ASSUME NEW q \in Turns, Still(q), m.turn = q, m.token
       PROVE  unsaved
  <2>1. AppStill(p, page, q, calls)
    BY <1>11 DEF Still, PagesStill
  <2> QED
    BY <1>7, <1>11, <2>1 DEF AppStill, Panel, Waiting, m
<1>12. ASSUME NEW q \in Turns, Still(q)
       PROVE  /\ \A x \in calls' \ calls : x.turn = q /\ x.op = "confirm" => x.index = 0
              /\ AppStill(p, next, q, calls')
  <2>1. \A x \in calls' \ calls : x.turn = q /\ x.op = "confirm" => x.index = 0
    BY <1>8, <1>10, <1>11, <1>12
  <2>2. AppStill(p, page, q, calls)
    BY <1>12 DEF Still, PagesStill
  <2>3. ASSUME NEW j \in DOMAIN next.shown, Panel(next.shown[j], q), next.shown[j].token
        PROVE  \E l \in DOMAIN page.shown : /\ Panel(page.shown[l], q) /\ page.shown[l].token
                                            /\ next.shown[j].conf = "running" => page.shown[l].conf = "running"
    <3>1. CASE j = i
      <4>1. next.shown[j] = n /\ m.turn = q /\ m.token
        BY <1>4, <1>6, <2>3, <3>1 DEF Panel
      <4>2. n.conf = "waiting"
        BY <1>4, <1>11, <1>12, <4>1
      <4> QED
        BY <1>7, <4>1, <4>2 DEF Panel, m
    <3>2. CASE j # i
      BY <1>6, <2>3, <3>2
    <3> QED
      BY <3>1, <3>2
  <2>4. AppStill(p, next, q, calls')
    BY <1>10, <2>2, <2>3, PanelsStay
  <2> QED
    BY <2>1, <2>4
<1> QED
  BY <1>7, <1>8, <1>9, <1>10, <1>12, PanelsCalm DEF Blank

LEMMA RejectCalm ==
    ASSUME PagesCalm, NEW p \in AppPages, Reject(p), UNCHANGED alone
    PROVE  Calmly'
<1> DEFINE page == app[p]
<1>1. PICK i \in DOMAIN page.shown : Finished(p, page, i) /\ Same4 /\ page.shown[i].conf \in {"open", "stuck"}
  BY DEF Reject, Panels, Keep, Same4
<1> DEFINE m == page.shown[i]
           n == [m EXCEPT !.conf = "done", !.text = TRUE]
           next == [page EXCEPT !.shown[i].conf = "done", !.shown[i].text = TRUE]
           answer == AnswerOf(p, page.chat, m.turn, "done", m.rev)
<1>2. page \in AppPage /\ m \in Shown /\ PagesOK
  BY PageNow, PageFields DEF PagesCalm
<1>3. n \in Shown /\ n.turn = m.turn /\ n.conf = "done" /\ n.role = m.role
  BY <1>2 DEF Shown
<1>4. next = [page EXCEPT !.shown[i] = n]
  BY <1>2 DEF AppPage
<1>5. /\ next.shown = [page.shown EXCEPT ![i] = n] /\ next.phase = page.phase /\ next.slot = page.slot
      /\ next.how = page.how /\ next.token = page.token
  <2>1. next.phase = page.phase /\ next.slot = page.slot /\ next.how = page.how /\ next.token = page.token
    BY <1>2 DEF AppPage
  <2>2. n \in Shown /\ page \in AppPage
    BY <1>2, <1>3
  <2> HIDE DEF n, next, page
  <2> QED
    BY <1>4, <2>1, <2>2, SlotTyped
<1>6. Set(p, next) /\ calls' = calls \cup {answer} /\ m.conf # "none"
  BY <1>1 DEF Finished
<1>7. answer.page = p /\ answer.got.msgs = <<>> /\ ~Asks(answer) /\ answer.op = "answer"
  BY DEF AnswerOf, Request, Nothing, Asks
<1> HIDE DEF n, next, m, answer
<1>8. Untouched(page, next)
  BY <1>3, <1>5, <1>6 DEF Untouched, Alike, m
<1>9. calls \subseteq calls' /\ \A x \in calls' \ calls : x = answer
  BY <1>6
<1>10. ASSUME NEW q \in Turns, Still(q)
       PROVE  AppStill(p, next, q, calls')
  <2>1. AppStill(p, page, q, calls)
    BY <1>10 DEF Still, PagesStill
  <2>2. \A j \in DOMAIN next.shown : Panel(next.shown[j], q) => j \in DOMAIN page.shown /\ next.shown[j] = page.shown[j]
    BY <1>3, <1>5 DEF Panel
  <2> QED
    BY <1>9, <2>1, <2>2, PanelsStay
<1> QED
  BY <1>1, <1>6, <1>7, <1>8, <1>9, <1>10, PanelsCalm DEF Blank

LEMMA ActionRanCalm ==
    ASSUME PagesCalm, NEW p \in AppPages, ActionRan(p), UNCHANGED alone
    PROVE  Calmly'
<1> DEFINE page == app[p]
<1>1. PICK call \in calls :
        LET panel == {i \in Panels(p, {"running"}) : page.shown[i].turn = call.turn}
        IN  /\ call.op = "confirm" /\ call.page = p
            /\ Set(p, [page EXCEPT !.shown = [i \in DOMAIN @ |->
                    IF i \in panel THEN [@[i] EXCEPT !.conf = "done", !.text = TRUE] ELSE @[i]]])
            /\ calls' = (calls \ {call}) \cup {AnswerOf(p, page.chat, call.turn, "done", call.rev)}
            /\ Same4
  BY DEF ActionRan, Arrived, Waiting, Keep, Same4
<1> DEFINE panel == {i \in Panels(p, {"running"}) : page.shown[i].turn = call.turn}
           s == [i \in DOMAIN page.shown |->
                    IF i \in panel THEN [page.shown[i] EXCEPT !.conf = "done", !.text = TRUE] ELSE page.shown[i]]
           next == [page EXCEPT !.shown = s]
           answer == AnswerOf(p, page.chat, call.turn, "done", call.rev)
<1>2. page \in AppPage /\ (\A i \in DOMAIN page.shown : page.shown[i] \in Shown) /\ PagesOK
  BY PageNow, PageFields DEF PagesCalm
<1>3. ASSUME NEW i \in DOMAIN page.shown
      PROVE  /\ s[i] \in Shown /\ s[i].role = page.shown[i].role /\ s[i].turn = page.shown[i].turn
             /\ s[i] = page.shown[i] \/ (s[i].conf = "done" /\ page.shown[i].conf = "running")
  <2> DEFINE m == page.shown[i]
             n == [m EXCEPT !.conf = "done", !.text = TRUE]
  <2>1. m \in Shown /\ (i \in panel => m.conf = "running")
    BY <1>2 DEF Panels
  <2>2. s[i] = IF i \in panel THEN n ELSE m
    OBVIOUS
  <2> HIDE DEF m, s, panel
  <2>3. n \in Shown /\ n.role = m.role /\ n.turn = m.turn /\ n.conf = "done"
    BY <2>1 DEF Shown
  <2> HIDE DEF n
  <2> QED
    BY <2>1, <2>2, <2>3 DEF m
<1>4. s = [i \in DOMAIN page.shown |-> s[i]] /\ DOMAIN s = DOMAIN page.shown
  OBVIOUS
<1>5. Set(p, next) /\ calls' = (calls \ {call}) \cup {answer}
  BY <1>1
<1>6. next = [page EXCEPT !.shown = s]
  OBVIOUS
<1>7. answer.page = p /\ answer.got.msgs = <<>> /\ ~Asks(answer) /\ answer.op = "answer"
  BY DEF AnswerOf, Request, Nothing, Asks
<1> HIDE DEF s, next, answer
<1>8. next.shown = s /\ next.phase = page.phase /\ next.slot = page.slot /\ next.how = page.how /\ next.token = page.token
  <2>1. s \in [DOMAIN page.shown -> Shown] /\ page \in AppPage
    BY <1>2, <1>3, <1>4
  <2> QED
    BY <1>6, <2>1, ReshownTyped
<1>9. Untouched(page, next)
  BY <1>3, <1>4, <1>8 DEF Untouched, Alike
<1>10. (\A x \in calls' \ calls : x = answer) /\ \A x \in calls \ calls' : x = call
  BY <1>5
<1>11. ASSUME NEW q \in Turns, Still(q)
       PROVE  AppStill(p, next, q, calls')
  <2>1. AppStill(p, page, q, calls)
    BY <1>11 DEF Still, PagesStill
  <2>2. \A j \in DOMAIN next.shown : Panel(next.shown[j], q) => j \in DOMAIN page.shown /\ next.shown[j] = page.shown[j]
    BY <1>3, <1>4, <1>8 DEF Panel
  <2>3. \A x \in calls \ calls' : x.op # "turn"
    BY <1>1, <1>10
  <2> QED
    BY <2>1, <2>2, <2>3, PanelsStay
<1> QED
  BY <1>1, <1>5, <1>7, <1>9, <1>10, <1>11, PanelsCalm DEF Blank

LEMMA ActionFailsCalm ==
    ASSUME PagesCalm, NEW p \in AppPages, ActionFails(p), UNCHANGED alone
    PROVE  Calmly'
<1> DEFINE page == app[p]
<1>1. PICK call \in calls :
        /\ call.op = "confirm" /\ call.page = p
        /\ Set(p, [page EXCEPT !.shown = [i \in DOMAIN @ |->
                IF @[i].turn = call.turn /\ @[i].conf = "running" THEN [@[i] EXCEPT !.conf = "open"] ELSE @[i]]])
        /\ calls' = calls \ {call} /\ Same4
  BY DEF ActionFails, Arrived, Waiting, Keep, Same4
<1> DEFINE s == [i \in DOMAIN page.shown |->
                    IF page.shown[i].turn = call.turn /\ page.shown[i].conf = "running"
                    THEN [page.shown[i] EXCEPT !.conf = "open"] ELSE page.shown[i]]
           next == [page EXCEPT !.shown = s]
<1>2. page \in AppPage /\ (\A i \in DOMAIN page.shown : page.shown[i] \in Shown) /\ PagesOK
  BY PageNow, PageFields DEF PagesCalm
<1>3. ASSUME NEW i \in DOMAIN page.shown
      PROVE  /\ s[i] \in Shown /\ s[i].role = page.shown[i].role /\ s[i].turn = page.shown[i].turn
             /\ s[i].token = page.shown[i].token
             /\ s[i] = page.shown[i] \/ (s[i].conf = "open" /\ page.shown[i].conf = "running")
  <2> DEFINE m == page.shown[i]
             n == [m EXCEPT !.conf = "open"]
  <2>1. m \in Shown
    BY <1>2
  <2>2. s[i] = IF m.turn = call.turn /\ m.conf = "running" THEN n ELSE m
    OBVIOUS
  <2> HIDE DEF m, s
  <2>3. n \in Shown /\ n.role = m.role /\ n.turn = m.turn /\ n.conf = "open" /\ n.token = m.token
    BY <2>1 DEF Shown
  <2> HIDE DEF n
  <2> QED
    BY <2>1, <2>2, <2>3 DEF m
<1>4. s = [i \in DOMAIN page.shown |-> s[i]] /\ DOMAIN s = DOMAIN page.shown
  OBVIOUS
<1>5. Set(p, next)
  BY <1>1
<1>6. next = [page EXCEPT !.shown = s]
  OBVIOUS
<1> HIDE DEF s, next
<1>7. next.shown = s /\ next.phase = page.phase /\ next.slot = page.slot /\ next.how = page.how /\ next.token = page.token
  <2>1. s \in [DOMAIN page.shown -> Shown] /\ page \in AppPage
    BY <1>2, <1>3, <1>4
  <2> QED
    BY <1>6, <2>1, ReshownTyped
<1>8. Untouched(page, next)
  BY <1>3, <1>4, <1>7 DEF Untouched, Alike
<1>9. ASSUME NEW q \in Turns, Still(q)
       PROVE  AppStill(p, next, q, calls')
  <2>1. AppStill(p, page, q, calls)
    BY <1>9 DEF Still, PagesStill
  <2>2. \A j \in DOMAIN next.shown : Panel(next.shown[j], q) =>
           j \in DOMAIN page.shown /\ Panel(page.shown[j], q) /\ page.shown[j].token = next.shown[j].token
           /\ (next.shown[j].conf = "running" => page.shown[j].conf = "running")
    BY <1>3, <1>4, <1>7 DEF Panel
  <2>3. \A x \in calls \ calls' : x.op # "turn"
    BY <1>1
  <2> QED
    BY <2>1, <2>2, <2>3, PanelsStay
<1>10. calls' \subseteq calls /\ \A x \in calls \ calls' : x.page = p
  BY <1>1
<1> QED
  BY <1>1, <1>5, <1>8, <1>9, <1>10, PanelsCalm

(* A page goes away: a request that was to store a placeholder still may. *)
LEMMA LeaveCalm ==
    ASSUME PagesCalm, NEW p \in AppPages, NEW phase \in {"gone", "closed"}, Leave(p, phase), UNCHANGED alone
    PROVE  Calmly'
<1> DEFINE page == app[p]
           mine == {call \in calls : call.page = p}
           kept == IF phase = "gone" THEN {call \in mine : call.op \in {"turn", "question", "answer", "confirm"}} ELSE {}
           kinds == IF phase = "gone" THEN {"turn", "question", "answer", "confirm"} ELSE {}
           given == {[call EXCEPT !.state = "orphan"] : call \in {c \in mine \ kept : c.state \in {"sent", "orphan"}}}
           handed == IF HandsOver(page)
                     THEN {[Request(p, "handover", page.chat) EXCEPT !.turn = LastQuestion(page), !.state = "orphan"]}
                     ELSE {}
           shown == IF phase = "gone" /\ (\E i \in DOMAIN page.shown : page.shown[i].conf \in {"waiting", "running"})
                    THEN page.shown ELSE <<>>
           next == [NewAppPage EXCEPT !.phase = phase, !.chat = page.chat, !.seen = page.seen, !.shown = shown]
<1>1. Set(p, next) /\ Same4 /\ calls' = (calls \ mine) \cup kept \cup given \cup handed
  BY DEF Leave, Keep, Same4
<1>2. PagesOK /\ (\A call \in calls : call \in Call) /\ p \notin StandalonePages
  BY PageNow, PagesAssumption DEF PagesCalm
<1>3. next.phase = phase /\ next.shown = shown
  <2> HIDE DEF shown
  <2> QED
    BY DEF NewAppPage
<1>4. \A x \in handed : /\ x.page = p /\ x.op = "handover" /\ x.state = "orphan" /\ x.got.msgs = <<>> /\ ~Asks(x)
  <2> DEFINE t == LastQuestion(page)
             h == [Request(p, "handover", page.chat) EXCEPT !.turn = t, !.state = "orphan"]
  <2>1. \A x \in handed : x = h
    OBVIOUS
  <2> HIDE DEF t, handed
  <2>2. h.page = p /\ h.op = "handover" /\ h.state = "orphan" /\ h.got.msgs = <<>> /\ h.conf = "none"
    <3> HIDE DEF page
    <3> QED
      BY DEF Request, Nothing
  <2> HIDE DEF h
  <2> QED
    BY <2>1, <2>2 DEF Asks
<1>5. ASSUME NEW x \in given
      PROVE  \E c \in mine \ kept : /\ x = [c EXCEPT !.state = "orphan"] /\ c.state \in {"sent", "orphan"}
                                    /\ x.page = p /\ x.op = c.op /\ x.turn = c.turn /\ x.conf = c.conf
                                    /\ x.index = c.index /\ x.got = c.got /\ x.state = "orphan"
  <2>1. PICK c \in mine \ kept : x = [c EXCEPT !.state = "orphan"] /\ c.state \in {"sent", "orphan"}
    OBVIOUS
  <2>2. c \in Call /\ c.page = p
    BY <1>2, <2>1
  <2> HIDE DEF given, mine, kept
  <2> QED
    BY <2>1, <2>2 DEF Call
<1>6. /\ \A x \in mine : x \in calls /\ x.page = p
      /\ \A x \in calls : x.page = p => x \in mine
      /\ kept \subseteq mine /\ \A x \in mine : x \in kept <=> x.op \in kinds
  OBVIOUS
<1>7. shown = page.shown \/ (DOMAIN shown = {} /\ phase = "gone") \/ (DOMAIN shown = {} /\ phase = "closed")
  OBVIOUS
<1>8. phase = "closed" => DOMAIN shown = {}
  OBVIOUS
<1>9. phase = "gone" => kinds = {"turn", "question", "answer", "confirm"}
  OBVIOUS
<1> HIDE DEF given, mine, kept, handed, next, shown, kinds
<1>10. \A q : ~AppHolds(next, q)
  BY <1>3 DEF AppHolds
<1>11. \A x \in calls \ calls' : x.page = p /\ x.op \notin kinds
  BY <1>1, <1>6
<1>12. \A x \in calls' \ calls : x \in given \/ x \in handed
  BY <1>1, <1>6
<1>13. ASSUME NEW q \in Turns, Still(q)
       PROVE  (\A x \in calls' \ calls : CallStill(x, q)) /\ AppStill(p, next, q, calls')
  <2>1. ASSUME NEW x \in given
        PROVE  CallStill(x, q)
    <3>1. PICK c \in mine \ kept : /\ c.state \in {"sent", "orphan"}
                                   /\ x.page = p /\ x.op = c.op /\ x.turn = c.turn /\ x.conf = c.conf
                                   /\ x.index = c.index /\ x.got = c.got /\ x.state = "orphan"
      BY <1>5, <2>1
    <3>2. c \in calls /\ CallStill(c, q) /\ FormOK(c) /\ c.page = p
      BY <1>6, <1>13, <3>1 DEF Still, CallsStill, PagesCalm, ConfirmsOK
    <3>3. ~(c.op = "question" /\ Asks(c))
      BY <1>2, <3>2 DEF FormOK
    <3> QED
      BY <3>1, <3>2, <3>3 DEF CallStill, Asks
  <2>2. ASSUME NEW x \in handed
        PROVE  CallStill(x, q)
    <3>1. Blank(x) /\ Plain(x) /\ x.op \notin {"turn", "confirm"}
      BY <1>4, <2>2 DEF Blank, Plain
    <3> QED
      BY <1>13, <3>1, PlainCall
  <2>3. AppStill(p, next, q, calls')
    <3>1. CASE DOMAIN shown = {}
      BY <1>3, <3>1 DEF AppStill
    <3>2. CASE shown = page.shown /\ phase = "gone"
      <4>1. AppStill(p, page, q, calls)
        BY <1>13 DEF Still, PagesStill
      <4>2. \A x \in calls \ calls' : x.op # "turn"
        BY <1>9, <1>11, <3>2
      <4> QED
        BY <1>3, <3>2, <4>1, <4>2, PanelsStay
    <3> QED
      BY <1>7, <1>8, <3>1, <3>2
  <2> QED
    BY <1>12, <2>1, <2>2, <2>3
<1>14. ASSUME NEW q \in Turns
       PROVE  QuestionOK(q)'
  <2>1. QuestionOK(q) /\ (\A x \in calls \ calls' : x.page = p) /\ UNCHANGED <<alone, chats, ran, written, asked>>
    BY <1>1, <1>11 DEF PagesCalm, TurnsQuiet, Same4
  <2>2. CASE \A x \in calls' \ calls : ~CallHolds(x, q)
    BY <1>1, <1>2, <1>10, <1>13, <2>1, <2>2, AppCalm
  <2>3. ASSUME NEW x \in calls' \ calls, CallHolds(x, q)
        PROVE  QuestionOK(q)'
    <3>1. x \in given
      BY <1>4, <1>12, <2>3 DEF CallHolds
    <3>2. PICK c \in mine \ kept : /\ x = [c EXCEPT !.state = "orphan"] /\ c.state \in {"sent", "orphan"}
                                   /\ x.op = c.op /\ x.turn = c.turn /\ x.conf = c.conf /\ x.state = "orphan"
      BY <1>5, <3>1
    <3>3. c \in HoldingCalls(q)
      BY <1>6, <2>3, <3>2 DEF HoldingCalls, CallHolds, Asks
    <3>4. Held(q) /\ HoldingPages(q) = {} /\ \A y \in HoldingCalls(q) : y = c
      BY <2>1, <3>3 DEF QuestionOK, OneHolder, Held
    <3>5. c \notin calls' \/ c = x
      <4>1. ASSUME c \in calls'
            PROVE  c = x
        <5>1. c \in given \cup handed
          BY <1>1, <1>6, <4>1
        <5>2. c.state = "orphan"
          BY <1>4, <1>5, <5>1
        <5>3. c = [c EXCEPT !.state = "orphan"]
          BY <1>2, <1>6, <5>2 DEF Call
        <5> QED
          BY <3>2, <5>3
      <4> QED
        BY <4>1
    <3>6. HoldingCalls(q)' \subseteq {x}
      <4>1. ASSUME NEW y \in HoldingCalls(q)', y \notin calls
            PROVE  y = x
        <5>1. y \in given /\ CallHolds(y, q)
          BY <1>4, <1>12, <4>1 DEF HoldingCalls, CallHolds
        <5>2. PICK d \in mine \ kept : /\ y = [d EXCEPT !.state = "orphan"] /\ d.state \in {"sent", "orphan"}
                                       /\ y.op = d.op /\ y.turn = d.turn /\ y.conf = d.conf /\ y.state = "orphan"
          BY <1>5, <5>1
        <5>3. d \in HoldingCalls(q)
          BY <1>6, <5>1, <5>2 DEF HoldingCalls, CallHolds, Asks
        <5> QED
          BY <3>2, <3>4, <5>2, <5>3
      <4>2. ASSUME NEW y \in HoldingCalls(q)', y \in calls
            PROVE  y = x
        <5>1. y \in HoldingCalls(q)
          BY <4>2 DEF HoldingCalls
        <5> QED
          BY <3>4, <3>5, <4>2, <5>1 DEF HoldingCalls
      <4> QED
        BY <4>1, <4>2
    <3>7. HoldingPages(q)' = {}
      BY <1>1, <1>2, <1>10, <3>4, AppHolding DEF Same4
    <3>8. Still(q) => Still(q)'
      BY <1>1, <1>2, <1>13, <2>1, AppStillness
    <3>9. q > asked' => q > asked
      BY <2>1
    <3> QED
      BY <2>1, <3>4, <3>6, <3>7, <3>8, <3>9, HandsOn
  <2> QED
    BY <2>2, <2>3
<1>15. RegenerationOK(p)'
  <2>1. Waiting(p, "regenerate")' = {}
    <3>1. \A x \in given \cup handed : x.state = "orphan"
      BY <1>4, <1>5
    <3>2. \A x \in kept : x.op # "regenerate"
      BY <1>6 DEF kinds
    <3>3. \A x \in calls \ mine : x.page # p
      BY <1>6
    <3> QED
      BY <1>1, <3>1, <3>2, <3>3 DEF Waiting
  <2> QED
    BY <2>1 DEF RegenerationOK
<1>16. \A x \in calls' \ calls : x.page = p /\ FormOK(x)
  <2>1. ASSUME NEW x \in given
        PROVE  x.page = p /\ FormOK(x)
    <3>1. PICK c \in mine \ kept : x.page = p /\ x.op = c.op /\ x.conf = c.conf /\ x.index = c.index
      BY <1>5, <2>1
    <3>2. FormOK(c) /\ c.page = p
      BY <1>6 DEF PagesCalm, ConfirmsOK
    <3> QED
      BY <3>1, <3>2 DEF FormOK, Asks
  <2> QED
    BY <1>4, <1>12, <2>1 DEF FormOK
<1>17. TurnsQuiet'
  BY <1>14 DEF TurnsQuiet
<1> QED
  BY <1>1, <1>15, <1>16, <1>17, AppDone

LEMMA AppStepCalm ==
    ASSUME PagesCalm, NEW p \in AppPages, AppStep(p), UNCHANGED alone
    PROVE  Calmly'
<1>1. CASE Mount(p) \/ Loaded(p) \/ LoadFails(p) \/ RetryLoad(p) \/ Send(p) \/ Created(p) \/ StreamText(p)
  BY <1>1, MountCalm, LoadedCalm, LoadFailsCalm, SendCalm, CreatedCalm, StreamTextCalm
<1>2. CASE StreamDone(p) \/ StreamConfirmation(p) \/ StreamError(p) \/ StreamBreak(p) \/ Stop(p)
  BY <1>2, StreamDoneCalm, StreamConfirmationCalm, StreamErrorCalm, StopCalm
<1>3. CASE Regenerate(p) \/ RegenerateBegins(p) \/ RegenerateRefused(p) \/ Saved(p) \/ SaveFails(p) \/ Synced(p)
  BY <1>3, RegenerateCalm, RegenerateBeginsCalm, RegenerateRefusedCalm, SavedCalm, SaveFailsCalm, LoadFailsCalm
<1>4. CASE Approve(p) \/ Reject(p) \/ ActionRan(p) \/ ActionFails(p) \/ Customize(p) \/ Customized(p) \/ Destroy(p) \/ CloseTab(p)
  BY <1>4, ApproveCalm, RejectCalm, ActionRanCalm, ActionFailsCalm, CustomizeCalm, LoadFailsCalm, LeaveCalm DEF Destroy, CloseTab
<1> QED
  BY <1>1, <1>2, <1>3, <1>4 DEF AppStep

-----------------------------------------------------------------------------
(* A step of a standalone page. *)
Same5 == UNCHANGED <<app, chats, ran, written, asked>>

LEMMA AloneHolding ==
    ASSUME PagesOK, NEW s \in StandalonePages, NEW next, Become(s, next), UNCHANGED app, NEW q
    PROVE  /\ HoldingPages(q)' = (HoldingPages(q) \ {s}) \cup (IF AloneHolds(next, q) THEN {s} ELSE {})
           /\ s \in HoldingPages(q) <=> AloneHolds(alone[s], q)
<1>1. alone' = [alone EXCEPT ![s] = next] /\ alone \in [StandalonePages -> StandalonePage] /\ s \notin AppPages
  BY PagesAssumption DEF Become, PagesOK, AloneOK
<1>2. alone'[s] = next /\ \A r \in StandalonePages : r # s => alone'[r] = alone[r]
  BY <1>1
<1>3. \A r : r \in HoldingPages(q) <=> (r \in AppPages /\ AppHolds(app[r], q)) \/ (r \in StandalonePages /\ AloneHolds(alone[r], q))
  BY DEF HoldingPages
<1>4. \A r : r \in HoldingPages(q)' <=> (r \in AppPages /\ AppHolds(app[r], q)) \/ (r \in StandalonePages /\ AloneHolds(alone'[r], q))
  BY DEF HoldingPages
<1> QED
  BY <1>1, <1>2, <1>3, <1>4

LEMMA AloneStillness ==
    ASSUME PagesOK, NEW q \in Turns, Still(q), NEW s \in StandalonePages, NEW next, Become(s, next),
           UNCHANGED <<app, chats, ran, written>>,
           \A call \in calls \ calls' : call.page = s,
           \A call \in calls' \ calls : CallStill(call, q),
           AloneStill(s, next, q, calls')
    PROVE  Still(q)'
<1>1. alone' = [alone EXCEPT ![s] = next] /\ alone \in [StandalonePages -> StandalonePage] /\ s \notin AppPages
  BY PagesAssumption DEF Become, PagesOK, AloneOK
<1>2. alone'[s] = next /\ \A r \in StandalonePages : r # s => alone'[r] = alone[r]
  BY <1>1
<1>3. ServerStill(q)'
  BY DEF Still, ServerStill
<1>4. CallsStill(q)'
  BY DEF Still, CallsStill
<1>5. ASSUME NEW r \in StandalonePages, r # s
      PROVE  AloneStill(r, alone'[r], q, calls')
  <2>1. AloneStill(r, alone[r], q, calls)
    BY DEF Still, PagesStill
  <2>2. AloneStill(r, alone[r], q, calls')
    BY <1>5, <2>1 DEF AloneStill
  <2> QED
    BY <1>2, <1>5, <2>2
<1>6. ASSUME NEW p \in AppPages
      PROVE  AppStill(p, app'[p], q, calls')
  <2>1. AppStill(p, app[p], q, calls) /\ s # p
    BY <1>1 DEF Still, PagesStill
  <2> QED
    BY <2>1 DEF AppStill
<1>7. PagesStill(q)'
  BY <1>2, <1>5, <1>6 DEF PagesStill
<1> QED
  BY <1>3, <1>4, <1>7 DEF Still

LEMMA AloneCalm ==
    ASSUME PagesOK, NEW q \in Turns, QuestionOK(q), NEW s \in StandalonePages, NEW next, Become(s, next), Same5,
           AloneHolds(next, q) => AloneHolds(alone[s], q),
           \A call \in calls \ calls' : call.page = s,
           \A call \in calls' \ calls : ~CallHolds(call, q),
           Still(q) => ((\A call \in calls' \ calls : CallStill(call, q)) /\ AloneStill(s, next, q, calls'))
    PROVE  QuestionOK(q)'
<1>1. HoldingCalls(q)' \subseteq HoldingCalls(q)
  BY DEF HoldingCalls
<1>2. HoldingPages(q)' \subseteq HoldingPages(q)
  BY AloneHolding DEF Same5
<1>3. Still(q) => Still(q)'
  BY AloneStillness DEF Same5
<1>4. q > asked' => q > asked
  BY DEF Same5
<1> QED
  BY <1>1, <1>2, <1>3, <1>4, NobodyNew

LEMMA AlonePanelsStay ==
    ASSUME NEW s, NEW page, NEW next, NEW q, NEW C, NEW D, AloneStill(s, page, q, C),
           \A i \in DOMAIN next.shown : Panel(next.shown[i], q) =>
              \E j \in DOMAIN page.shown : /\ Panel(page.shown[j], q)
                                           /\ next.shown[i].conf = "running" => page.shown[j].conf = "running",
           \A call \in C \ D : call.op \notin {"question", "answer"} \/ call.turn # q \/ call.conf # "open"
    PROVE  AloneStill(s, next, q, D)
BY DEF AloneStill

LEMMA AloneDone ==
    ASSUME PagesCalm, NEW s \in StandalonePages, UNCHANGED app, TurnsQuiet',
           \A call \in calls' \ calls : call.page = s /\ FormOK(call)
    PROVE  Calmly'
<1>1. s \notin AppPages
  BY PagesAssumption
<1>2. ASSUME NEW p \in AppPages
      PROVE  RegenerationOK(p)'
  <2>1. RegenerationOK(p)
    BY DEF PagesCalm, PagesQuiet
  <2> QED
    BY <1>1, <2>1 DEF RegenerationOK, Waiting
<1>3. PagesQuiet'
  BY <1>2 DEF PagesQuiet
<1>4. ConfirmsOK'
  BY DEF ConfirmsOK, PagesCalm
<1> QED
  BY <1>3, <1>4 DEF Calmly

LEMMA AloneEasy ==
    ASSUME PagesCalm, NEW s \in StandalonePages, NEW next, Become(s, next), Same5,
           \A q \in Turns : AloneHolds(next, q) => AloneHolds(alone[s], q),
           \A call \in calls \ calls' : call.page = s /\ call.op \notin {"question", "answer"},
           \A call \in calls' \ calls :
              call.page = s /\ call.got.msgs = <<>> /\ ~Asks(call) /\ call.op \notin {"turn", "confirm"},
           \A i \in DOMAIN next.shown :
              \/ next.shown[i].conf \notin {"open", "waiting", "running"}
              \/ \E j \in DOMAIN alone[s].shown : /\ next.shown[i].conf = alone[s].shown[j].conf
                                                  /\ next.shown[i].turn = alone[s].shown[j].turn
    PROVE  Calmly'
<1>1. ASSUME NEW q \in Turns
      PROVE  QuestionOK(q)'
  <2>1. QuestionOK(q) /\ PagesOK
    BY DEF PagesCalm, TurnsQuiet
  <2>2. \A call \in calls' \ calls : ~CallHolds(call, q)
    BY DEF CallHolds
  <2>3. ASSUME Still(q)
        PROVE  (\A call \in calls' \ calls : CallStill(call, q)) /\ AloneStill(s, next, q, calls')
    <3>1. ASSUME NEW call \in calls' \ calls
          PROVE  CallStill(call, q)
      <4>1. Blank(call) /\ Plain(call) /\ call.op \notin {"turn", "confirm"}
        BY DEF Blank, Plain
      <4> QED
        BY <2>3, <4>1, PlainCall
    <3>2. AloneStill(s, alone[s], q, calls)
      BY <2>3 DEF Still, PagesStill
    <3>3. AloneStill(s, next, q, calls')
      <4>1. \A i \in DOMAIN next.shown : Panel(next.shown[i], q) =>
              \E j \in DOMAIN alone[s].shown : /\ Panel(alone[s].shown[j], q)
                                               /\ next.shown[i].conf = "running" => alone[s].shown[j].conf = "running"
        BY DEF Panel
      <4> QED
        BY <3>2, <4>1, AlonePanelsStay
    <3> QED
      BY <3>1, <3>3
  <2> QED
    BY <2>1, <2>2, <2>3, AloneCalm
<1>2. TurnsQuiet'
  BY <1>1 DEF TurnsQuiet
<1> QED
  BY <1>2, AloneDone DEF FormOK, Same5

(* Lists and chats come and go: what is streamed goes on, or is for nobody. *)
Lists == {"list", "load", "create", "delete"}
Listing(s, x) == x.page = s /\ x.got.msgs = <<>> /\ ~Asks(x) /\ x.op \in Lists

LEMMA ListCalm ==
    ASSUME PagesCalm, NEW s \in StandalonePages, NEW next, Become(s, next), Same5,
           next.shown = <<>> \/ (next.shown = alone[s].shown /\ next.slot \in {0, alone[s].slot}),
           \A call \in calls \ calls' : call.page = s /\ call.op \in Lists,
           \A call \in calls' \ calls : Listing(s, call)
    PROVE  Calmly'
<1>1. next.shown = <<>> => DOMAIN next.shown = {}
  OBVIOUS
<1>2. \A q : AloneHolds(next, q) => AloneHolds(alone[s], q)
  <2>1. 0 \notin DOMAIN alone[s].shown
    BY AloneNow DEF PagesCalm
  <2> QED
    BY <1>1, <2>1 DEF AloneHolds, Slot
<1>3. \A i \in DOMAIN next.shown :
              \/ next.shown[i].conf \notin {"open", "waiting", "running"}
              \/ \E j \in DOMAIN alone[s].shown : /\ next.shown[i].conf = alone[s].shown[j].conf
                                                  /\ next.shown[i].turn = alone[s].shown[j].turn
  BY <1>1
<1>4. /\ \A call \in calls \ calls' : call.page = s /\ call.op \notin {"question", "answer"}
      /\ \A call \in calls' \ calls :
              call.page = s /\ call.got.msgs = <<>> /\ ~Asks(call) /\ call.op \notin {"turn", "confirm"}
  BY DEF Lists, Listing
<1> QED
  BY <1>2, <1>3, <1>4, AloneEasy

LEMMA ListRequests ==
    ASSUME NEW s
    PROVE  /\ \A c : /\ Listing(s, LoadOf(s, c)) /\ Listing(s, [LoadOf(s, c) EXCEPT !.next = TRUE])
                    /\ Listing(s, Request(s, "create", c)) /\ Listing(s, [Request(s, "create", c) EXCEPT !.next = TRUE])
                    /\ Listing(s, Request(s, "delete", c))
           /\ Listing(s, Refresh(s)) /\ Listing(s, ListAgain(s))
BY DEF Listing, LoadOf, Refresh, ListAgain, Request, Nothing, Asks, Lists

LEMMA ListingCalm ==
    ASSUME PagesCalm, NEW s \in StandalonePages,
           Open(s) \/ Listed(s) \/ ListFails(s) \/ Choose(s) \/ ChatLoadFails(s), UNCHANGED app
    PROVE  Calmly'
<1> DEFINE page == alone[s]
<1>1. page \in StandalonePage /\ Become(s, page) = (alone' = alone)
  <2>1. [alone EXCEPT ![s] = page] = alone
    BY DEF PagesCalm, PagesOK, AloneOK
  <2> QED
    BY <2>1, AloneNow DEF Become, PagesCalm
<1>2. Same5
  BY DEF Open, Listed, ListFails, Choose, ChatLoadFails, Same, Click, Same5
<1>3. CASE Open(s)
  <2> DEFINE next == [page EXCEPT !.phase = "idle", !.busy = TRUE]
  <2>1. next.shown = page.shown /\ next.slot = page.slot
    BY <1>1 DEF StandalonePage
  <2>2. Become(s, next)
    BY <1>3 DEF Open
  <2>3. calls \subseteq calls' /\ \A x \in calls' \ calls : x = Refresh(s)
    BY <1>3 DEF Open
  <2> HIDE DEF next
  <2> QED
    BY <1>2, <2>1, <2>2, <2>3, ListCalm, ListRequests
<1>4. CASE Listed(s)
  <2>1. PICK call \in calls :
          LET later == [page EXCEPT !.listed = call.got.listed, !.busy = IF call.next THEN FALSE ELSE @]
          IN  /\ call.page = s /\ call.op = "list"
              /\ \/ \E c : Become(s, [later EXCEPT !.chat = c]) /\ calls' = (calls \ {call}) \cup {LoadOf(s, c)}
                 \/ Become(s, later) /\ calls' = calls \ {call}
    BY <1>4 DEF Listed, Arrived, Waiting
  <2> DEFINE later == [page EXCEPT !.listed = call.got.listed, !.busy = IF call.next THEN FALSE ELSE @]
  <2>2. later.shown = page.shown /\ later.slot = page.slot
        /\ \A c : LET n == [later EXCEPT !.chat = c]
                  IN  n.shown = page.shown /\ n.slot = page.slot
    BY <1>1 DEF StandalonePage
  <2>3. \/ \E c : Become(s, [later EXCEPT !.chat = c]) /\ calls' = (calls \ {call}) \cup {LoadOf(s, c)}
        \/ Become(s, later) /\ calls' = calls \ {call}
    BY <2>1
  <2> HIDE DEF later
  <2>4. PICK next : /\ Become(s, next) /\ next.shown = page.shown /\ next.slot = page.slot
                    /\ \A x \in calls \ calls' : x = call
                    /\ \A x \in calls' \ calls : \E c : x = LoadOf(s, c)
    BY <2>2, <2>3
  <2>6. \A x \in calls \ calls' : x.page = s /\ x.op \in Lists
    BY <2>1, <2>4 DEF Lists
  <2>7. \A x \in calls' \ calls : Listing(s, x)
    <3>1. \A c : Listing(s, LoadOf(s, c))
      BY ListRequests
    <3> QED
      BY <2>4, <3>1
  <2> QED
    BY <1>2, <2>4, <2>6, <2>7, ListCalm
<1>5. CASE ListFails(s)
  <2>1. PICK call \in calls :
          /\ Become(s, [page EXCEPT !.busy = IF call.next THEN FALSE ELSE @]) /\ calls' = calls \ {call}
          /\ call.page = s /\ call.op = "list"
    BY <1>5 DEF ListFails, Arrived, Waiting
  <2> DEFINE next == [page EXCEPT !.busy = IF call.next THEN FALSE ELSE @]
  <2>2. next.shown = page.shown /\ next.slot = page.slot
    BY <1>1 DEF StandalonePage
  <2>3. Become(s, next)
    BY <2>1
  <2> HIDE DEF next
  <2> QED
    BY <1>2, <2>1, <2>2, <2>3, ListCalm DEF Lists
<1>6. CASE Choose(s)
  <2>1. PICK c : Become(s, [page EXCEPT !.chat = c]) /\ calls' = calls \cup {[LoadOf(s, c) EXCEPT !.next = TRUE]}
    BY <1>6 DEF Choose
  <2> DEFINE next == [page EXCEPT !.chat = c]
  <2>2. next.shown = page.shown /\ next.slot = page.slot
    BY <1>1 DEF StandalonePage
  <2>3. Become(s, next)
    BY <2>1
  <2>4. calls \subseteq calls' /\ \A x \in calls' \ calls : x = [LoadOf(s, c) EXCEPT !.next = TRUE]
    BY <2>1
  <2> HIDE DEF next
  <2>5. \A x \in calls' \ calls : Listing(s, x)
    <3>1. Listing(s, [LoadOf(s, c) EXCEPT !.next = TRUE])
      BY ListRequests
    <3> QED
      BY <2>4, <3>1
  <2> QED
    BY <1>2, <2>2, <2>3, <2>4, <2>5, ListCalm
<1>7. CASE ChatLoadFails(s)
  <2>1. PICK call \in calls : calls' = calls \ {call} /\ Become(s, page) /\ call.page = s /\ call.op = "load"
    BY <1>1, <1>7 DEF ChatLoadFails, Arrived, Waiting
  <2> QED
    BY <1>2, <2>1, ListCalm DEF Lists
<1> QED
  BY <1>3, <1>4, <1>5, <1>6, <1>7

LEMMA ListChangesCalm ==
    ASSUME PagesCalm, NEW s \in StandalonePages,
           NewChatClicked(s) \/ NewChatOpens(s) \/ NewChatFails(s) \/ DeleteChat(s) \/ Deleted(s) \/ DeleteFails(s),
           UNCHANGED app
    PROVE  Calmly'
<1> DEFINE page == alone[s]
<1>1. page \in StandalonePage /\ Become(s, page) = (alone' = alone)
  <2>1. [alone EXCEPT ![s] = page] = alone
    BY DEF PagesCalm, PagesOK, AloneOK
  <2> QED
    BY <2>1, AloneNow DEF Become, PagesCalm
<1>2. Same5
  BY DEF NewChatClicked, NewChatOpens, NewChatFails, DeleteChat, Deleted, DeleteFails, Same, Click, Same5
<1>3. /\ \A b \in BOOLEAN : LET n == [page EXCEPT !.busy = b]
                            IN  n.shown = page.shown /\ n.slot = page.slot
      /\ \A c : [page EXCEPT !.chat = c, !.shown = <<>>].shown = <<>>
      /\ [page EXCEPT !.chat = NoChat, !.shown = <<>>, !.busy = TRUE].shown = <<>>
  BY <1>1 DEF StandalonePage
<1>4. PICK next : /\ Become(s, next)
                  /\ \/ next.shown = <<>>
                     \/ next.shown = page.shown /\ next.slot = page.slot
  <2>1. \/ \E b \in BOOLEAN : Become(s, [page EXCEPT !.busy = b])
        \/ \E c : Become(s, [page EXCEPT !.chat = c, !.shown = <<>>])
        \/ Become(s, [page EXCEPT !.chat = NoChat, !.shown = <<>>, !.busy = TRUE])
        \/ Become(s, page)
    BY <1>1 DEF NewChatClicked, NewChatOpens, NewChatFails, DeleteChat, Deleted, DeleteFails
  <2> HIDE DEF page
  <2> QED
    BY <1>3, <2>1
<1>5. \A x \in calls \ calls' : x.page = s /\ x.op \in Lists
  BY DEF NewChatClicked, NewChatOpens, NewChatFails, DeleteChat, Deleted, DeleteFails, Arrived, Waiting, Lists
<1>6. \A x \in calls' \ calls : \/ x = Refresh(s) \/ x = [Request(s, "create", NoChat) EXCEPT !.next = TRUE]
                                \/ \E c : x = Request(s, "delete", c)
  <2>1. CASE NewChatClicked(s)
    BY <2>1 DEF NewChatClicked
  <2>2. CASE DeleteChat(s)
    BY <2>2 DEF DeleteChat
  <2>3. CASE NewChatOpens(s) \/ Deleted(s)
    <3>1. \E call : calls' = (calls \ {call}) \cup {Refresh(s)}
      BY <2>3 DEF NewChatOpens, Deleted
    <3> QED
      BY <3>1
  <2>4. CASE NewChatFails(s) \/ DeleteFails(s)
    <3>1. calls' \ calls = {}
      BY <2>4 DEF NewChatFails, DeleteFails
    <3> QED
      BY <3>1
  <2> QED
    BY <2>1, <2>2, <2>3, <2>4
<1>7. \A x \in calls' \ calls : Listing(s, x)
  <2>1. /\ \A c : Listing(s, Request(s, "delete", c))
        /\ Listing(s, Refresh(s))
    BY ListRequests
  <2>2. Listing(s, [Request(s, "create", NoChat) EXCEPT !.next = TRUE])
    BY ListRequests
  <2> QED
    BY <1>6, <2>1, <2>2
<1> QED
  BY <1>2, <1>4, <1>5, <1>7, ListCalm

LEMMA ChatLoadedCalm ==
    ASSUME PagesCalm, NEW s \in StandalonePages, ChatLoaded(s), UNCHANGED app
    PROVE  Calmly'
<1> DEFINE page == alone[s]
<1>1. PICK call \in calls :
        /\ call.op = "load" /\ call.page = s
        /\ Become(s, [page EXCEPT !.shown = Bubbles(call.got.msgs)])
        /\ calls' = (calls \ {call}) \cup (IF call.next THEN {ListAgain(s)} ELSE {})
  BY DEF ChatLoaded, Arrived, Waiting
<1> DEFINE next == [page EXCEPT !.shown = Bubbles(call.got.msgs)]
<1>2. page \in StandalonePage /\ call \in Call /\ PagesOK
  BY AloneNow, StateAlone DEF PagesCalm, PagesOK, ServerOK, CallsOK, CallOK
<1>3. next.shown = Bubbles(call.got.msgs)
  BY <1>2 DEF StandalonePage
<1>4. /\ DOMAIN next.shown = DOMAIN call.got.msgs
      /\ \A i \in DOMAIN call.got.msgs : next.shown[i] = Bubble(call.got.msgs[i])
  BY <1>3 DEF Bubbles
<1>5. Become(s, next)
  BY <1>1
<1>6. Same5
  BY DEF ChatLoaded, Same, Same5
<1> HIDE DEF next
<1>7. \A i \in DOMAIN next.shown : next.shown[i].done = TRUE
  <2>1. \A m : Bubble(m).done = TRUE
    BY DEF Bubble
  <2> QED
    BY <1>4, <2>1
<1>8. \A q : ~AloneHolds(next, q)
  BY <1>7 DEF AloneHolds, Slot
<1>9. \A x \in calls \ calls' : x = call
  BY <1>1
<1>10. \A x \in calls' \ calls : Listing(s, x)
  <2>1. Listing(s, ListAgain(s))
    BY ListRequests
  <2>2. \A x \in calls' \ calls : x = ListAgain(s)
    BY <1>1
  <2> QED
    BY <2>1, <2>2
<1>11. ASSUME NEW q \in Turns
       PROVE  QuestionOK(q)'
  <2>1. QuestionOK(q)
    BY DEF PagesCalm, TurnsQuiet
  <2>2. \A x \in calls' \ calls : ~CallHolds(x, q)
    BY <1>10 DEF CallHolds, Listing
  <2>3. ASSUME Still(q)
        PROVE  (\A x \in calls' \ calls : CallStill(x, q)) /\ AloneStill(s, next, q, calls')
    <3>1. CallStill(call, q)
      BY <2>3 DEF Still, CallsStill
    <3>2. \A i \in DOMAIN next.shown : ~Panel(next.shown[i], q)
      BY <1>2, <1>4, <3>1, BubblesStill
    <3>3. ASSUME NEW x \in calls' \ calls
          PROVE  CallStill(x, q)
      <4>1. Blank(x) /\ Plain(x) /\ x.op \notin {"turn", "confirm"}
        BY <1>10 DEF Listing, Lists, Blank, Plain
      <4> QED
        BY <2>3, <4>1, PlainCall
    <3> QED
      BY <3>2, <3>3 DEF AloneStill
  <2> QED
    BY <1>1, <1>2, <1>5, <1>6, <1>8, <1>9, <2>1, <2>2, <2>3, AloneCalm
<1>12. \A x \in calls' \ calls : x.page = s /\ FormOK(x)
  BY <1>10 DEF Listing, FormOK, Lists
<1> QED
  BY <1>11, <1>12, AloneDone DEF TurnsQuiet

LEMMA GoingOnCalm ==
    ASSUME PagesCalm, NEW s \in StandalonePages, ChatEnsured(s) \/ StopClicked(s) \/ Unheard(s), UNCHANGED app
    PROVE  Calmly'
<1> DEFINE page == alone[s]
<1>1. page \in StandalonePage
  BY AloneNow DEF PagesCalm
<1>2. Same5
  BY DEF ChatEnsured, StopClicked, Unheard, Same, Same5
<1>3. CASE ChatEnsured(s)
  <2>1. PICK call \in calls :
          /\ call.page = s /\ call.op = "create"
          /\ Become(s, [page EXCEPT !.phase = "streaming", !.chat = IF call.state = "ok" THEN call.got.chat ELSE @])
          /\ calls' = calls \ {call}
    BY <1>3 DEF ChatEnsured, Waiting
  <2> DEFINE next == [page EXCEPT !.phase = "streaming", !.chat = IF call.state = "ok" THEN call.got.chat ELSE @]
  <2>2. next.shown = page.shown /\ next.slot = page.slot
    BY <1>1 DEF StandalonePage
  <2>3. Become(s, next)
    BY <2>1
  <2> HIDE DEF next
  <2>4. \A x \in calls \ calls' : x.page = s /\ x.op \in Lists
    BY <2>1 DEF Lists
  <2>5. calls' \ calls = {}
    BY <2>1
  <2> QED
    BY <1>2, <2>2, <2>3, <2>4, <2>5, ListCalm
<1>4. CASE StopClicked(s)
  <2> DEFINE next == [page EXCEPT !.stopped = TRUE]
  <2>1. next.shown = page.shown /\ next.slot = page.slot
    BY <1>1 DEF StandalonePage
  <2>2. Become(s, next) /\ calls' = calls
    BY <1>4 DEF StopClicked
  <2> HIDE DEF next
  <2> QED
    BY <1>2, <2>1, <2>2, ListCalm
<1>5. CASE Unheard(s)
  <2> DEFINE next == [page EXCEPT !.phase = "idle", !.slot = 0, !.stopped = FALSE]
  <2>1. next.shown = page.shown /\ next.slot = 0
    BY <1>1 DEF StandalonePage
  <2>2. Become(s, next) /\ calls' = calls
    BY <1>5 DEF Unheard
  <2> HIDE DEF next
  <2> QED
    BY <1>2, <2>1, <2>2, ListCalm
<1> QED
  BY <1>3, <1>4, <1>5

LEMMA QuestionCalm ==
    ASSUME PagesCalm, NEW s \in StandalonePages, SendQuestion(s), UNCHANGED app
    PROVE  Calmly'
<1> DEFINE page == alone[s]
           n == asked + 1
           two == <<Asking(n), Answering(n)>>
           shown == page.shown \o two
           phase == IF page.chat = NoChat THEN "creating" ELSE "streaming"
           next == [page EXCEPT !.shown = shown, !.slot = Len(shown), !.stopped = FALSE, !.phase = phase]
<1>1. /\ page \in StandalonePage /\ n \in Turns /\ page.phase = "idle" /\ asked \in Nat /\ asked' = n
      /\ page.shown \in Seq(Shown) /\ DOMAIN page.shown = 1..Len(page.shown) /\ Len(page.shown) \in Nat
      /\ UNCHANGED <<app, chats, ran, written>> /\ PagesOK
  <2>1. asked \in 0..MaxTurns /\ asked < MaxTurns /\ MaxTurns \in Nat
    BY AloneNow, ChatAssumption DEF PagesCalm, SendQuestion
  <2>2. asked \in Nat /\ n \in Turns
    BY <2>1 DEF Turns
  <2> QED
    BY <2>2, AloneNow DEF SendQuestion, PagesCalm
<1>2. two \in Seq(Shown) /\ Len(two) = 2 /\ two[1] = Asking(n) /\ two[2] = Answering(n)
  BY <1>1, BubblesTyped
<1>3. /\ \A i \in DOMAIN shown : \/ \E j \in DOMAIN page.shown : shown[i] = page.shown[j]
                                 \/ shown[i] = Asking(n) \/ shown[i] = Answering(n)
      /\ shown[Len(shown)] = Answering(n)
  <2> HIDE DEF two
  <2>1. /\ shown \in Seq(Shown) /\ Len(shown) = Len(page.shown) + 2
        /\ \A i \in 1..Len(page.shown) + 2 :
              shown[i] = IF i <= Len(page.shown) THEN page.shown[i] ELSE two[i - Len(page.shown)]
    <3>1. page.shown \in Seq(Shown) /\ two \in Seq(Shown) /\ Len(two) = 2 /\ Len(page.shown) \in Nat
      BY <1>1, <1>2
    <3>2. /\ page.shown \o two \in Seq(Shown) /\ Len(page.shown \o two) = Len(page.shown) + 2
          /\ \A i \in 1..Len(page.shown) + 2 :
                (page.shown \o two)[i] = IF i <= Len(page.shown) THEN page.shown[i] ELSE two[i - Len(page.shown)]
      BY <3>1, ConcatProperties DEF two
    <3> QED
      BY <3>2
  <2> HIDE DEF shown
  <2>2. DOMAIN shown = 1..Len(page.shown) + 2
    BY <1>1, <2>1, LenProperties
  <2>3. ASSUME NEW i \in 1..Len(page.shown) + 2
        PROVE  i <= Len(page.shown) \/ i - Len(page.shown) = 1 \/ i - Len(page.shown) = 2
    BY <1>1
  <2>4. /\ Len(page.shown) + 2 \in 1..Len(page.shown) + 2 /\ ~(Len(page.shown) + 2 <= Len(page.shown))
        /\ Len(page.shown) + 2 - Len(page.shown) = 2
    BY <1>1
  <2>5. shown[Len(shown)] = Answering(n)
    BY <1>2, <2>1, <2>4
  <2> QED
    BY <1>1, <1>2, <2>1, <2>2, <2>3, <2>5
<1>4. Asking(n).conf = "none" /\ Answering(n).conf = "none" /\ Answering(n).turn = n
  BY DEF Asking, Answering, Bubble, Question, Answer
<1>5. next.shown = shown /\ next.slot = Len(shown)
  <2> HIDE DEF shown, phase
  <2> QED
    BY <1>1 DEF StandalonePage
<1>6. Become(s, next)
  BY DEF SendQuestion
<1>7. \A call \in calls' \ calls : Listing(s, call)
  <2>1. Listing(s, Request(s, "create", NoChat))
    BY ListRequests
  <2>2. \A call \in calls' \ calls : call = Request(s, "create", NoChat)
    BY DEF SendQuestion
  <2> QED
    BY <2>1, <2>2
<1>8. calls \subseteq calls'
  BY DEF SendQuestion
<1> HIDE DEF next, shown, n
<1>10. ASSUME NEW q \in Turns
       PROVE  QuestionOK(q)'
  <2>1. QuestionOK(q) /\ q \in Nat
    BY DEF PagesCalm, TurnsQuiet, Turns
  <2>2. \A call \in calls' \ calls : ~CallHolds(call, q)
    BY <1>7 DEF CallHolds, Listing
  <2>3. HoldingCalls(q)' \subseteq HoldingCalls(q)
    BY <2>2 DEF HoldingCalls
  <2>4. ASSUME Still(q)
        PROVE  Still(q)'
    <3>1. \A call \in calls' \ calls : CallStill(call, q)
      <4>1. \A call \in calls' \ calls : Blank(call) /\ Plain(call) /\ call.op \notin {"turn", "confirm"}
        BY <1>7 DEF Blank, Plain, Listing, Lists
      <4> QED
        BY <2>4, <4>1, PlainCall
    <3>2. AloneStill(s, page, q, calls)
      BY <2>4 DEF Still, PagesStill
    <3>3. \A i \in DOMAIN next.shown : Panel(next.shown[i], q) =>
              \E j \in DOMAIN page.shown : /\ Panel(page.shown[j], q)
                                           /\ next.shown[i].conf = "running" => page.shown[j].conf = "running"
      BY <1>3, <1>4, <1>5 DEF Panel
    <3>4. AloneStill(s, next, q, calls')
      BY <1>8, <3>2, <3>3, AlonePanelsStay
    <3>5. \A call \in calls \ calls' : call.page = s
      BY <1>8
    <3> QED
      BY <1>1, <1>6, <2>4, <3>1, <3>4, <3>5, AloneStillness
  <2>5. HoldingPages(q)' = (HoldingPages(q) \ {s}) \cup (IF AloneHolds(next, q) THEN {s} ELSE {})
    BY <1>1, <1>6, AloneHolding
  <2>6. AloneHolds(next, q) => q = n
    BY <1>3, <1>4, <1>5 DEF AloneHolds, Slot
  <2>7. CASE q = n
    <3>1. q > asked /\ ~(q > asked')
      BY <1>1, <2>1, <2>7 DEF n
    <3>2. HoldingPages(q) = {} /\ HoldingCalls(q) = {}
      BY <2>1, <3>1 DEF QuestionOK, Held
    <3> QED
      BY <2>1, <2>3, <2>4, <2>5, <3>1, <3>2, TakesUp
  <2>8. CASE q # n
    <3>1. q > asked' => q > asked
      BY <1>1, <2>1 DEF n
    <3> QED
      BY <2>1, <2>3, <2>4, <2>5, <2>6, <2>8, <3>1, NobodyNew
  <2> QED
    BY <2>7, <2>8
<1>11. \A x \in calls' \ calls : x.page = s /\ FormOK(x)
  BY <1>7 DEF Listing, FormOK, Lists
<1> QED
  BY <1>10, <1>11, AloneDone DEF TurnsQuiet

(* The bubble of a stream changes; the others stay as they are. *)
LEMMA TextCalm ==
    ASSUME PagesCalm, NEW s \in StandalonePages, Text(s), UNCHANGED app
    PROVE  Calmly'
<1> DEFINE page == alone[s]
           m == [Slot(page) EXCEPT !.text = TRUE]
           t == [page.shown EXCEPT ![page.slot] = m]
           next == [page EXCEPT !.shown[page.slot].text = TRUE]
<1>1. page \in StandalonePage /\ page.slot \in DOMAIN page.shown /\ Slot(page) \in Shown
  BY AloneNow DEF Text, Hears, Slot, PagesCalm
<1>2. m.turn = Slot(page).turn /\ m.conf = Slot(page).conf /\ m.done = Slot(page).done
  BY <1>1 DEF Shown
<1>3. next.shown = t /\ next.slot = page.slot
  BY <1>1 DEF Slot, StandalonePage
<1>4. Become(s, next) /\ calls' = calls /\ Same5
  BY DEF Text, Same, Same5
<1> HIDE DEF m, next
<1>5. DOMAIN t = DOMAIN page.shown /\ t[page.slot] = m /\ \A i \in DOMAIN page.shown : i # page.slot => t[i] = page.shown[i]
  BY <1>1
<1> HIDE DEF t
<1>6. \A q : AloneHolds(next, q) => AloneHolds(page, q)
  BY <1>2, <1>3, <1>5 DEF AloneHolds, Slot
<1>7. \A i \in DOMAIN next.shown : \E j \in DOMAIN page.shown :
          next.shown[i].conf = page.shown[j].conf /\ next.shown[i].turn = page.shown[j].turn
  BY <1>1, <1>2, <1>3, <1>5 DEF Slot
<1> QED
  BY <1>4, <1>6, <1>7, AloneEasy

(* The holder lets go. *)
LEMMA LetsGo ==
    ASSUME NEW q \in Turns, QuestionOK(q), Held(q), q > asked' => q > asked,
           HoldingPages(q)' = {}, HoldingCalls(q)' = {}
    PROVE  QuestionOK(q)'
<1>1. ~(q > asked)
  BY DEF QuestionOK
<1>2. OneHolder(q)' /\ ~Held(q)'
  BY DEF OneHolder, Held
<1> QED
  BY <1>1, <1>2 DEF QuestionOK

(* The requests of a standalone page. *)
LEMMA QuestionRequest ==
    ASSUME NEW s, NEW q, NEW k, NEW b, NEW i, NEW x \in SaveQuestion(s, q, k, b, i)
    PROVE  x.page = s /\ x.op = "question" /\ x.turn = q /\ x.conf = k /\ x.state = "sent" /\ x.got.msgs = <<>>
<1>1. x = [QuestionOf(s, alone[s].chat, q) EXCEPT !.conf = k, !.next = b, !.index = i]
  BY DEF SaveQuestion
<1> QED
  BY <1>1 DEF QuestionOf, Request, Nothing

LEMMA AnswerRequest ==
    ASSUME NEW s, NEW q, NEW k, NEW i, NEW x \in SaveAnswer(s, q, k, i)
    PROVE  x.page = s /\ x.op = "answer" /\ x.turn = q /\ x.conf = k /\ x.state = "sent" /\ x.got.msgs = <<>>
<1>1. x = [AnswerOf(s, alone[s].chat, q, k, 0) EXCEPT !.index = i]
  BY DEF SaveAnswer
<1> QED
  BY <1>1 DEF AnswerOf, Request, Nothing

LEMMA ApprovalRequest ==
    ASSUME NEW s, NEW q, NEW c, NEW x, x = ConfirmOf(s, c, q, TRUE, 0)
    PROVE  x.page = s /\ x.op = "confirm" /\ x.turn = q /\ x.conf = "none" /\ x.index = 1 /\ x.got.msgs = <<>>
BY DEF ConfirmOf, Request, Nothing

LEMMA OverFields ==
    ASSUME NEW page \in StandalonePage, page.slot \in DOMAIN page.shown, Slot(page) \in Shown, NEW text \in BOOLEAN,
           NEW k \in {"none", "open"}
    PROVE  LET next == Over(page, text, k)
           IN  /\ DOMAIN next.shown = DOMAIN page.shown /\ \A q : ~AloneHolds(next, q)
               /\ next.shown[page.slot].turn = Slot(page).turn /\ next.shown[page.slot].conf = k
               /\ \A i \in DOMAIN page.shown : i # page.slot => next.shown[i] = page.shown[i]
<1> DEFINE m == [Slot(page) EXCEPT !.text = text, !.done = TRUE, !.conf = k]
           t == [page.shown EXCEPT ![page.slot] = m]
           next == Over(page, text, k)
<1>1. m.turn = Slot(page).turn /\ m.conf = k
  BY DEF Shown
<1>2. next = [page EXCEPT !.phase = "idle", !.slot = 0, !.stopped = FALSE, !.shown = t]
  <2>1. /\ page.shown \in Seq(Shown) /\ Slot(page) = page.shown[page.slot]
        /\ page = [phase |-> page.phase, chat |-> page.chat, shown |-> page.shown, slot |-> page.slot,
                   stopped |-> page.stopped, listed |-> page.listed, busy |-> page.busy]
    BY DEF Slot, StandalonePage
  <2> QED
    BY ZenonT(60), <2>1 DEF Over
<1> HIDE DEF m
<1>3. DOMAIN t = DOMAIN page.shown /\ t[page.slot] = m /\ \A i \in DOMAIN page.shown : i # page.slot => t[i] = page.shown[i]
  OBVIOUS
<1> HIDE DEF t, next
<1>4. next.shown = t /\ next.slot = 0
  BY <1>2 DEF StandalonePage
<1>5. 0 \notin DOMAIN next.shown
  <2>1. page.shown \in Seq(Shown)
    BY DEF StandalonePage
  <2> QED
    BY <1>3, <1>4, <2>1, LenProperties
<1>6. \A q : ~AloneHolds(next, q)
  BY <1>4, <1>5 DEF AloneHolds
<1>7. /\ DOMAIN next.shown = DOMAIN page.shown /\ \A q : ~AloneHolds(next, q)
      /\ next.shown[page.slot].turn = Slot(page).turn /\ next.shown[page.slot].conf = k
      /\ \A i \in DOMAIN page.shown : i # page.slot => next.shown[i] = page.shown[i]
  BY <1>1, <1>3, <1>4, <1>6
<1> QED
  BY <1>7 DEF next

LEMMA StreamOverCalm ==
    ASSUME PagesCalm, NEW s \in StandalonePages, NEW text \in BOOLEAN,
           alone[s].slot \in DOMAIN alone[s].shown, Become(s, Over(alone[s], text, "none")), Same5,
           \/ calls' = calls
           \/ \E b, i : calls' = calls \cup SaveQuestion(s, Slot(alone[s]).turn, "none", b, i)
    PROVE  Calmly'
<1> DEFINE page == alone[s]
           next == Over(page, text, "none")
<1>1. page \in StandalonePage /\ Slot(page) \in Shown /\ DOMAIN page.shown = 1..Len(page.shown)
  BY AloneNow DEF Slot, PagesCalm
<1>2. /\ DOMAIN next.shown = DOMAIN page.shown /\ \A q : ~AloneHolds(next, q)
      /\ next.shown[page.slot].conf = "none"
      /\ \A i \in DOMAIN page.shown : i # page.slot => next.shown[i] = page.shown[i]
  BY <1>1, OverFields
<1>3. Become(s, next)
  OBVIOUS
<1> HIDE DEF next
<1>4. \A x \in calls' \ calls : x.page = s /\ x.got.msgs = <<>> /\ ~Asks(x) /\ x.op \notin {"turn", "confirm"}
  <2> DEFINE n == Slot(alone[s]).turn
  <2>1. \A x \in calls' \ calls : \E b, i : x \in SaveQuestion(s, n, "none", b, i)
    OBVIOUS
  <2>2. \A b, i : \A x \in SaveQuestion(s, n, "none", b, i) :
           x.page = s /\ x.op = "question" /\ x.conf = "none" /\ x.got.msgs = <<>>
    <3> HIDE DEF n
    <3> QED
      BY QuestionRequest
  <2> HIDE DEF n
  <2> QED
    BY <2>1, <2>2 DEF Asks
<1>5. calls \subseteq calls'
  OBVIOUS
<1>6. \A i \in DOMAIN next.shown :
              \/ next.shown[i].conf \notin {"open", "waiting", "running"}
              \/ \E j \in DOMAIN page.shown : /\ next.shown[i].conf = page.shown[j].conf
                                              /\ next.shown[i].turn = page.shown[j].turn
  BY <1>2
<1> QED
  BY <1>2, <1>3, <1>4, <1>5, <1>6, AloneEasy

(* The stream ends with a confirmation: the request that stores the question  *)
(* takes over, unless there is no chat to store it in.                        *)
LEMMA StreamAsksCalm ==
    ASSUME PagesCalm, NEW s \in StandalonePages, Hears(alone[s]), Become(s, Over(alone[s], TRUE, "open")), Same5,
           NEW b, NEW j, calls' = calls \cup SaveQuestion(s, Slot(alone[s]).turn, "open", b, j)
    PROVE  Calmly'
<1> DEFINE page == alone[s]
           next == Over(page, TRUE, "open")
           n == Slot(page).turn
           new == SaveQuestion(s, n, "open", b, j)
<1>1. /\ page \in StandalonePage /\ Slot(page) \in Shown /\ DOMAIN page.shown = 1..Len(page.shown)
      /\ page.slot \in DOMAIN page.shown /\ ~Slot(page).done /\ PagesOK
  BY AloneNow DEF Slot, PagesCalm, Hears
<1>2. /\ DOMAIN next.shown = DOMAIN page.shown /\ \A q : ~AloneHolds(next, q)
      /\ next.shown[page.slot].conf = "open" /\ next.shown[page.slot].turn = n
      /\ \A i \in DOMAIN page.shown : i # page.slot => next.shown[i] = page.shown[i]
  BY <1>1, OverFields
<1>3. Become(s, next) /\ calls' = calls \cup new
  OBVIOUS
<1>4. \A x \in new : /\ x.page = s /\ x.op = "question" /\ x.turn = n /\ x.conf = "open" /\ x.state = "sent"
                     /\ x.got.msgs = <<>>
  <2> HIDE DEF n
  <2> QED
    BY QuestionRequest
<1>5. AloneHolds(page, n)
  BY <1>1 DEF AloneHolds
<1>6. \E k : new \subseteq {k}
  BY DEF SaveQuestion
<1> HIDE DEF next, new, n
<1>7. calls \subseteq calls' /\ \A x \in calls' \ calls : x \in new
  BY <1>3
<1>8. ASSUME NEW x \in new
      PROVE  Asks(x) /\ FormOK(x) /\ \A q \in Turns : CallStill(x, q)
  <2>1. DOMAIN x.got.msgs = {}
    BY <1>4
  <2> QED
    BY <1>4, <2>1 DEF Asks, FormOK, CallStill
<1>9. ASSUME NEW q \in Turns, Still(q), n # q \/ new # {}
      PROVE  AloneStill(s, next, q, calls')
  <2>1. AloneStill(s, page, q, calls)
    BY <1>9 DEF Still, PagesStill
  <2>2. ASSUME NEW i \in DOMAIN next.shown, Panel(next.shown[i], q), i # page.slot
        PROVE  /\ next.shown[i].conf # "running"
               /\ \E call \in calls' : /\ call.page = s /\ call.op \in {"question", "answer"} /\ call.turn = q
                                       /\ call.conf = "open" /\ call.state # "orphan"
    BY <1>2, <1>7, <2>1, <2>2 DEF AloneStill
  <2>3. Panel(next.shown[page.slot], q) =>
               /\ next.shown[page.slot].conf # "running"
               /\ \E call \in calls' : /\ call.page = s /\ call.op \in {"question", "answer"} /\ call.turn = q
                                       /\ call.conf = "open" /\ call.state # "orphan"
    BY <1>2, <1>3, <1>4, <1>9 DEF Panel
  <2> QED
    BY <2>2, <2>3 DEF AloneStill
<1>10. ASSUME NEW q \in Turns
       PROVE  QuestionOK(q)'
  <2>1. QuestionOK(q) /\ (q > asked' => q > asked)
    BY DEF PagesCalm, TurnsQuiet, Same5
  <2>2. CASE q # n
    <3>1. \A x \in calls' \ calls : ~CallHolds(x, q) /\ CallStill(x, q)
      BY <1>4, <1>7, <1>8, <2>2 DEF CallHolds
    <3> QED
      BY <1>1, <1>2, <1>3, <1>7, <1>9, <2>1, <2>2, <3>1, AloneCalm
  <2>3. CASE q = n
    <3>1. s \in HoldingPages(q) /\ HoldingPages(q)' = HoldingPages(q) \ {s}
      BY <1>1, <1>2, <1>3, <1>5, <2>3, AloneHolding DEF Same5
    <3>2. HoldingPages(q)' = {} /\ HoldingCalls(q) = {} /\ Held(q)
      BY <2>1, <3>1 DEF QuestionOK, OneHolder, Held
    <3>3. HoldingCalls(q)' \subseteq new
      BY <1>7, <3>2 DEF HoldingCalls
    <3>4. CASE new = {}
      BY <2>1, <3>2, <3>3, <3>4, LetsGo
    <3>5. CASE new # {}
      <4>1. Still(q) => Still(q)'
        BY <1>1, <1>3, <1>7, <1>8, <1>9, <3>5, AloneStillness DEF Same5
      <4> QED
        BY <1>6, <2>1, <3>2, <3>3, <4>1, HandsOn
    <3> QED
      BY <3>4, <3>5
  <2> QED
    BY <2>2, <2>3
<1>11. \A x \in calls' \ calls : x.page = s /\ FormOK(x)
  BY <1>4, <1>7, <1>8
<1> QED
  BY <1>10, <1>11, AloneDone DEF TurnsQuiet, Same5

LEMMA StreamCalm ==
    ASSUME PagesCalm, NEW s \in StandalonePages, Text(s) \/ Terminal(s) \/ Broken(s), UNCHANGED app
    PROVE  Calmly'
<1> DEFINE page == alone[s]
<1>1. Same5 /\ Hears(page) /\ page.slot \in DOMAIN page.shown
  BY DEF Text, Terminal, Broken, Same, Same5, Hears
<1>2. CASE Terminal(s)
  <2>1. \/ /\ Become(s, Over(page, TRUE, "none"))
           /\ \E b, i : calls' = calls \cup SaveQuestion(s, Slot(page).turn, "none", b, i)
        \/ /\ Become(s, Over(page, TRUE, "open"))
           /\ \E b, j : calls' = calls \cup SaveQuestion(s, Slot(page).turn, "open", b, j)
    BY <1>2 DEF Terminal
  <2> QED
    BY <1>1, <2>1, StreamOverCalm, StreamAsksCalm
<1>3. CASE Broken(s)
  <2> DEFINE text == Slot(page).text \/ ~page.stopped
  <2>1. text \in BOOLEAN /\ Become(s, Over(page, text, "none"))
    BY <1>3 DEF Broken
  <2>2. \/ calls' = calls
        \/ \E b, i : calls' = calls \cup SaveQuestion(s, Slot(page).turn, "none", b, i)
    BY <1>3 DEF Broken
  <2> HIDE DEF text
  <2> QED
    BY <1>1, <2>1, <2>2, StreamOverCalm
<1> QED
  BY <1>2, <1>3, TextCalm

(* A write is over, and a panel that waits for it goes on. *)
LEMMA GoingFields ==
    ASSUME NEW page, NEW n
    PROVE  LET next == Going(page, n)
           IN  /\ DOMAIN next.shown = DOMAIN page.shown /\ next.slot = page.slot
               /\ \A i \in DOMAIN page.shown : page.shown[i].turn # n => next.shown[i] = page.shown[i]
               /\ \A i \in DOMAIN page.shown : /\ next.shown[i].turn = page.shown[i].turn
                                               /\ next.shown[i].done = page.shown[i].done
BY DEF Going

LEMMA WriteOverCalm ==
    ASSUME PagesCalm, NEW s \in StandalonePages, Same5, NEW call \in calls,
           call.page = s, call.op \in {"question", "answer"},
           call.conf = "open" => \/ call.op = "question" /\ call.state = "ok"
                                 \/ ~CallStill(call, call.turn),
           \/ /\ call.conf = "open" /\ Become(s, Going(alone[s], call.turn))
              /\ calls' = (calls \ {call}) \cup Approval(s, call.turn)
           \/ /\ call.conf # "open" /\ UNCHANGED alone
              /\ calls' = (calls \ {call}) \cup ThenList(s, call)
    PROVE  Calmly'
<1> DEFINE page == alone[s]
           n == call.turn
<1>1. PagesOK /\ page \in StandalonePage /\ DOMAIN page.shown = 1..Len(page.shown) /\ Become(s, page) = (alone' = alone)
  <2>1. [alone EXCEPT ![s] = page] = alone
    BY DEF PagesCalm, PagesOK, AloneOK
  <2> QED
    BY <2>1, AloneNow DEF Become, PagesCalm
<1>2. CASE call.conf # "open"
  <2>1. \A x \in calls' \ calls : Listing(s, x)
    <3>1. Listing(s, ListAgain(s))
      BY ListRequests
    <3> QED
      BY <1>2, <3>1 DEF ThenList
  <2>2. Become(s, page) /\ \A x \in calls \ calls' : x = call
    BY <1>1, <1>2
  <2>3. ASSUME NEW q \in Turns
        PROVE  QuestionOK(q)'
    <3>1. QuestionOK(q)
      BY DEF PagesCalm, TurnsQuiet
    <3>2. \A x \in calls' \ calls : ~CallHolds(x, q)
      BY <2>1 DEF CallHolds, Listing
    <3>3. ASSUME Still(q)
          PROVE  (\A x \in calls' \ calls : CallStill(x, q)) /\ AloneStill(s, page, q, calls')
      <4>1. \A x \in calls' \ calls : Blank(x) /\ Plain(x) /\ x.op \notin {"turn", "confirm"}
        BY <2>1 DEF Listing, Lists, Blank, Plain
      <4>2. \A x \in calls' \ calls : CallStill(x, q)
        BY <3>3, <4>1, PlainCall
      <4>3. AloneStill(s, page, q, calls)
        BY <3>3 DEF Still, PagesStill
      <4>4. AloneStill(s, page, q, calls')
        BY <1>2, <2>2, <4>3, AlonePanelsStay
      <4> QED
        BY <4>2, <4>4
    <3> QED
      BY <1>1, <2>2, <3>1, <3>2, <3>3, AloneCalm
  <2>4. \A x \in calls' \ calls : x.page = s /\ FormOK(x)
    BY <2>1 DEF Listing, FormOK, Lists
  <2> QED
    BY <2>3, <2>4, AloneDone DEF TurnsQuiet, Same5
<1>3. CASE call.conf = "open"
  <2> DEFINE next == Going(page, n)
  <2>1. Become(s, next) /\ calls' = (calls \ {call}) \cup Approval(s, n)
    BY <1>3
  <2>2. /\ DOMAIN next.shown = DOMAIN page.shown /\ next.slot = page.slot
        /\ \A i \in DOMAIN page.shown : page.shown[i].turn # n => next.shown[i] = page.shown[i]
        /\ \A i \in DOMAIN page.shown : /\ next.shown[i].turn = page.shown[i].turn
                                        /\ next.shown[i].done = page.shown[i].done
    BY GoingFields
  <2> HIDE DEF next
  <2>3. \A q : AloneHolds(next, q) => AloneHolds(page, q)
    BY <2>2 DEF AloneHolds, Slot
  <2>4. ASSUME NEW x \in Approval(s, n)
        PROVE  x.page = s /\ x.op = "confirm" /\ x.turn = n /\ x.conf = "none" /\ x.index = 1 /\ x.got.msgs = <<>>
    <3>1. x = ConfirmOf(s, page.chat, n, TRUE, 0)
      BY DEF Approval
    <3> QED
      BY <3>1 DEF ConfirmOf, Request, Nothing
  <2>5. /\ \A x \in calls \ calls' : x = call
        /\ \A x \in calls' \ calls : x \in Approval(s, n)
    BY <2>1
  <2>6. \A x \in Approval(s, n) : \A q : ~CallHolds(x, q)
    BY <2>4 DEF CallHolds
  <2>7. ASSUME NEW q \in Turns
        PROVE  QuestionOK(q)'
    <3>1. QuestionOK(q) /\ (q > asked' => q > asked)
      BY DEF PagesCalm, TurnsQuiet, Same5
    <3>2. CASE q # n
      <4>1. ASSUME Still(q)
            PROVE  (\A x \in calls' \ calls : CallStill(x, q)) /\ AloneStill(s, next, q, calls')
        <5>1. \A x \in calls' \ calls : Blank(x) /\ x.turn # q
          BY <2>4, <2>5, <3>2 DEF Blank
        <5>2. \A x \in calls' \ calls : CallStill(x, q)
          BY <4>1, <5>1, PlainCall
        <5>3. AloneStill(s, page, q, calls)
          BY <4>1 DEF Still, PagesStill
        <5>4. \A i \in DOMAIN next.shown : Panel(next.shown[i], q) =>
                \E j \in DOMAIN page.shown : /\ Panel(page.shown[j], q)
                                             /\ next.shown[i].conf = "running" => page.shown[j].conf = "running"
          BY <2>2, <3>2 DEF Panel
        <5>5. AloneStill(s, next, q, calls')
          BY <2>5, <3>2, <5>3, <5>4, AlonePanelsStay
        <5> QED
          BY <5>2, <5>5
      <4> QED
        BY <1>1, <2>1, <2>3, <2>5, <2>6, <3>1, <4>1, AloneCalm
    <3>3. CASE q = n /\ ~CallStill(call, n)
      <4>1. ~Still(q)
        BY <3>3 DEF Still, CallsStill
      <4> QED
        BY <1>1, <2>1, <2>3, <2>5, <2>6, <3>1, <4>1, AloneCalm
    <3>4. CASE q = n /\ call.op = "question" /\ call.state = "ok"
      <4>1. CallHolds(call, q)
        BY <1>3, <3>4 DEF CallHolds, Asks
      <4>2. HoldingCalls(q) \subseteq {call} /\ HoldingPages(q) = {} /\ Held(q)
        BY <3>1, <4>1 DEF QuestionOK, OneHolder, Held, HoldingCalls
      <4>3. /\ HoldingPages(q)' = (HoldingPages(q) \ {s}) \cup (IF AloneHolds(next, q) THEN {s} ELSE {})
            /\ s \in HoldingPages(q) <=> AloneHolds(page, q)
        BY <1>1, <2>1, AloneHolding DEF Same5
      <4>4. HoldingPages(q)' = {}
        BY <2>3, <4>2, <4>3
      <4>5. HoldingCalls(q)' = {}
        BY <2>1, <2>6, <4>2 DEF HoldingCalls
      <4> QED
        BY <3>1, <4>2, <4>4, <4>5, LetsGo
    <3> QED
      BY <1>3, <3>2, <3>3, <3>4
  <2>8. \A x \in calls' \ calls : x.page = s /\ FormOK(x)
    BY <2>4, <2>5 DEF FormOK
  <2> QED
    BY <2>7, <2>8, AloneDone DEF TurnsQuiet, Same5
<1> QED
  BY <1>2, <1>3

(* The question is stored: the answer takes its place. *)
LEMMA QuestionStoredCalm ==
    ASSUME PagesCalm, NEW s \in StandalonePages, Same5, NEW call \in calls,
           call.page = s, call.op = "question", call.state = "ok", UNCHANGED alone, NEW i,
           NEW answer, answer = SaveAnswer(s, call.turn, call.conf, i), answer # {},
           calls' = (calls \ {call}) \cup answer
    PROVE  Calmly'
<1> DEFINE page == alone[s]
           n == call.turn
<1>1. PagesOK /\ page \in StandalonePage /\ Become(s, page)
  <2>1. [alone EXCEPT ![s] = page] = alone
    BY DEF PagesCalm, PagesOK, AloneOK
  <2> QED
    BY <2>1, AloneNow DEF Become, PagesCalm
<1>2. ASSUME NEW x \in answer
      PROVE  x.page = s /\ x.op = "answer" /\ x.turn = n /\ x.conf = call.conf /\ x.state = "sent" /\ x.got.msgs = <<>>
  BY AnswerRequest
<1>3. PICK k : answer = {k}
  BY DEF SaveAnswer
<1>4. k.page = s /\ k.op = "answer" /\ k.turn = n /\ k.conf = call.conf /\ k.state = "sent" /\ k.got.msgs = <<>>
  BY <1>2, <1>3
<1>5. /\ calls' = (calls \ {call}) \cup {k} /\ \A x \in calls \ calls' : x = call
      /\ \A x \in calls' \ calls : x = k
  BY <1>3
<1>6. DOMAIN k.got.msgs = {}
  BY <1>4
<1>7. \A q : CallStill(k, q)
  BY <1>4, <1>6 DEF CallStill
<1>8. FormOK(k)
  BY <1>4 DEF FormOK
<1>9. ASSUME NEW q \in Turns, Still(q)
      PROVE  AloneStill(s, page, q, calls')
  <2>1. AloneStill(s, page, q, calls)
    BY <1>9 DEF Still, PagesStill
  <2>2. \A x \in calls : (/\ x.page = s /\ x.op \in {"question", "answer"} /\ x.turn = q
                          /\ x.conf = "open" /\ x.state # "orphan") =>
            \E y \in calls' : /\ y.page = s /\ y.op \in {"question", "answer"} /\ y.turn = q
                              /\ y.conf = "open" /\ y.state # "orphan"
    BY <1>4, <1>5
  <2> QED
    BY <2>1, <2>2 DEF AloneStill
<1>10. ASSUME NEW q \in Turns
       PROVE  QuestionOK(q)'
  <2>1. QuestionOK(q) /\ (q > asked' => q > asked)
    BY DEF PagesCalm, TurnsQuiet, Same5
  <2>2. CASE q # n \/ ~Asks(call)
    <3>1. ~CallHolds(k, q)
      BY <1>4, <2>2 DEF CallHolds, Asks
    <3>2. /\ \A x \in calls' \ calls : ~CallHolds(x, q)
          /\ \A x \in calls \ calls' : x.page = s
      BY <1>5, <3>1
    <3>3. Still(q) => (\A x \in calls' \ calls : CallStill(x, q)) /\ AloneStill(s, page, q, calls')
      BY <1>5, <1>7, <1>9
    <3>4. AloneHolds(page, q) => AloneHolds(alone[s], q)
      OBVIOUS
    <3> QED
      BY <1>1, <2>1, <3>2, <3>3, <3>4, AloneCalm
  <2>3. CASE q = n /\ Asks(call)
    <3>1. CallHolds(call, q)
      BY <2>3 DEF CallHolds
    <3>2. HoldingCalls(q) \subseteq {call} /\ HoldingPages(q) = {} /\ Held(q)
      BY <2>1, <3>1 DEF QuestionOK, OneHolder, Held, HoldingCalls
    <3>3. HoldingPages(q)' = {}
      BY <3>2 DEF HoldingPages, Same5
    <3>4. HoldingCalls(q)' \subseteq {k}
      BY <1>5, <3>2 DEF HoldingCalls
    <3>5. Still(q) => Still(q)'
      <4>1. /\ \A x \in calls' \ calls : CallStill(x, q)
            /\ \A x \in calls \ calls' : x.page = s
        BY <1>5, <1>7
      <4> QED
        BY <1>1, <1>9, <4>1, AloneStillness DEF Same5
    <3> QED
      BY <2>1, <3>2, <3>3, <3>4, <3>5, HandsOn
  <2> QED
    BY <2>2, <2>3
<1>11. \A x \in calls' \ calls : x.page = s /\ FormOK(x)
  BY <1>4, <1>5, <1>8
<1> QED
  BY <1>10, <1>11, AloneDone DEF TurnsQuiet, Same5

LEMMA WritesOverCalm ==
    ASSUME PagesCalm, NEW s \in StandalonePages, QuestionSaved(s) \/ QuestionFails(s) \/ AnswerSaved(s), UNCHANGED app
    PROVE  Calmly'
<1> DEFINE page == alone[s]
<1>1. Become(s, page) = (alone' = alone)
  <2>1. [alone EXCEPT ![s] = page] = alone
    BY DEF PagesCalm, PagesOK, AloneOK
  <2> QED
    BY <2>1 DEF Become
<1>2. Same5
  BY DEF QuestionSaved, QuestionFails, AnswerSaved, Same, Same5
<1>3. CASE QuestionSaved(s)
  <2>1. PICK call \in calls :
          /\ call.page = s /\ call.op = "question" /\ call.state = "ok"
          /\ LET answer == IF call.next THEN SaveAnswer(s, call.turn, call.conf, call.index) ELSE {}
             IN  IF answer = {} /\ call.conf = "open"
                 THEN /\ Become(s, Going(alone[s], call.turn))
                      /\ calls' = (calls \ {call}) \cup Approval(s, call.turn)
                 ELSE /\ calls' = (calls \ {call}) \cup (IF answer = {} THEN ThenList(s, call) ELSE answer)
                      /\ UNCHANGED alone
    BY <1>3 DEF QuestionSaved, Arrived, Waiting
  <2> DEFINE answer == IF call.next THEN SaveAnswer(s, call.turn, call.conf, call.index) ELSE {}
  <2>2. CASE answer = {}
    <3>1. \/ /\ call.conf = "open" /\ Become(s, Going(alone[s], call.turn))
             /\ calls' = (calls \ {call}) \cup Approval(s, call.turn)
          \/ /\ call.conf # "open" /\ UNCHANGED alone
             /\ calls' = (calls \ {call}) \cup ThenList(s, call)
      BY <2>1, <2>2
    <3> QED
      BY <1>2, <2>1, <3>1, WriteOverCalm
  <2>3. CASE answer # {}
    <3>1. calls' = (calls \ {call}) \cup answer /\ UNCHANGED alone
      BY <2>1, <2>3
    <3>2. answer = SaveAnswer(s, call.turn, call.conf, call.index)
      BY <2>3
    <3> HIDE DEF answer
    <3> QED
      BY <1>2, <2>1, <2>3, <3>1, <3>2, QuestionStoredCalm
  <2> QED
    BY <2>2, <2>3
<1>4. CASE QuestionFails(s) \/ AnswerSaved(s)
  <2>1. PICK call \in calls :
          /\ call.page = s
          /\ \/ call.op = "question" /\ call.state = "refused"
             \/ call.op = "answer" /\ call.state \notin {"sent", "orphan"}
          /\ Become(s, IF call.conf = "open" THEN Going(alone[s], call.turn) ELSE alone[s])
          /\ calls' = (calls \ {call}) \cup
                (IF call.conf = "open" THEN Approval(s, call.turn) ELSE ThenList(s, call))
    BY <1>4 DEF QuestionFails, AnswerSaved, Arrived, Waiting
  <2>2. \/ /\ call.conf = "open" /\ Become(s, Going(alone[s], call.turn))
           /\ calls' = (calls \ {call}) \cup Approval(s, call.turn)
        \/ /\ call.conf # "open" /\ UNCHANGED alone
           /\ calls' = (calls \ {call}) \cup ThenList(s, call)
    BY <1>1, <2>1
  <2>3. call.conf = "open" => ~CallStill(call, call.turn)
    BY <2>1 DEF CallStill, Asks
  <2> QED
    BY <1>2, <2>1, <2>2, <2>3, WriteOverCalm
<1> QED
  BY <1>3, <1>4

(* The panels of a standalone page. *)
LEMMA PanelFields ==
    ASSUME NEW page \in StandalonePage, NEW i \in DOMAIN page.shown, page.shown[i] \in Shown,
           NEW k \in {"waiting", "running", "done"}
    PROVE  LET next == [page EXCEPT !.shown[i].conf = k]
           IN  /\ DOMAIN next.shown = DOMAIN page.shown /\ next.slot = page.slot /\ next.shown[i].conf = k
               /\ \A j \in DOMAIN page.shown : /\ next.shown[j].turn = page.shown[j].turn
                                               /\ next.shown[j].done = page.shown[j].done
                                               /\ j # i => next.shown[j] = page.shown[j]
<1> DEFINE m == [page.shown[i] EXCEPT !.conf = k]
           t == [page.shown EXCEPT ![i] = m]
           next == [page EXCEPT !.shown[i].conf = k]
<1>1. m.turn = page.shown[i].turn /\ m.conf = k /\ m.done = page.shown[i].done
  BY DEF Shown
<1>2. next.shown = t /\ next.slot = page.slot
  BY DEF StandalonePage
<1> HIDE DEF m, next
<1>3. DOMAIN t = DOMAIN page.shown /\ t[i] = m /\ \A j \in DOMAIN page.shown : j # i => t[j] = page.shown[j]
  OBVIOUS
<1> HIDE DEF t
<1>4. /\ DOMAIN next.shown = DOMAIN page.shown /\ next.slot = page.slot /\ next.shown[i].conf = k
      /\ \A j \in DOMAIN page.shown : /\ next.shown[j].turn = page.shown[j].turn
                                      /\ next.shown[j].done = page.shown[j].done
                                      /\ j # i => next.shown[j] = page.shown[j]
  BY <1>1, <1>2, <1>3
<1> QED
  BY <1>4 DEF next

LEMMA ApproveClickedCalm ==
    ASSUME PagesCalm, NEW s \in StandalonePages, ApproveClicked(s), UNCHANGED app
    PROVE  Calmly'
<1> DEFINE page == alone[s]
<1>1. page \in StandalonePage /\ PagesOK
  BY AloneNow DEF PagesCalm
<1>2. Same5
  BY DEF ApproveClicked, Same, Same5
<1>3. PICK i \in DOMAIN page.shown :
        /\ page.shown[i].conf = "open"
        /\ LET n == page.shown[i].turn
               unsaved == \E call \in Waiting(s, "question") \cup Waiting(s, "answer") :
                            call.turn = n /\ call.conf = "open"
           IN  \/ unsaved /\ Become(s, [page EXCEPT !.shown[i].conf = "waiting"]) /\ calls' = calls
               \/ /\ ~unsaved /\ Become(s, [page EXCEPT !.shown[i].conf = "running"])
                  /\ calls' = calls \cup {ConfirmOf(s, page.chat, n, TRUE, 0)}
  BY DEF ApproveClicked
<1> DEFINE n == page.shown[i].turn
           unsaved == \E call \in Waiting(s, "question") \cup Waiting(s, "answer") : call.turn = n /\ call.conf = "open"
           new == ConfirmOf(s, page.chat, n, TRUE, 0)
<1>4. PICK k \in {"waiting", "running"} :
        /\ Become(s, [page EXCEPT !.shown[i].conf = k])
        /\ \/ unsaved /\ k = "waiting" /\ calls' = calls
           \/ ~unsaved /\ calls' = calls \cup {new}
  BY <1>3
<1> DEFINE next == [page EXCEPT !.shown[i].conf = k]
<1>5. /\ DOMAIN next.shown = DOMAIN page.shown /\ next.slot = page.slot /\ next.shown[i].conf = k
      /\ \A j \in DOMAIN page.shown : /\ next.shown[j].turn = page.shown[j].turn
                                      /\ next.shown[j].done = page.shown[j].done
                                      /\ j # i => next.shown[j] = page.shown[j]
  <2>1. page.shown[i] \in Shown
    BY AloneNow DEF PagesCalm
  <2> QED
    BY <1>1, <2>1, PanelFields
<1>6. new.page = s /\ new.op = "confirm" /\ new.turn = n /\ new.conf = "none" /\ new.index = 1 /\ new.got.msgs = <<>>
  <2> HIDE DEF n
  <2> QED
    BY DEF ConfirmOf, Request, Nothing
<1>7. Become(s, next)
  BY <1>4
<1> HIDE DEF next, new
<1>8. \A q : AloneHolds(next, q) => AloneHolds(page, q)
  BY <1>5 DEF AloneHolds, Slot
<1>9. calls \subseteq calls' /\ \A x \in calls' \ calls : x = new
  BY <1>4
<1>10. ASSUME NEW q \in Turns
       PROVE  QuestionOK(q)'
  <2>1. QuestionOK(q)
    BY DEF PagesCalm, TurnsQuiet
  <2>2. \A x \in calls' \ calls : ~CallHolds(x, q)
    BY <1>6, <1>9 DEF CallHolds
  <2>3. ASSUME Still(q)
        PROVE  (\A x \in calls' \ calls : CallStill(x, q)) /\ AloneStill(s, next, q, calls')
    <3>1. AloneStill(s, page, q, calls)
      BY <2>3 DEF Still, PagesStill
    <3>2. q = n => unsaved
      BY <1>3, <3>1 DEF AloneStill, Panel, Waiting
    <3>3. ASSUME NEW x \in calls' \ calls
          PROVE  CallStill(x, q)
      <4>1. Blank(x) /\ x.turn # q
        BY <1>4, <1>6, <1>9, <3>2 DEF Blank
      <4> QED
        BY <2>3, <4>1, PlainCall
    <3>4. ASSUME NEW j \in DOMAIN next.shown, Panel(next.shown[j], q)
          PROVE  Panel(page.shown[j], q) /\ (next.shown[j].conf = "running" => page.shown[j].conf = "running")
      <4>1. CASE j # i
        BY <1>5, <3>4, <4>1
      <4>2. CASE j = i
        <5>1. q = n /\ Panel(page.shown[i], q)
          BY <1>3, <1>5, <3>4, <4>2 DEF Panel
        <5>2. k = "waiting"
          BY <1>4, <3>2, <5>1
        <5> QED
          BY <1>5, <4>2, <5>1, <5>2
      <4> QED
        BY <4>1, <4>2
    <3>5. \A j \in DOMAIN next.shown : Panel(next.shown[j], q) =>
            \E l \in DOMAIN page.shown : /\ Panel(page.shown[l], q)
                                         /\ next.shown[j].conf = "running" => page.shown[l].conf = "running"
      BY <1>5, <3>4
    <3>6. AloneStill(s, next, q, calls')
      BY <1>9, <3>1, <3>5, AlonePanelsStay
    <3> QED
      BY <3>3, <3>6
  <2>4. \A x \in calls \ calls' : x.page = s
    BY <1>9
  <2> QED
    BY <1>1, <1>2, <1>7, <1>8, <2>1, <2>2, <2>3, <2>4, AloneCalm
<1>11. \A x \in calls' \ calls : x.page = s /\ FormOK(x)
  BY <1>6, <1>9 DEF FormOK
<1> QED
  BY <1>10, <1>11, AloneDone DEF TurnsQuiet

LEMMA FinishCalm ==
    ASSUME PagesCalm, NEW s \in StandalonePages, Cancelled(s) \/ ActionOver(s), UNCHANGED app
    PROVE  Calmly'
<1> DEFINE page == alone[s]
<1>1. page \in StandalonePage /\ \A i \in DOMAIN page.shown : page.shown[i] \in Shown
  BY AloneNow DEF PagesCalm
<1>2. Same5
  BY DEF Cancelled, ActionOver, Same, Same5
<1>3. PICK next :
        /\ Become(s, next) /\ DOMAIN next.shown = DOMAIN page.shown /\ next.slot = page.slot
        /\ \A j \in DOMAIN page.shown : /\ next.shown[j].turn = page.shown[j].turn
                                        /\ next.shown[j].done = page.shown[j].done
                                        /\ next.shown[j] = page.shown[j] \/ next.shown[j].conf = "done"
        /\ \A x \in calls \ calls' : x.page = s /\ x.op = "confirm"
        /\ \A x \in calls' \ calls : \E q, i : x \in SaveAnswer(s, q, "done", i)
  <2>1. CASE Cancelled(s)
    <3>1. PICK i \in DOMAIN page.shown :
            /\ Become(s, [page EXCEPT !.shown[i].conf = "done"])
            /\ calls' = calls \cup SaveAnswer(s, page.shown[i].turn, "done", 1)
      BY <2>1 DEF Cancelled
    <3> DEFINE next == [page EXCEPT !.shown[i].conf = "done"]
    <3>2. /\ DOMAIN next.shown = DOMAIN page.shown /\ next.slot = page.slot /\ next.shown[i].conf = "done"
          /\ \A j \in DOMAIN page.shown : /\ next.shown[j].turn = page.shown[j].turn
                                          /\ next.shown[j].done = page.shown[j].done
                                          /\ j # i => next.shown[j] = page.shown[j]
      BY <1>1, PanelFields
    <3>3. Become(s, next)
      BY <3>1
    <3> HIDE DEF next
    <3>4. \A j \in DOMAIN page.shown : next.shown[j] = page.shown[j] \/ next.shown[j].conf = "done"
      BY <3>2
    <3>5. \A x \in calls' \ calls : \E q, m : x \in SaveAnswer(s, q, "done", m)
      BY <3>1
    <3>6. calls \ calls' = {}
      BY <3>1
    <3> QED
      BY <3>2, <3>3, <3>4, <3>5, <3>6
  <2>2. CASE ActionOver(s)
    <3>1. PICK call \in calls :
            /\ call.page = s /\ call.op = "confirm"
            /\ Become(s, [page EXCEPT !.shown = [i \in DOMAIN @ |->
                  IF @[i].turn = call.turn /\ @[i].conf = "running" THEN [@[i] EXCEPT !.conf = "done"] ELSE @[i]]])
            /\ calls' = (calls \ {call}) \cup SaveAnswer(s, call.turn, "done", 1)
      BY <2>2 DEF ActionOver, Waiting
    <3> DEFINE t == [i \in DOMAIN page.shown |->
                      IF page.shown[i].turn = call.turn /\ page.shown[i].conf = "running"
                      THEN [page.shown[i] EXCEPT !.conf = "done"] ELSE page.shown[i]]
               next == [page EXCEPT !.shown = t]
    <3>2. /\ DOMAIN t = DOMAIN page.shown
          /\ \A j \in DOMAIN page.shown : /\ t[j].turn = page.shown[j].turn
                                          /\ t[j].done = page.shown[j].done
                                          /\ t[j] = page.shown[j] \/ t[j].conf = "done"
      BY <1>1 DEF Shown
    <3>3. Become(s, next)
      BY <3>1
    <3> HIDE DEF t
    <3>4. next.shown = t /\ next.slot = page.slot
      BY <1>1 DEF StandalonePage
    <3> HIDE DEF next
    <3>5. \A x \in calls' \ calls : \E q, m : x \in SaveAnswer(s, q, "done", m)
      BY <3>1
    <3>6. \A x \in calls \ calls' : x = call
      BY <3>1
    <3> QED
      BY <3>1, <3>2, <3>3, <3>4, <3>5, <3>6
  <2> QED
    BY <2>1, <2>2
<1>4. \A q : AloneHolds(next, q) => AloneHolds(page, q)
  BY <1>3 DEF AloneHolds, Slot
<1>5. ASSUME NEW x \in calls' \ calls
      PROVE  x.page = s /\ x.got.msgs = <<>> /\ ~Asks(x) /\ x.op \notin {"turn", "confirm"}
  <2>1. PICK q, i : x \in SaveAnswer(s, q, "done", i)
    BY <1>3
  <2>2. x.page = s /\ x.got.msgs = <<>> /\ x.op = "answer" /\ x.conf = "done"
    BY <2>1, AnswerRequest
  <2> QED
    BY <2>2 DEF Asks
<1>6. \A x \in calls \ calls' : x.page = s /\ x.op \notin {"question", "answer"}
  BY <1>3
<1>7. \A i \in DOMAIN next.shown :
              \/ next.shown[i].conf \notin {"open", "waiting", "running"}
              \/ \E j \in DOMAIN page.shown : /\ next.shown[i].conf = page.shown[j].conf
                                              /\ next.shown[i].turn = page.shown[j].turn
  BY <1>3
<1> QED
  BY <1>2, <1>3, <1>4, <1>5, <1>6, <1>7, AloneEasy

LEMMA AloneStepCalm ==
    ASSUME PagesCalm, NEW s \in StandalonePages, StandaloneStep(s), UNCHANGED app
    PROVE  Calmly'
BY ListingCalm, ChatLoadedCalm, ListChangesCalm, QuestionCalm, GoingOnCalm, StreamCalm, WritesOverCalm,
   ApproveClickedCalm, FinishCalm DEF StandaloneStep

-----------------------------------------------------------------------------
(* A step of the server: the answer takes the place of the request. *)
LEMMA AnswerFields ==
    ASSUME NEW call \in Call, NEW state, NEW got
    PROVE  LET x == [call EXCEPT !.state = state, !.got = got]
           IN  /\ x.page = call.page /\ x.op = call.op /\ x.turn = call.turn /\ x.conf = call.conf
               /\ x.index = call.index /\ x.state = state /\ x.got = got
BY DEF Call

LetGo(call, q, state) == CallHolds(call, q) /\ (call.op # "question" \/ state # "ok")

LEMMA ReplyCalls ==
    ASSUME PagesOK, NEW call \in Pending, NEW state \in {"ok", "refused"}, NEW got, Reply(call, state, got)
    PROVE  /\ \A x \in calls' \ calls : /\ x.page = call.page /\ x.op = call.op /\ x.turn = call.turn
                                        /\ x.conf = call.conf /\ x.index = call.index
                                        /\ x.state = state /\ x.got = got /\ call.state = "sent"
           /\ \A x \in calls : x # call => x \in calls'
           /\ call \in calls /\ call.state \in {"sent", "orphan"} /\ call \in Call
           /\ call.state = "sent" => \E x \in calls' :
                 /\ x.page = call.page /\ x.op = call.op /\ x.turn = call.turn /\ x.conf = call.conf
                 /\ x.state = state
           /\ \E x : calls' \subseteq (calls \ {call}) \cup {x}
           /\ call \notin calls'
<1> DEFINE x == [call EXCEPT !.state = state, !.got = got]
<1>1. call \in calls /\ call.state \in {"sent", "orphan"}
  BY DEF Pending
<1>2. call \in Call
  BY <1>1 DEF PagesOK, CallsOK, CallOK
<1>3. /\ x.page = call.page /\ x.op = call.op /\ x.turn = call.turn /\ x.conf = call.conf
      /\ x.index = call.index /\ x.state = state /\ x.got = got
  BY <1>2, AnswerFields
<1>4. calls' = (calls \ {call}) \cup (IF call.state = "orphan" THEN {} ELSE {x})
  BY DEF Reply
<1> HIDE DEF x
<1>5. x # call
  BY <1>1, <1>3
<1> QED
  BY <1>1, <1>2, <1>3, <1>4, <1>5

LEMMA ReplyCalm ==
    ASSUME PagesOK, NEW q \in Turns, QuestionOK(q), NEW call \in Pending, NEW state \in {"ok", "refused"}, NEW got,
           Reply(call, state, got), UNCHANGED <<app, alone, asked>>,
           (Still(q) /\ ~LetGo(call, q, state)) =>
              /\ ServerStill(q)'
              /\ \A i \in DOMAIN got.msgs : got.msgs[i].turn = q => ~Asks(got.msgs[i])
    PROVE  QuestionOK(q)'
<1>1. /\ \A x \in calls' \ calls : /\ x.page = call.page /\ x.op = call.op /\ x.turn = call.turn
                                   /\ x.conf = call.conf /\ x.index = call.index
                                   /\ x.state = state /\ x.got = got /\ call.state = "sent"
      /\ \A x \in calls : x # call => x \in calls'
      /\ call \in calls /\ call.state \in {"sent", "orphan"} /\ call \notin calls'
  BY ReplyCalls
<1>2. call.state = "sent" => \E x \in calls' :
                 /\ x.page = call.page /\ x.op = call.op /\ x.turn = call.turn /\ x.conf = call.conf
                 /\ x.state = state
  BY ReplyCalls
<1>3. PICK k : calls' \subseteq (calls \ {call}) \cup {k}
  BY ReplyCalls
<1>4. HoldingPages(q)' = HoldingPages(q)
  BY DEF HoldingPages
<1>5. ASSUME NEW x \in calls' \ calls, CallHolds(x, q)
      PROVE  CallHolds(call, q) /\ ~LetGo(call, q, state)
  <2>1. x.op = "question" /\ state = "ok"
    BY <1>1, <1>5 DEF CallHolds
  <2> QED
    BY <1>1, <1>5, <2>1 DEF CallHolds, LetGo, Asks
<1>6. ASSUME Still(q), ~LetGo(call, q, state)
      PROVE  Still(q)'
  <2>1. CallStill(call, q) /\ call \in calls
    BY <1>1, <1>6 DEF Still, CallsStill
  <2>2. ASSUME NEW x \in calls' \ calls
        PROVE  CallStill(x, q)
    <3>1. \A i \in DOMAIN x.got.msgs : x.got.msgs[i].turn = q => ~Asks(x.got.msgs[i])
      BY <1>1, <1>6
    <3>2. ASSUME x.turn = q
          PROVE  /\ x.op = "confirm" => x.index = 0
                 /\ x.op = "turn" => Asks(x) /\ x.state # "ok"
                 /\ x.op = "answer" /\ Asks(x) => x.state \in {"sent", "orphan"}
                 /\ x.op = "question" /\ Asks(x) => x.state \in {"sent", "ok"}
      <4>1. Asks(x) = Asks(call) /\ call.turn = q
        BY <1>1, <3>2 DEF Asks
      <4>2. CASE x.op \notin {"turn", "answer", "question"}
        BY <1>1, <2>1, <3>2, <4>2 DEF CallStill
      <4>3. CASE x.op = "turn"
        BY <1>1, <1>6, <2>1, <4>1, <4>3 DEF CallStill, LetGo, CallHolds
      <4>4. CASE x.op = "answer"
        BY <1>1, <1>6, <2>1, <4>1, <4>4 DEF LetGo, CallHolds
      <4>5. CASE x.op = "question"
        BY <1>1, <1>6, <2>1, <4>1, <4>5 DEF LetGo, CallHolds
      <4> QED
        BY <4>2, <4>3, <4>4, <4>5
    <3> QED
      BY <3>1, <3>2 DEF CallStill
  <2>3. CallsStill(q)'
    BY <1>6, <2>2 DEF Still, CallsStill
  <2>4. \A p \in AppPages : AppStill(p, app[p], q, calls')
    <3>1. SUFFICES ASSUME NEW p \in AppPages, NEW i \in DOMAIN app[p].shown, Panel(app[p].shown[i], q), app[p].shown[i].token
                   PROVE  /\ app[p].shown[i].conf # "running"
                          /\ \E y \in calls' : y.page = p /\ y.op = "turn" /\ y.turn = q /\ y.state # "orphan"
      BY DEF AppStill
    <3>2. AppStill(p, app[p], q, calls)
      BY <1>6 DEF Still, PagesStill
    <3>3. PICK y \in calls : y.page = p /\ y.op = "turn" /\ y.turn = q /\ y.state # "orphan"
      BY <3>1, <3>2 DEF AppStill
    <3>4. app[p].shown[i].conf # "running"
      BY <3>1, <3>2 DEF AppStill
    <3>5. \E z \in calls' : z.page = p /\ z.op = "turn" /\ z.turn = q /\ z.state # "orphan"
      BY <1>1, <1>2, <3>3
    <3> QED
      BY <3>4, <3>5
  <2>5. \A s \in StandalonePages : AloneStill(s, alone[s], q, calls')
    <3>1. SUFFICES ASSUME NEW s \in StandalonePages, NEW i \in DOMAIN alone[s].shown, Panel(alone[s].shown[i], q)
                   PROVE  /\ alone[s].shown[i].conf # "running"
                          /\ \E y \in calls' : /\ y.page = s /\ y.op \in {"question", "answer"} /\ y.turn = q
                                               /\ y.conf = "open" /\ y.state # "orphan"
      BY DEF AloneStill
    <3>2. AloneStill(s, alone[s], q, calls)
      BY <1>6 DEF Still, PagesStill
    <3>3. PICK y \in calls : /\ y.page = s /\ y.op \in {"question", "answer"} /\ y.turn = q
                             /\ y.conf = "open" /\ y.state # "orphan"
      BY <3>1, <3>2 DEF AloneStill
    <3>4. alone[s].shown[i].conf # "running"
      BY <3>1, <3>2 DEF AloneStill
    <3>5. \E z \in calls' : /\ z.page = s /\ z.op \in {"question", "answer"} /\ z.turn = q
                            /\ z.conf = "open" /\ z.state # "orphan"
      BY <1>1, <1>2, <3>3
    <3> QED
      BY <3>4, <3>5
  <2>6. PagesStill(q)'
    BY <2>4, <2>5 DEF PagesStill
  <2> QED
    BY <1>6, <2>3, <2>6 DEF Still
<1>7. CASE CallHolds(call, q)
  <2>1. HoldingCalls(q) \subseteq {call} /\ HoldingPages(q) = {} /\ Held(q)
    BY <1>1, <1>7 DEF QuestionOK, OneHolder, Held, HoldingCalls
  <2>2. \A x \in HoldingCalls(q)' : x \in calls' \ calls /\ CallHolds(x, q)
    BY <1>1, <2>1 DEF HoldingCalls
  <2>3. CASE LetGo(call, q, state)
    <3>1. HoldingCalls(q)' = {}
      BY <1>5, <2>2, <2>3
    <3> QED
      BY <1>4, <2>1, <3>1, LetsGo
  <2>4. CASE ~LetGo(call, q, state)
    <3>1. HoldingCalls(q)' \subseteq {k}
      BY <1>3, <2>2
    <3> QED
      BY <1>4, <1>6, <2>1, <2>4, <3>1, HandsOn
  <2> QED
    BY <2>3, <2>4
<1>8. CASE ~CallHolds(call, q)
  <2>1. HoldingCalls(q)' \subseteq HoldingCalls(q)
    BY <1>5, <1>8 DEF HoldingCalls
  <2>2. ~LetGo(call, q, state)
    BY <1>8 DEF LetGo
  <2> QED
    BY <1>4, <1>6, <2>1, <2>2, NobodyNew
<1> QED
  BY <1>7, <1>8

LEMMA ReplyForms ==
    ASSUME PagesCalm, NEW call \in Pending, NEW state \in {"ok", "refused"}, NEW got,
           Reply(call, state, got), UNCHANGED <<app, alone>>
    PROVE  PagesQuiet' /\ ConfirmsOK'
<1>1. /\ \A x \in calls' \ calls : /\ x.page = call.page /\ x.op = call.op /\ x.turn = call.turn
                                   /\ x.conf = call.conf /\ x.index = call.index
                                   /\ x.state = state /\ x.got = got /\ call.state = "sent"
      /\ call \in calls /\ call \notin calls'
  BY ReplyCalls DEF PagesCalm
<1>2. PICK k : calls' \subseteq (calls \ {call}) \cup {k}
  BY ReplyCalls DEF PagesCalm
<1>3. ConfirmsOK'
  <2>1. ASSUME NEW x \in calls' \ calls
        PROVE  FormOK(x)
    <3>1. FormOK(call)
      BY <1>1 DEF PagesCalm, ConfirmsOK
    <3> QED
      BY <1>1, <3>1 DEF FormOK, Asks
  <2> QED
    BY <2>1 DEF ConfirmsOK, PagesCalm
<1>4. ASSUME NEW p \in AppPages
      PROVE  RegenerationOK(p)'
  <2>1. RegenerationOK(p)
    BY DEF PagesCalm, PagesQuiet
  <2>2. ASSUME NEW x \in Waiting(p, "regenerate")'
        PROVE  (x \in Waiting(p, "regenerate") /\ x # call) \/ (x = k /\ call \in Waiting(p, "regenerate"))
    <3>1. CASE x \in calls
      BY <1>1, <2>2, <3>1 DEF Waiting
    <3>2. CASE x \notin calls
      <4>1. x \in calls' \ calls
        BY <2>2, <3>2 DEF Waiting
      <4> QED
        BY <1>1, <1>2, <2>2, <4>1 DEF Waiting
    <3> QED
      BY <3>1, <3>2
  <2>3. ASSUME NEW x \in Waiting(p, "regenerate")', NEW y \in Waiting(p, "regenerate")'
        PROVE  x = y /\ Unbegun(app[p])
    BY <2>1, <2>2, <2>3 DEF RegenerationOK
  <2> QED
    BY <2>3 DEF RegenerationOK, Waiting
<1>5. PagesQuiet'
  BY <1>4 DEF PagesQuiet
<1> QED
  BY <1>3, <1>5

(* What a write adds to the history of placeholders. *)
LEMMA NotedParts ==
    ASSUME NEW c, NEW old, NEW chat \in ChatType
    PROVE  \E stored, tokens, gone :
             /\ Noted(c, old, chat) = (stored \cup tokens) \cup gone
             /\ \A d, q : <<"token", d, q>> \notin stored /\ <<"token", d, q>> \notin gone
             /\ \A d, q : <<"token", d, q>> \in tokens =>
                            d = c /\ \E i \in DOMAIN chat.msgs : Unresolved(chat.msgs[i]) /\ chat.msgs[i].turn = q
             /\ \A i \in DOMAIN chat.msgs : Unresolved(chat.msgs[i]) => <<"token", c, chat.msgs[i].turn>> \in tokens
             /\ \A q \in Turns : Tokens(old, q) # {} /\ Tokens(chat, q) = {} => <<"replaced", c, q>> \in gone
<1>1. chat.msgs \in Seq(Message)
  BY DEF ChatType
<1>2. \A i \in DOMAIN chat.msgs : chat.msgs[i] \in Message
  BY <1>1, LenProperties, ElementOfSeq
<1>3. \A i \in DOMAIN chat.msgs : chat.msgs[i].role \in {"user", "assistant"}
  BY <1>2 DEF Message
<1> DEFINE stored == {<<m.role, c, m.turn>> : m \in ToSet(chat.msgs)}
           tokens == {<<"token", c, m.turn>> : m \in {n \in ToSet(chat.msgs) : Unresolved(n)}}
           gone == {<<"replaced", c, t>> : t \in {u \in Turns : Tokens(old, u) # {} /\ Tokens(chat, u) = {}}}
<1>4. Noted(c, old, chat) = (stored \cup tokens) \cup gone
  BY DEF Noted
<1>5. \A d, q : <<"token", d, q>> \notin stored
  BY <1>3 DEF ToSet
<1>6. \A d, q : <<"token", d, q>> \notin gone
  OBVIOUS
<1>7. \A d, q : <<"token", d, q>> \in tokens =>
                   d = c /\ \E i \in DOMAIN chat.msgs : Unresolved(chat.msgs[i]) /\ chat.msgs[i].turn = q
  BY DEF ToSet
<1>8. \A i \in DOMAIN chat.msgs : Unresolved(chat.msgs[i]) => <<"token", c, chat.msgs[i].turn>> \in tokens
  BY DEF ToSet
<1>9. \A q \in Turns : Tokens(old, q) # {} /\ Tokens(chat, q) = {} => <<"replaced", c, q>> \in gone
  OBVIOUS
<1> HIDE DEF stored, tokens, gone
<1> QED
  BY <1>4, <1>5, <1>6, <1>7, <1>8, <1>9

LEMMA TokenNoted ==
    ASSUME NEW c, NEW old, NEW chat \in ChatType, NEW d, NEW q, <<"token", d, q>> \in Noted(c, old, chat)
    PROVE  d = c /\ \E i \in DOMAIN chat.msgs : Unresolved(chat.msgs[i]) /\ chat.msgs[i].turn = q
BY NotedParts

LEMMA NotedPlaceholders ==
    ASSUME NEW c, NEW old, NEW chat \in ChatType
    PROVE  /\ \A i \in DOMAIN chat.msgs : Unresolved(chat.msgs[i]) => <<"token", c, chat.msgs[i].turn>> \in Noted(c, old, chat)
           /\ \A q \in Turns : Tokens(old, q) # {} /\ Tokens(chat, q) = {} => <<"replaced", c, q>> \in Noted(c, old, chat)
BY NotedParts

Stored(c, chat) ==
    /\ chats' = [chats EXCEPT ![c] = chat] /\ UNCHANGED ran
    /\ written' = written \cup Noted(c, chats[c], chat)

(* The placeholders in a chat were there, or are the first of their turn. *)
Fresh(c, chat) ==
    \A i \in DOMAIN chat.msgs : Asks(chat.msgs[i]) =>
       \/ \E j \in DOMAIN chats[c].msgs : chat.msgs[i] = chats[c].msgs[j]
       \/ chat.msgs[i].role = "assistant" /\ ran[<<c, chat.msgs[i].turn>>] = 0

LEMMA StoredRecorded ==
    ASSUME PagesOK, ChatsQuiet, NEW c \in Chats, NEW chat \in ChatType, Stored(c, chat),
           chat.state # "live" => chat.msgs = <<>>, Fresh(c, chat)
    PROVE  ChatsQuiet'
<1>1. chats'[c] = chat /\ \A d \in Chats : d # c => chats'[d] = chats[d]
  BY DEF PagesOK, ServerTyped, Stored
<1>2. written' = written \cup Noted(c, chats[c], chat) /\ ran' = ran
  BY DEF Stored
<1>3. ASSUME NEW d \in Chats, d # c
      PROVE  Recorded(d)'
  <2>1. Recorded(d)
    BY DEF ChatsQuiet
  <2>2. \A q \in Turns : <<"token", d, q>> \in written' => <<"token", d, q>> \in written
    BY <1>2, <1>3, TokenNoted
  <2> QED
    BY <1>1, <1>2, <1>3, <2>1, <2>2 DEF Recorded
<1>4. Recorded(c)'
  <2>1. Recorded(c)
    BY DEF ChatsQuiet
  <2>2. ASSUME NEW i \in DOMAIN chat.msgs, Asks(chat.msgs[i])
        PROVE  /\ <<"token", c, chat.msgs[i].turn>> \in written'
               /\ chat.msgs[i].conf = "open" => ran[<<c, chat.msgs[i].turn>>] = 0
    <3>1. CASE \E j \in DOMAIN chats[c].msgs : chat.msgs[i] = chats[c].msgs[j]
      <4>1. PICK j \in DOMAIN chats[c].msgs : chat.msgs[i] = chats[c].msgs[j]
        BY <3>1
      <4> QED
        BY <1>2, <2>1, <2>2, <4>1 DEF Recorded
    <3>2. CASE chat.msgs[i].role = "assistant" /\ ran[<<c, chat.msgs[i].turn>>] = 0
      <4>1. Unresolved(chat.msgs[i])
        BY <2>2, <3>2 DEF Unresolved, Asks
      <4>2. chat.msgs[i].turn \in Turns
        <5>1. chat.msgs \in Seq(Message)
          BY DEF ChatType
        <5>2. chat.msgs[i] \in Message
          BY <5>1, LenProperties, ElementOfSeq
        <5> QED
          BY <5>2 DEF Message
      <4> QED
        BY <1>2, <3>2, <4>1, <4>2, NotedPlaceholders
    <3> QED
      BY <2>2, <3>1, <3>2 DEF Fresh
  <2>3. ASSUME NEW q \in Turns, <<"token", c, q>> \in written', <<"replaced", c, q>> \notin written'
        PROVE  Tokens(chat, q) # {} /\ ran[<<c, q>>] <= 1
    <3>1. CASE <<"token", c, q>> \in written
      <4>1. Tokens(chats[c], q) # {} /\ ran[<<c, q>>] <= 1
        BY <1>2, <2>1, <2>3, <3>1 DEF Recorded
      <4> QED
        BY <1>2, <2>3, <4>1, NotedPlaceholders
    <3>2. CASE <<"token", c, q>> \notin written
      <4>1. PICK i \in DOMAIN chat.msgs : Unresolved(chat.msgs[i]) /\ chat.msgs[i].turn = q
        BY <1>2, <2>3, <3>2, TokenNoted
      <4>2. Asks(chat.msgs[i])
        BY <4>1 DEF Unresolved, Asks
      <4>3. i \in Tokens(chat, q)
        BY <4>1, <4>2 DEF Tokens, Asks
      <4>4. ~\E j \in DOMAIN chats[c].msgs : chat.msgs[i] = chats[c].msgs[j]
        BY <2>1, <3>2, <4>1, <4>2 DEF Recorded
      <4>5. ran[<<c, q>>] = 0
        BY <4>1, <4>2, <4>4 DEF Fresh
      <4> QED
        BY <4>3, <4>5
    <3> QED
      BY <3>1, <3>2
  <2>4. \A i \in DOMAIN chat.msgs : Asks(chat.msgs[i]) =>
          /\ <<"token", c, chat.msgs[i].turn>> \in written'
          /\ chat.msgs[i].conf = "open" => ran[<<c, chat.msgs[i].turn>>] = 0
    BY <2>2
  <2>5. \A q \in Turns : (<<"token", c, q>> \in written' /\ <<"replaced", c, q>> \notin written') =>
          Tokens(chat, q) # {} /\ ran[<<c, q>>] <= 1
    BY <2>3
  <2> QED
    BY <1>1, <1>2, <2>4, <2>5 DEF Recorded
<1> QED
  BY <1>3, <1>4 DEF ChatsQuiet

LEMMA StoredStill ==
    ASSUME PagesOK, NEW c \in Chats, NEW chat \in ChatType, Stored(c, chat), NEW q \in Turns, ServerStill(q),
           \A i \in DOMAIN chat.msgs : chat.msgs[i].turn = q => ~Asks(chat.msgs[i])
    PROVE  ServerStill(q)'
<1>1. chats'[c] = chat /\ \A d \in Chats : d # c => chats'[d] = chats[d]
  BY DEF PagesOK, ServerTyped, Stored
<1>2. \A d \in Chats : <<"token", d, q>> \notin written'
  <2>1. SUFFICES ASSUME NEW d \in Chats, <<"token", d, q>> \in Noted(c, chats[c], chat) PROVE FALSE
    BY DEF Stored, ServerStill
  <2>2. \E i \in DOMAIN chat.msgs : Unresolved(chat.msgs[i]) /\ chat.msgs[i].turn = q
    BY <2>1, TokenNoted
  <2>3. PICK i \in DOMAIN chat.msgs : Unresolved(chat.msgs[i]) /\ chat.msgs[i].turn = q
    BY <2>2
  <2> QED
    BY <2>3 DEF Unresolved, Asks
<1> QED
  BY <1>1, <1>2 DEF ServerStill, Stored

LEMMA SameMessages ==
    ASSUME UNCHANGED <<ran, written>>,
           \A c \in Chats : /\ chats'[c].msgs = chats[c].msgs
                            /\ chats'[c].state # "live" => chats[c].state # "live"
    PROVE  /\ ChatsQuiet => ChatsQuiet'
           /\ \A q : ServerStill(q) => ServerStill(q)'
<1>1. ASSUME NEW c \in Chats, Recorded(c)
      PROVE  Recorded(c)'
  <2>1. \A q : Tokens(chats'[c], q) = Tokens(chats[c], q)
    BY DEF Tokens
  <2>2. chats'[c].msgs = chats[c].msgs /\ (chats'[c].state # "live" => chats[c].state # "live")
    OBVIOUS
  <2> QED
    BY <1>1, <2>1, <2>2 DEF Recorded
<1>2. \A q : ServerStill(q) => ServerStill(q)'
  BY DEF ServerStill
<1> QED
  BY <1>1, <1>2 DEF ChatsQuiet

(* Requests that read, that open a chat or that are refused. *)
LEMMA ReadCalm ==
    ASSUME PagesCalm, ChatsQuiet, NEW call \in Pending, NEW state \in {"ok", "refused"}, NEW got,
           Reply(call, state, got), UNCHANGED <<app, alone, asked, ran, written>>,
           \A c \in Chats : /\ chats'[c].msgs = chats[c].msgs
                            /\ chats'[c].state # "live" => chats[c].state # "live",
           \A i \in DOMAIN got.msgs : \E c \in Chats : \E j \in DOMAIN chats[c].msgs : got.msgs[i] = chats[c].msgs[j]
    PROVE  Calmly' /\ ChatsQuiet'
<1>1. ChatsQuiet' /\ \A q : ServerStill(q) => ServerStill(q)'
  BY SameMessages
<1>2. ASSUME NEW q \in Turns
      PROVE  QuestionOK(q)'
  <2>1. QuestionOK(q) /\ PagesOK
    BY DEF PagesCalm, TurnsQuiet
  <2>2. ASSUME Still(q)
        PROVE  /\ ServerStill(q)'
               /\ \A i \in DOMAIN got.msgs : got.msgs[i].turn = q => ~Asks(got.msgs[i])
    <3>1. ServerStill(q)
      BY <2>2 DEF Still
    <3> QED
      BY <1>1, <3>1 DEF ServerStill
  <2>3. UNCHANGED <<app, alone, asked>>
    OBVIOUS
  <2> QED
    BY <2>1, <2>2, <2>3, ReplyCalm
<1>3. PagesQuiet' /\ ConfirmsOK'
  BY ReplyForms
<1> QED
  BY <1>1, <1>2, <1>3 DEF Calmly, TurnsQuiet

LEMMA RefuseCalm ==
    ASSUME PagesCalm, ChatsQuiet, NEW call \in Pending, Refuse(call), UNCHANGED <<app, alone>>
    PROVE  Calmly' /\ ChatsQuiet'
<1>1. DOMAIN Nothing.msgs = {}
  BY DEF Nothing
<1>2. Reply(call, "refused", Nothing) /\ UNCHANGED <<chats, app, alone, asked, ran, written>>
  BY DEF Refuse
<1> QED
  BY <1>1, <1>2, ReadCalm

(* Requests that write a chat: a placeholder is stored by who held it. *)
LEMMA StoreCalm ==
    ASSUME PagesCalm, ChatsQuiet, NEW call \in Pending, Live(call.chat), NEW chat \in ChatType,
           Store(call, chat), UNCHANGED <<ran, app, alone>>,
           chat.state # "live" => chat.msgs = <<>>,
           \A i \in DOMAIN chat.msgs :
              \/ ~Asks(chat.msgs[i])
              \/ \E j \in DOMAIN chats[call.chat].msgs : chat.msgs[i] = chats[call.chat].msgs[j]
              \/ chat.msgs[i] = Answer(call.turn, call.conf) /\ call.op \in {"turn", "answer"}
    PROVE  Calmly' /\ ChatsQuiet'
<1> DEFINE c == call.chat
           got == [Nothing EXCEPT !.chat = call.chat, !.rev = chat.rev]
<1>1. c \in Chats /\ PagesOK /\ call \in calls /\ call.state \in {"sent", "orphan"}
  BY DEF Live, PagesCalm, Pending
<1>2. Stored(c, chat) /\ Reply(call, "ok", got) /\ UNCHANGED asked
  BY DEF Store, Stored
<1>3. DOMAIN got.msgs = {}
  BY DEF Nothing
<1> HIDE DEF got
<1>4. ASSUME NEW i \in DOMAIN chat.msgs, Asks(chat.msgs[i]),
             ~\E j \in DOMAIN chats[c].msgs : chat.msgs[i] = chats[c].msgs[j]
      PROVE  /\ chat.msgs[i].role = "assistant" /\ chat.msgs[i].turn = call.turn /\ CallHolds(call, call.turn)
             /\ call.op \in {"turn", "answer"}
  <2>1. chat.msgs[i] = Answer(call.turn, call.conf) /\ call.op \in {"turn", "answer"}
    BY <1>4
  <2>2. chat.msgs[i].role = "assistant" /\ chat.msgs[i].turn = call.turn /\ chat.msgs[i].conf = call.conf
    BY <2>1 DEF Answer
  <2> QED
    BY <1>1, <1>4, <2>1, <2>2 DEF CallHolds, Asks
<1>5. Fresh(c, chat)
  <2>1. SUFFICES ASSUME NEW i \in DOMAIN chat.msgs, Asks(chat.msgs[i]),
                        ~\E j \in DOMAIN chats[c].msgs : chat.msgs[i] = chats[c].msgs[j]
                 PROVE  chat.msgs[i].role = "assistant" /\ ran[<<c, chat.msgs[i].turn>>] = 0
    BY DEF Fresh
  <2>2. /\ chat.msgs[i].role = "assistant" /\ chat.msgs[i].turn = call.turn /\ CallHolds(call, call.turn)
        /\ call.op \in {"turn", "answer"}
    BY <1>4, <2>1
  <2>3. call.turn \in Turns
    BY <1>1, <2>2 DEF PagesOK, CallsOK, CallOK
  <2>4. QuestionOK(call.turn) /\ call \in HoldingCalls(call.turn)
    BY <1>1, <2>2, <2>3 DEF PagesCalm, TurnsQuiet, HoldingCalls
  <2>5. Still(call.turn)
    BY <2>4 DEF QuestionOK, Held
  <2> QED
    BY <1>1, <2>2, <2>5 DEF Still, ServerStill
<1>6. ChatsQuiet'
  BY <1>1, <1>2, <1>5, StoredRecorded
<1>7. ASSUME NEW q \in Turns
      PROVE  QuestionOK(q)'
  <2>1. QuestionOK(q)
    BY DEF PagesCalm, TurnsQuiet
  <2>2. ASSUME Still(q), ~LetGo(call, q, "ok")
        PROVE  ServerStill(q)'
    <3>1. ServerStill(q)
      BY <2>2 DEF Still
    <3>2. ASSUME NEW i \in DOMAIN chat.msgs, chat.msgs[i].turn = q, Asks(chat.msgs[i])
          PROVE  FALSE
      <4>1. CASE \E j \in DOMAIN chats[c].msgs : chat.msgs[i] = chats[c].msgs[j]
        BY <1>1, <3>1, <3>2, <4>1 DEF ServerStill
      <4>2. CASE ~\E j \in DOMAIN chats[c].msgs : chat.msgs[i] = chats[c].msgs[j]
        <5>1. CallHolds(call, q) /\ call.op \in {"turn", "answer"}
          BY <1>4, <3>2, <4>2
        <5> QED
          BY <2>2, <5>1 DEF LetGo
      <4> QED
        BY <4>1, <4>2
    <3> QED
      BY <1>1, <1>2, <3>1, <3>2, StoredStill
  <2>3. UNCHANGED <<app, alone, asked>>
    BY <1>2
  <2> QED
    BY <1>1, <1>2, <1>3, <2>1, <2>2, <2>3, ReplyCalm
<1>8. PagesQuiet' /\ ConfirmsOK'
  BY <1>2, ReplyForms
<1> QED
  BY <1>6, <1>7, <1>8 DEF Calmly, TurnsQuiet

(* Each request. *)
LEMMA ReadersCalm ==
    ASSUME PagesCalm, ChatsQuiet, NEW call \in Pending, UNCHANGED <<app, alone>>,
           ServeLoad(call) \/ ServeList(call) \/ ServeCreate(call) \/ ServeRegenerate(call)
    PROVE  Calmly' /\ ChatsQuiet'
<1>1. DOMAIN Nothing.msgs = {}
  BY DEF Nothing
<1>2. \A c \in Chats : chats[c] \in ChatType
  BY DEF PagesCalm, PagesOK, ServerTyped
<1>3. CASE ServeLoad(call) /\ Live(call.chat)
  <2> DEFINE got == [chat |-> call.chat, rev |-> chats[call.chat].rev, msgs |-> chats[call.chat].msgs, listed |-> {}]
  <2>1. got.msgs = chats[call.chat].msgs /\ call.chat \in Chats
    BY <1>3 DEF Live
  <2>2. Reply(call, "ok", got) /\ UNCHANGED <<app, alone, asked, ran, written, chats>>
    BY <1>3 DEF ServeLoad
  <2> HIDE DEF got
  <2> QED
    BY <2>1, <2>2, ReadCalm
<1>4. CASE ServeLoad(call) /\ ~Live(call.chat)
  <2>1. Reply(call, "refused", Nothing) /\ UNCHANGED <<app, alone, asked, ran, written, chats>>
    BY <1>4 DEF ServeLoad
  <2> QED
    BY <1>1, <2>1, ReadCalm
<1>5. CASE ServeList(call)
  <2> DEFINE got == [Nothing EXCEPT !.listed = {c \in Chats : Live(c)}]
  <2>1. DOMAIN got.msgs = {}
    BY DEF Nothing
  <2>2. Reply(call, "ok", got) /\ UNCHANGED <<app, alone, asked, ran, written, chats>>
    BY <1>5 DEF ServeList
  <2> HIDE DEF got
  <2> QED
    BY <2>1, <2>2, ReadCalm
<1>6. CASE ServeCreate(call) /\ ~Refuse(call)
  <2>1. PICK c \in Chats :
            /\ chats' = [chats EXCEPT ![c] = [chats[c] EXCEPT !.state = "live"]]
            /\ Reply(call, "ok", [Nothing EXCEPT !.chat = c, !.rev = [chats[c] EXCEPT !.state = "live"].rev])
            /\ UNCHANGED <<asked, jobs, ran, losses, written>>
    BY <1>6 DEF ServeCreate
  <2> DEFINE got == [Nothing EXCEPT !.chat = c, !.rev = [chats[c] EXCEPT !.state = "live"].rev]
  <2>2. DOMAIN got.msgs = {}
    BY DEF Nothing
  <2>3. Reply(call, "ok", got)
    BY <2>1
  <2> HIDE DEF got
  <2>4. [chats[c] EXCEPT !.state = "live"].msgs = chats[c].msgs /\ [chats[c] EXCEPT !.state = "live"].state = "live"
    BY <1>2 DEF ChatType
  <2>5. chats'[c] = [chats[c] EXCEPT !.state = "live"] /\ \A d \in Chats : d # c => chats'[d] = chats[d]
    BY <2>1 DEF PagesCalm, PagesOK, ServerTyped
  <2>6. \A d \in Chats : /\ chats'[d].msgs = chats[d].msgs
                         /\ chats'[d].state # "live" => chats[d].state # "live"
    BY <2>4, <2>5
  <2> QED
    BY <2>1, <2>2, <2>3, <2>6, ReadCalm
<1>7. CASE ServeRegenerate(call) /\ ~Refuse(call)
  <2> DEFINE c == call.chat
             i == call.index
             chat == Begun(chats[c], i)
             got == [Nothing EXCEPT !.chat = c, !.rev = chat.rev, !.msgs = <<chats[c].msgs[i]>>]
  <2>1. c \in Chats /\ i \in DOMAIN chats[c].msgs
    BY <1>7 DEF ServeRegenerate, Live, MayBegin
  <2>2. chats' = [chats EXCEPT ![c] = chat] /\ UNCHANGED <<asked, jobs, ran, losses, written>>
    BY <1>7 DEF ServeRegenerate
  <2>3. chat.msgs = chats[c].msgs /\ chat.state = chats[c].state
    BY <1>2, <2>1 DEF Begun, ChatType
  <2>4. Reply(call, "ok", got)
    BY <1>7, <2>3 DEF ServeRegenerate
  <2>5. DOMAIN got.msgs = 1..1 /\ got.msgs[1] = chats[c].msgs[i]
    BY DEF Nothing
  <2>6. chats'[c] = chat /\ \A d \in Chats : d # c => chats'[d] = chats[d]
    BY <2>1, <2>2 DEF PagesCalm, PagesOK, ServerTyped
  <2> HIDE DEF got, chat
  <2>7. \A d \in Chats : /\ chats'[d].msgs = chats[d].msgs
                         /\ chats'[d].state # "live" => chats[d].state # "live"
    BY <2>3, <2>6
  <2>8. \A k \in DOMAIN got.msgs : \E d \in Chats : \E j \in DOMAIN chats[d].msgs : got.msgs[k] = chats[d].msgs[j]
    BY <2>1, <2>5
  <2> QED
    BY <2>2, <2>4, <2>7, <2>8, ReadCalm
<1> QED
  BY <1>3, <1>4, <1>5, <1>6, <1>7, RefuseCalm

LEMMA WritersCalm ==
    ASSUME PagesCalm, ChatsQuiet, NEW call \in Pending, UNCHANGED <<app, alone>>,
           ServeDelete(call) \/ ServeTurn(call) \/ ServeMessage(call) \/ ServeHandover(call) \/ ServeMeta(call)
    PROVE  Calmly' /\ ChatsQuiet'
<1> DEFINE c == call.chat
           q == call.turn
<1>1. ASSUME NEW chat \in ChatType, Live(c), Store(call, chat), UNCHANGED ran,
             chat.state # "live" => chat.msgs = <<>>,
             \A i \in DOMAIN chat.msgs :
                \/ ~Asks(chat.msgs[i])
                \/ \E j \in DOMAIN chats[c].msgs : chat.msgs[i] = chats[c].msgs[j]
                \/ chat.msgs[i] = Answer(q, call.conf) /\ call.op \in {"turn", "answer"}
      PROVE  Calmly' /\ ChatsQuiet'
  BY <1>1, StoreCalm
<1>2. /\ call \in Call /\ (call.op \in {"turn", "question", "answer", "handover"} => q \in Turns)
      /\ call.conf \in Confirmations /\ call.rev \in Nat
      /\ (Live(c) => c \in Chats /\ chats[c] \in ChatType /\ chats[c].state = "live")
  BY DEF PagesCalm, PagesOK, CallsOK, CallOK, Call, Live, ServerTyped, Pending
<1>3. ~Asks(Question(q))
  BY DEF Asks, Question
<1>4. CASE ServeDelete(call) /\ Live(c)
  <2>1. NewChat("deleted") \in ChatType /\ NewChat("deleted").msgs = <<>>
    BY ChatsTyped
  <2>2. DOMAIN NewChat("deleted").msgs = {}
    BY <2>1
  <2> QED
    BY <1>1, <1>4, <2>1, <2>2 DEF ServeDelete
<1>5. CASE ServeTurn(call) /\ ~Refuse(call)
  <2> DEFINE mid == Appended(chats[c], Question(q), 0)
             end == Appended(mid, Answer(q, call.conf), 0)
  <2>1. Live(c) /\ Store(call, end) /\ UNCHANGED ran /\ call.op = "turn"
    BY <1>5 DEF ServeTurn, TurnAppended
  <2>2. "none" \in Confirmations /\ q \in Turns /\ Question(q) \in Message /\ Answer(q, call.conf) \in Message
    BY <1>2, <2>1, MessagesTyped DEF Confirmations
  <2>3. /\ mid \in ChatType /\ mid.state = "live"
        /\ \A i \in DOMAIN mid.msgs : mid.msgs[i] = Question(q) \/ \E j \in DOMAIN chats[c].msgs : mid.msgs[i] = chats[c].msgs[j]
    BY SMTT(40), <1>2, <2>1, <2>2, AppendedTyped
  <2> HIDE DEF mid
  <2>4. /\ end \in ChatType /\ end.state = "live"
        /\ \A i \in DOMAIN end.msgs : end.msgs[i] = Answer(q, call.conf) \/ \E j \in DOMAIN mid.msgs : end.msgs[i] = mid.msgs[j]
    BY <2>2, <2>3, AppendedTyped
  <2> HIDE DEF end
  <2>5. \A i \in DOMAIN end.msgs :
          \/ ~Asks(end.msgs[i])
          \/ \E j \in DOMAIN chats[c].msgs : end.msgs[i] = chats[c].msgs[j]
          \/ end.msgs[i] = Answer(q, call.conf) /\ call.op \in {"turn", "answer"}
    BY <1>3, <2>1, <2>3, <2>4
  <2> QED
    BY <1>1, <2>1, <2>4, <2>5
<1>6. CASE ServeMessage(call) /\ ~Refuse(call)
  <2> DEFINE m == IF call.op = "question" THEN Question(q) ELSE Answer(q, call.conf)
             end == Appended(chats[c], m, call.rev)
  <2>1. Live(c) /\ Store(call, end) /\ UNCHANGED ran /\ call.op \in {"question", "answer"}
    BY <1>6 DEF ServeMessage
  <2>2. "none" \in Confirmations /\ q \in Turns
    BY <1>2, <2>1 DEF Confirmations
  <2>3. m \in Message /\ (Asks(m) => (m = Answer(q, call.conf) /\ call.op = "answer"))
    BY <1>2, <1>3, <2>1, <2>2, MessagesTyped
  <2> HIDE DEF m
  <2>4. /\ end \in ChatType /\ end.state = "live"
        /\ \A i \in DOMAIN end.msgs : end.msgs[i] = m \/ \E j \in DOMAIN chats[c].msgs : end.msgs[i] = chats[c].msgs[j]
    BY <1>2, <2>1, <2>3, AppendedTyped
  <2> HIDE DEF end
  <2>5. \A i \in DOMAIN end.msgs :
          \/ ~Asks(end.msgs[i])
          \/ \E j \in DOMAIN chats[c].msgs : end.msgs[i] = chats[c].msgs[j]
          \/ end.msgs[i] = Answer(q, call.conf) /\ call.op \in {"turn", "answer"}
    BY <2>3, <2>4
  <2> QED
    BY <1>1, <2>1, <2>4, <2>5
<1>7. CASE ServeHandover(call) /\ Live(c)
  <2> DEFINE end == HandedOver(chats[c], q)
             app1 == Appended(chats[c], Question(q), 0)
  <2>1. Store(call, end) /\ UNCHANGED ran /\ call.op = "handover"
    BY <1>7 DEF ServeHandover
  <2>2. "none" \in Confirmations /\ q \in Turns /\ Question(q) \in Message
    BY <1>2, <2>1, MessagesTyped DEF Confirmations
  <2>3. /\ app1 \in ChatType /\ app1.state = "live"
        /\ \A i \in DOMAIN app1.msgs : app1.msgs[i] = Question(q) \/ \E j \in DOMAIN chats[c].msgs : app1.msgs[i] = chats[c].msgs[j]
    BY <1>2, <1>7, <2>2, AppendedTyped
  <2>4. end = chats[c] \/ end = app1
    BY DEF HandedOver
  <2> HIDE DEF end, app1
  <2>5. \A i \in DOMAIN end.msgs :
          \/ ~Asks(end.msgs[i])
          \/ \E j \in DOMAIN chats[c].msgs : end.msgs[i] = chats[c].msgs[j]
          \/ end.msgs[i] = Answer(q, call.conf) /\ call.op \in {"turn", "answer"}
    BY <1>3, <2>3, <2>4
  <2>6. end \in ChatType /\ end.state = "live"
    BY <1>2, <1>7, <2>3, <2>4
  <2> QED
    BY <1>1, <1>7, <2>1, <2>5, <2>6
<1>8. CASE ServeMeta(call) /\ Live(c)
  <2> DEFINE end == [chats[c] EXCEPT !.rev = @ + 1]
  <2>1. end \in ChatType /\ end.msgs = chats[c].msgs /\ end.state = "live"
    BY <1>2, <1>8 DEF ChatType
  <2>2. Store(call, end) /\ UNCHANGED ran
    BY <1>8 DEF ServeMeta
  <2> HIDE DEF end
  <2>3. \A i \in DOMAIN end.msgs :
          \/ ~Asks(end.msgs[i])
          \/ \E j \in DOMAIN chats[c].msgs : end.msgs[i] = chats[c].msgs[j]
          \/ end.msgs[i] = Answer(q, call.conf) /\ call.op \in {"turn", "answer"}
    BY <2>1
  <2> QED
    BY <1>1, <1>8, <2>1, <2>2, <2>3
<1>9. CASE Refuse(call)
  BY <1>9, RefuseCalm
<1> QED
  BY <1>4, <1>5, <1>6, <1>7, <1>8, <1>9 DEF ServeDelete, ServeHandover, ServeMeta

(* An approval claims open placeholders; nothing else of a chat changes. *)
LEMMA ClaimedPanels ==
    ASSUME NEW chat \in ChatType, NEW q
    PROVE  /\ DOMAIN Claimed(chat, q).msgs = DOMAIN chat.msgs
           /\ Claimed(chat, q).state = chat.state
           /\ \A i \in DOMAIN chat.msgs :
                 /\ Claimed(chat, q).msgs[i].turn = chat.msgs[i].turn
                 /\ Asks(Claimed(chat, q).msgs[i]) <=> Asks(chat.msgs[i])
                 /\ Claimed(chat, q).msgs[i].conf = "open" => chat.msgs[i].conf = "open" /\ i \notin Tokens(chat, q)
                 /\ Claimed(chat, q).msgs[i].conf = "none" <=> chat.msgs[i].conf = "none"
<1>1. /\ Claimed(chat, q).msgs = [i \in DOMAIN chat.msgs |->
           IF i \in Tokens(chat, q) /\ chat.msgs[i].conf = "open"
           THEN [chat.msgs[i] EXCEPT !.conf = "claimed"] ELSE chat.msgs[i]]
      /\ Claimed(chat, q).state = chat.state
  BY DEF Claimed, ChatType
<1>2. \A i \in DOMAIN chat.msgs : chat.msgs[i] \in Message
  <2>1. chat.msgs \in Seq(Message)
    BY DEF ChatType
  <2> QED
    BY <2>1, LenProperties, ElementOfSeq
<1>3. \A m \in Message : [m EXCEPT !.conf = "claimed"].conf = "claimed" /\ [m EXCEPT !.conf = "claimed"].turn = m.turn
  BY DEF Message
<1> QED
  BY <1>1, <1>2, <1>3 DEF Asks

LEMMA ApprovalCalm ==
    ASSUME PagesCalm, ChatsQuiet, NEW call \in Pending, UNCHANGED <<app, alone>>, ServeConfirm(call)
    PROVE  Calmly' /\ ChatsQuiet'
<1> DEFINE c == call.chat
           t == call.turn
           claim == IF Live(c) /\ call.index # 0 THEN Claim(chats[c], t) ELSE "none"
<1>1. call \in calls /\ call \in Call /\ t \in Turns /\ call.index \in {0, 1} /\ c \in Chats \cup {NoChat} /\ call.op = "confirm"
  <2>1. call \in calls /\ CallOK(call, written) /\ FormOK(call) /\ call.op = "confirm"
    BY DEF Pending, PagesCalm, PagesOK, CallsOK, ConfirmsOK, ServeConfirm
  <2> QED
    BY <2>1 DEF CallOK, FormOK, Call
<1>2. CASE claim = "already"
  BY <1>2, RefuseCalm DEF ServeConfirm
<1>3. ASSUME claim # "already"
      PROVE  /\ chats' = IF claim = "ok" THEN [chats EXCEPT ![c] = Claimed(chats[c], t)] ELSE chats
             /\ ran' = [ran EXCEPT ![<<c, t>>] = ran[<<c, t>>] + call.index]
             /\ Reply(call, "ok", Nothing)
             /\ UNCHANGED <<asked, written>>
  BY <1>3 DEF ServeConfirm
<1>4. ran \in [(Chats \cup {NoChat}) \X Turns -> Nat] /\ <<c, t>> \in (Chats \cup {NoChat}) \X Turns
  BY <1>1 DEF PagesCalm, PagesOK, ServerTyped
<1>5. DOMAIN Nothing.msgs = {}
  BY DEF Nothing
<1>6. CASE call.index = 0
  <2>1. claim = "none"
    BY <1>6
  <2>2. ran[<<c, t>>] + call.index = ran[<<c, t>>]
    BY <1>4, <1>6
  <2>3. ran' = ran
    BY <1>3, <1>4, <2>1, <2>2
  <2>4. chats' = chats /\ Reply(call, "ok", Nothing) /\ UNCHANGED <<app, alone, asked, ran, written>>
    BY <1>3, <2>1, <2>3
  <2> QED
    BY <1>5, <2>4, ReadCalm
<1>7. CASE call.index = 1 /\ claim # "already"
  <2>1. ran' = [ran EXCEPT ![<<c, t>>] = ran[<<c, t>>] + 1]
    BY <1>3, <1>7
  <2>2. \A d \in Chats \cup {NoChat}, q \in Turns : (d # c \/ q # t) => ran'[<<d, q>>] = ran[<<d, q>>]
    <3>1. ASSUME NEW d \in Chats \cup {NoChat}, NEW q \in Turns, d # c \/ q # t
          PROVE  ran'[<<d, q>>] = ran[<<d, q>>]
      <4>1. <<d, q>> # <<c, t>> /\ <<d, q>> \in (Chats \cup {NoChat}) \X Turns
        BY <3>1
      <4> QED
        BY <1>4, <2>1, <4>1
    <3> QED
      BY <3>1
  <2>3. ran'[<<c, t>>] = ran[<<c, t>>] + 1
    BY <1>4, <2>1
  <2>4. /\ Reply(call, "ok", Nothing) /\ UNCHANGED <<asked, written>>
        /\ chats' = IF claim = "ok" THEN [chats EXCEPT ![c] = Claimed(chats[c], t)] ELSE chats
    BY <1>3, <1>7
  <2>5. claim = "ok" \/ claim = "none"
    BY <1>7 DEF Claim
  <2>6. claim = "ok" => Live(c) /\ \E i \in Tokens(chats[c], t) : chats[c].msgs[i].conf = "open"
    <3>1. SUFFICES ASSUME claim = "ok" PROVE Live(c) /\ \E i \in Tokens(chats[c], t) : chats[c].msgs[i].conf = "open"
      OBVIOUS
    <3>2. Live(c) /\ Claim(chats[c], t) = "ok" /\ c \in Chats /\ chats[c] \in ChatType
      BY <3>1 DEF Live, PagesCalm, PagesOK, ServerTyped
    <3> DEFINE S == Tokens(chats[c], t)
               i == CHOOSE j \in S : \A k \in S : k <= j
    <3>3. S # {} /\ chats[c].msgs[i].conf = "open"
      BY <3>2 DEF Claim
    <3>4. i \in S
      <4>1. chats[c].msgs \in Seq(Message)
        BY <3>2 DEF ChatType
      <4>2. S \in SUBSET (1..Len(chats[c].msgs)) /\ Len(chats[c].msgs) \in Nat
        BY <4>1, LenProperties DEF Tokens
      <4> HIDE DEF S
      <4> QED
        BY <3>3, <4>2, LastPosition
    <3> QED
      BY <3>2, <3>3, <3>4
  <2>7. claim = "none" /\ c \in Chats => Tokens(chats[c], t) = {}
    <3>1. CASE Live(c)
      BY <1>7, <3>1 DEF Claim
    <3>2. CASE ~Live(c) /\ c \in Chats
      <4>1. Recorded(c) /\ chats[c].state # "live"
        BY <3>2 DEF Live, ChatsQuiet
      <4>2. DOMAIN chats[c].msgs = {}
        BY <4>1 DEF Recorded
      <4> QED
        BY <4>2 DEF Tokens
    <3> QED
      BY <3>1, <3>2
  <2> HIDE DEF claim
  <2>8. \A d \in Chats : d # c \/ claim = "none" => chats'[d] = chats[d]
    BY <2>4, <2>5 DEF PagesCalm, PagesOK, ServerTyped
  <2>9. claim = "ok" => c \in Chats /\ chats'[c] = Claimed(chats[c], t) /\ chats[c] \in ChatType
    BY <2>4, <2>6 DEF Live, PagesCalm, PagesOK, ServerTyped
  <2>10. ASSUME NEW d \in Chats
         PROVE  /\ DOMAIN chats'[d].msgs = DOMAIN chats[d].msgs
                /\ chats'[d].state = chats[d].state
                /\ \A i \in DOMAIN chats[d].msgs :
                     /\ chats'[d].msgs[i].turn = chats[d].msgs[i].turn
                     /\ Asks(chats'[d].msgs[i]) <=> Asks(chats[d].msgs[i])
                     /\ chats'[d].msgs[i].conf = "open" => chats[d].msgs[i].conf = "open"
                     /\ chats'[d].msgs[i].conf = "none" <=> chats[d].msgs[i].conf = "none"
                     /\ d = c /\ chats'[d].msgs[i].conf = "open" => i \notin Tokens(chats[d], t)
    <3>1. CASE d # c
      BY <2>8, <3>1
    <3>2. CASE d = c /\ claim = "none"
      <4>1. chats'[d] = chats[d] /\ Tokens(chats[d], t) = {}
        BY <2>7, <2>8, <3>2
      <4> QED
        BY <4>1
    <3>3. CASE d = c /\ claim = "ok"
      BY <2>9, <3>3, ClaimedPanels
    <3> QED
      BY <2>5, <3>1, <3>2, <3>3
  <2>11. ASSUME NEW d \in Chats
         PROVE  Recorded(d)'
    <3>1. Recorded(d)
      BY DEF ChatsQuiet
    <3>2. \A q : Tokens(chats'[d], q) = Tokens(chats[d], q)
      BY <2>10 DEF Tokens
    <3>3. chats'[d].state # "live" => chats'[d].msgs = <<>>
      <4>1. SUFFICES ASSUME chats'[d].state # "live" PROVE chats'[d].msgs = <<>>
        OBVIOUS
      <4>2. chats[d].state # "live" /\ chats[d].msgs = <<>>
        BY <2>10, <3>1, <4>1 DEF Recorded
      <4>3. d # c \/ claim = "none"
        BY <2>5, <2>6, <4>2 DEF Live
      <4> QED
        BY <2>8, <4>2, <4>3
    <3>4. ASSUME NEW i \in DOMAIN chats'[d].msgs, Asks(chats'[d].msgs[i])
          PROVE  /\ <<"token", d, chats'[d].msgs[i].turn>> \in written'
                 /\ chats'[d].msgs[i].conf = "open" => ran'[<<d, chats'[d].msgs[i].turn>>] = 0
      <4>1. /\ i \in DOMAIN chats[d].msgs /\ Asks(chats[d].msgs[i]) /\ chats'[d].msgs[i].turn = chats[d].msgs[i].turn
        BY <2>10, <3>4
      <4>2. <<"token", d, chats[d].msgs[i].turn>> \in written
        BY <3>1, <4>1 DEF Recorded
      <4>3. ASSUME chats'[d].msgs[i].conf = "open"
            PROVE  ran'[<<d, chats[d].msgs[i].turn>>] = 0
        <5>1. chats[d].msgs[i].conf = "open"
          BY <2>10, <4>1, <4>3
        <5>2. d = c => chats[d].msgs[i].turn # t
          BY <2>10, <4>1, <4>3, <5>1 DEF Tokens
        <5>3. ran[<<d, chats[d].msgs[i].turn>>] = 0
          BY <3>1, <4>1, <5>1 DEF Recorded
        <5>4. chats[d].msgs[i].turn \in Turns
          <6>1. chats[d].msgs \in Seq(Message)
            BY DEF PagesCalm, PagesOK, ServerTyped, ChatType
          <6>2. chats[d].msgs[i] \in Message
            BY <4>1, <6>1, LenProperties, ElementOfSeq
          <6> QED
            BY <6>2 DEF Message
        <5> QED
          BY <2>2, <5>2, <5>3, <5>4
      <4> QED
        BY <2>4, <4>1, <4>2, <4>3
    <3>5. ASSUME NEW q \in Turns, <<"token", d, q>> \in written', <<"replaced", d, q>> \notin written'
          PROVE  Tokens(chats'[d], q) # {} /\ ran'[<<d, q>>] <= 1
      <4>1. Tokens(chats[d], q) # {} /\ ran[<<d, q>>] <= 1
        BY <2>4, <3>1, <3>5 DEF Recorded
      <4>2. CASE d # c \/ q # t
        BY <2>2, <3>2, <4>1, <4>2
      <4>3. CASE d = c /\ q = t
        <5>1. claim = "ok"
          BY <2>5, <2>7, <4>1, <4>3
        <5>2. PICK i \in Tokens(chats[c], t) : chats[c].msgs[i].conf = "open"
          BY <2>6, <5>1
        <5>3. ran[<<c, t>>] = 0
          BY <3>1, <4>3, <5>2 DEF Recorded, Tokens, Asks
        <5>4. ran'[<<c, t>>] <= 1
          BY <2>3, <5>3
        <5> QED
          BY <3>2, <4>1, <4>3, <5>4
      <4> QED
        BY <4>2, <4>3
    <3> QED
      BY <3>3, <3>4, <3>5 DEF Recorded
  <2>12. ASSUME NEW q \in Turns
         PROVE  QuestionOK(q)'
    <3>1. QuestionOK(q) /\ PagesOK /\ UNCHANGED <<app, alone, asked>>
      BY <2>4 DEF PagesCalm, TurnsQuiet
    <3>2. ASSUME Still(q)
          PROVE  /\ ServerStill(q)'
                 /\ \A i \in DOMAIN Nothing.msgs : Nothing.msgs[i].turn = q => ~Asks(Nothing.msgs[i])
      <4>1. ServerStill(q) /\ CallStill(call, q)
        BY <1>1, <3>2 DEF Still, CallsStill
      <4>2. q # t
        BY <1>1, <1>7, <4>1 DEF CallStill
      <4>3. \A d \in Chats \cup {NoChat} : ran'[<<d, q>>] = 0
        BY <2>2, <4>1, <4>2 DEF ServerStill
      <4>4. \A d \in Chats : \A i \in DOMAIN chats'[d].msgs : chats'[d].msgs[i].turn = q => ~Asks(chats'[d].msgs[i])
        BY <2>10, <4>1 DEF ServerStill
      <4> QED
        BY <1>5, <2>4, <4>1, <4>3, <4>4 DEF ServerStill
    <3> QED
      BY <2>4, <3>1, <3>2, ReplyCalm
  <2>13. PagesQuiet' /\ ConfirmsOK'
    BY <2>4, ReplyForms
  <2> QED
    BY <2>11, <2>12, <2>13 DEF Calmly, ChatsQuiet, TurnsQuiet
<1> QED
  BY <1>1, <1>2, <1>6, <1>7

LEMMA ServerStepCalm ==
    ASSUME PagesCalm, ChatsQuiet, NEW p, NEW op, Server(p, op)
    PROVE  Calmly' /\ ChatsQuiet'
<1>1. PICK call \in Pending :
        \/ ServeLoad(call) \/ ServeList(call) \/ ServeCreate(call) \/ ServeDelete(call)
        \/ ServeTurn(call) \/ ServeMessage(call) \/ ServeRegenerate(call)
        \/ ServeConfirm(call) \/ ServeHandover(call) \/ ServeMeta(call)
  BY DEF Server, Serve
<1>2. UNCHANGED <<app, alone>>
  BY DEF Server, pages
<1> QED
  BY <1>1, <1>2, ReadersCalm, WritersCalm, ApprovalCalm

-----------------------------------------------------------------------------
(* A request or its answer is lost: who held a placeholder no longer does, or  *)
(* the request the page has given up goes on holding it.                      *)
LostAs(call, N) ==
    /\ calls' = (calls \ {call}) \cup N
    /\ call.state \in {"sent", "ok", "orphan"}
    /\ \A x \in N : /\ x.page = call.page /\ x.op = call.op /\ x.turn = call.turn
                    /\ x.conf = call.conf /\ x.index = call.index
                    /\ x.state \in {"refused", "orphan"}
                    /\ DOMAIN x.got.msgs = {} \/ x.got = call.got
                    /\ x.state = "orphan" => /\ call.state = "sent" /\ call.page \in AppPages
                                             /\ call.op \in {"turn", "question", "answer"}
    /\ \A x, y \in N : x.state = y.state => x = y
    /\ IF call.state = "orphan" THEN N = {} ELSE \E x \in N : x.state = "refused"

LEMMA LostStill ==
    ASSUME PagesCalm, NEW call \in calls, NEW N, LostAs(call, N), UNCHANGED <<chats, asked, ran, written, app, alone>>,
           NEW q \in Turns, Still(q), CallHolds(call, q) => \E x \in N : CallHolds(x, q)
    PROVE  Still(q)'
<1>1. /\ calls' = (calls \ {call}) \cup N
      /\ call.state # "orphan" => \E x \in N :
            /\ x.page = call.page /\ x.op = call.op /\ x.turn = call.turn /\ x.conf = call.conf /\ x.state = "refused"
  BY DEF LostAs
<1>2. CallStill(call, q) /\ FormOK(call)
  BY DEF Still, CallsStill, PagesCalm, ConfirmsOK
<1>3. ServerStill(q)'
  BY DEF Still, ServerStill
<1>4. ASSUME NEW x \in N
      PROVE  CallStill(x, q)
  <2>1. /\ x.page = call.page /\ x.op = call.op /\ x.turn = call.turn
        /\ x.conf = call.conf /\ x.index = call.index
        /\ x.state \in {"refused", "orphan"}
        /\ DOMAIN x.got.msgs = {} \/ x.got = call.got
        /\ x.state = "orphan" => /\ call.state = "sent" /\ call.page \in AppPages
                                 /\ call.op \in {"turn", "question", "answer"}
    BY DEF LostAs
  <2>2. \A i \in DOMAIN x.got.msgs : x.got.msgs[i].turn = q => ~Asks(x.got.msgs[i])
    BY <1>2, <2>1 DEF CallStill
  <2>3. Asks(x) = Asks(call)
    BY <2>1 DEF Asks
  <2>4. ASSUME x.turn = q, x.op \in {"question", "answer"}
        PROVE  ~Asks(x)
    <3>1. SUFFICES ASSUME Asks(call) PROVE FALSE
      BY <2>3
    <3>2. call.page \notin AppPages
      BY <1>2, <2>1, <2>4, <3>1, PagesAssumption DEF FormOK
    <3>3. \A y \in N : y.state = "refused" /\ y.op = call.op
      BY <3>2 DEF LostAs
    <3>4. ~CallHolds(call, q)
      BY <2>1, <2>4, <3>3 DEF CallHolds
    <3>5. call.state \in {"sent", "ok"}
      BY DEF LostAs
    <3> QED
      BY <1>2, <2>1, <2>4, <3>1, <3>4, <3>5 DEF CallStill, CallHolds
  <2> QED
    BY <1>2, <2>1, <2>2, <2>3, <2>4 DEF CallStill
<1>5. CallsStill(q)'
  BY <1>1, <1>4 DEF Still, CallsStill
<1>6. ASSUME NEW p \in AppPages
      PROVE  AppStill(p, app[p], q, calls')
  <2>1. AppStill(p, app[p], q, calls)
    BY DEF Still, PagesStill
  <2>2. (\E y \in calls : y.page = p /\ y.op = "turn" /\ y.turn = q /\ y.state # "orphan") =>
            \E y \in calls' : y.page = p /\ y.op = "turn" /\ y.turn = q /\ y.state # "orphan"
    BY <1>1
  <2> QED
    BY <2>1, <2>2 DEF AppStill
<1>7. ASSUME NEW s \in StandalonePages
      PROVE  AloneStill(s, alone[s], q, calls')
  <2>1. AloneStill(s, alone[s], q, calls)
    BY DEF Still, PagesStill
  <2>2. (\E y \in calls : /\ y.page = s /\ y.op \in {"question", "answer"} /\ y.turn = q
                          /\ y.conf = "open" /\ y.state # "orphan") =>
            \E y \in calls' : /\ y.page = s /\ y.op \in {"question", "answer"} /\ y.turn = q
                              /\ y.conf = "open" /\ y.state # "orphan"
    BY <1>1
  <2> QED
    BY <2>1, <2>2 DEF AloneStill
<1>8. PagesStill(q)'
  BY <1>6, <1>7 DEF PagesStill
<1> QED
  BY <1>3, <1>5, <1>8 DEF Still

LEMMA LostCalm ==
    ASSUME PagesCalm, ChatsQuiet, NEW call \in calls, NEW N, LostAs(call, N),
           UNCHANGED <<chats, asked, ran, written, app, alone>>
    PROVE  Calmly' /\ ChatsQuiet'
<1>1. ChatsQuiet'
  BY DEF ChatsQuiet, Recorded
<1>2. calls' = (calls \ {call}) \cup N
  BY DEF LostAs
<1>3. ASSUME NEW q \in Turns
      PROVE  QuestionOK(q)'
  <2>1. QuestionOK(q) /\ FormOK(call) /\ HoldingPages(q)' = HoldingPages(q)
    BY DEF PagesCalm, TurnsQuiet, ConfirmsOK, HoldingPages
  <2>2. ASSUME NEW x \in N, CallHolds(x, q)
        PROVE  CallHolds(call, q) /\ x.state = "orphan"
    BY <2>2 DEF LostAs, CallHolds, Asks
  <2>3. CASE CallHolds(call, q) /\ ~\E x \in N : CallHolds(x, q)
    <3>1. HoldingCalls(q) \subseteq {call} /\ HoldingPages(q) = {} /\ Held(q)
      BY <2>1, <2>3 DEF QuestionOK, OneHolder, Held, HoldingCalls
    <3>2. HoldingCalls(q)' = {}
      BY <1>2, <2>3, <3>1 DEF HoldingCalls
    <3> QED
      BY <2>1, <3>1, <3>2, LetsGo
  <2>4. CASE \E x \in N : CallHolds(x, q)
    <3>1. PICK x \in N : CallHolds(x, q)
      BY <2>4
    <3>2. CallHolds(call, q) /\ HoldingCalls(q) \subseteq {call} /\ HoldingPages(q) = {} /\ Held(q)
      BY <2>1, <2>2, <3>1 DEF QuestionOK, OneHolder, Held, HoldingCalls
    <3>3. HoldingCalls(q)' \subseteq {x}
      <4>1. \A y \in N : CallHolds(y, q) => y = x
        BY <2>2, <3>1 DEF LostAs
      <4> QED
        BY <1>2, <3>2, <4>1 DEF HoldingCalls
    <3>4. Still(q) => Still(q)'
      BY <3>1, LostStill
    <3> QED
      BY <2>1, <3>2, <3>3, <3>4, HandsOn
  <2>5. CASE ~CallHolds(call, q)
    <3>1. HoldingCalls(q)' \subseteq HoldingCalls(q)
      BY <1>2, <2>2, <2>5 DEF HoldingCalls
    <3>2. Still(q) => Still(q)'
      BY <2>5, LostStill
    <3> QED
      BY <2>1, <3>1, <3>2, NobodyNew
  <2> QED
    BY <2>3, <2>4, <2>5
<1>4. ASSUME NEW p \in AppPages
      PROVE  RegenerationOK(p)'
  <2>1. RegenerationOK(p)
    BY DEF PagesCalm, PagesQuiet
  <2>2. ASSUME NEW x \in Waiting(p, "regenerate")', x \in N
        PROVE  call \in Waiting(p, "regenerate") /\ x.state = "refused"
    BY <2>2 DEF Waiting, LostAs
  <2>3. \A x \in Waiting(p, "regenerate")' : x \in N \/ (x \in Waiting(p, "regenerate") /\ x # call)
    BY <1>2 DEF Waiting
  <2>4. \A x, y \in N : (x.state = "refused" /\ y.state = "refused") => x = y
    BY DEF LostAs
  <2>5. ASSUME NEW x \in Waiting(p, "regenerate")', NEW y \in Waiting(p, "regenerate")'
        PROVE  x = y /\ Unbegun(app[p])
    BY <2>1, <2>2, <2>3, <2>4 DEF RegenerationOK
  <2> QED
    BY <2>5 DEF RegenerationOK, Waiting
<1>5. ConfirmsOK'
  <2>1. ASSUME NEW x \in N
        PROVE  FormOK(x)
    <3>1. FormOK(call) /\ x.page = call.page /\ x.op = call.op /\ x.conf = call.conf /\ x.index = call.index
      BY DEF LostAs, PagesCalm, ConfirmsOK
    <3> QED
      BY <3>1 DEF FormOK, Asks
  <2> QED
    BY <1>2, <2>1 DEF ConfirmsOK, PagesCalm
<1> QED
  BY <1>1, <1>3, <1>4, <1>5 DEF Calmly, TurnsQuiet, PagesQuiet

LEMMA NetworkCalm ==
    ASSUME PagesCalm, ChatsQuiet, Network
    PROVE  Calmly' /\ ChatsQuiet'
<1>1. UNCHANGED <<chats, asked, ran, written, app, alone>>
  BY DEF Network, Lose, pages
<1>2. PICK call \in calls :
          \/ /\ call.state \in {"sent", "ok"}
             /\ calls' = (calls \ {call}) \cup {[call EXCEPT !.state = "refused", !.got = Nothing]}
          \/ call.state = "orphan" /\ calls' = calls \ {call}
          \/ /\ call.state = "sent"
             /\ call.op \in {"turn", "question", "answer"} /\ call.page \in AppPages
             /\ calls' = (calls \ {call}) \cup {[call EXCEPT !.state = "refused"], [call EXCEPT !.state = "orphan"]}
  BY DEF Network, Lose
<1>3. call \in Call
  BY DEF PagesCalm, PagesOK, CallsOK, CallOK
<1>4. \E N : LostAs(call, N)
  <2>1. CASE call.state \in {"sent", "ok"} /\ calls' = (calls \ {call}) \cup {[call EXCEPT !.state = "refused", !.got = Nothing]}
    <3> DEFINE x == [call EXCEPT !.state = "refused", !.got = Nothing]
    <3>1. /\ x.page = call.page /\ x.op = call.op /\ x.turn = call.turn
          /\ x.conf = call.conf /\ x.index = call.index /\ x.state = "refused" /\ DOMAIN x.got.msgs = {}
      BY <1>3, AnswerFields DEF Nothing
    <3>2. calls' = (calls \ {call}) \cup {x}
      BY <2>1
    <3> HIDE DEF x
    <3>3. LostAs(call, {x})
      BY <2>1, <3>1, <3>2 DEF LostAs
    <3> QED
      BY <3>3
  <2>2. CASE call.state = "orphan" /\ calls' = calls \ {call}
    <3>1. LostAs(call, {})
      BY <2>2 DEF LostAs
    <3> QED
      BY <3>1
  <2>3. CASE /\ call.state = "sent"
             /\ call.op \in {"turn", "question", "answer"} /\ call.page \in AppPages
             /\ calls' = (calls \ {call}) \cup {[call EXCEPT !.state = "refused"], [call EXCEPT !.state = "orphan"]}
    <3> DEFINE x == [call EXCEPT !.state = "refused"]
               y == [call EXCEPT !.state = "orphan"]
    <3>1. /\ x.page = call.page /\ x.op = call.op /\ x.turn = call.turn
          /\ x.conf = call.conf /\ x.index = call.index /\ x.state = "refused" /\ x.got = call.got
          /\ y.page = call.page /\ y.op = call.op /\ y.turn = call.turn
          /\ y.conf = call.conf /\ y.index = call.index /\ y.state = "orphan" /\ y.got = call.got
      BY <1>3 DEF Call
    <3>2. calls' = (calls \ {call}) \cup {x, y}
      BY <2>3
    <3> HIDE DEF x, y
    <3>3. LostAs(call, {x, y})
      BY <2>3, <3>1, <3>2 DEF LostAs
    <3> QED
      BY <3>3
  <2> QED
    BY <1>2, <2>1, <2>2, <2>3
<1> QED
  BY <1>1, <1>4, LostCalm

(* A job of the background queue stores an answer without a placeholder. *)
LEMMA JobDoneCalm ==
    ASSUME PagesCalm, ChatsQuiet, JobDone
    PROVE  Calmly' /\ ChatsQuiet'
<1>1. PICK job \in jobs :
        /\ chats' = IF Live(job[1]) THEN [chats EXCEPT ![job[1]] = Appended(@, Answer(job[2], "none"), 0)] ELSE chats
        /\ written' = written \cup Noted(job[1], chats[job[1]], chats'[job[1]])
        /\ UNCHANGED <<calls, asked, ran, app, alone>>
  BY DEF JobDone, FinishJob, pages
<1> DEFINE c == job[1]
           m == Answer(job[2], "none")
<1>2. c \in Chats /\ job[2] \in Turns /\ chats[c] \in ChatType /\ PagesOK
  BY DEF PagesCalm, PagesOK, ServerTyped
<1>3. m \in Message /\ ~Asks(m)
  BY <1>2, MessagesTyped DEF Confirmations, Asks, Answer
<1>4. PICK chat \in ChatType :
        /\ chats' = [chats EXCEPT ![c] = chat] /\ written' = written \cup Noted(c, chats[c], chat)
        /\ chat.state = chats[c].state /\ (chat.state = "live" \/ chat = chats[c])
        /\ \A i \in DOMAIN chat.msgs : ~Asks(chat.msgs[i]) \/ \E j \in DOMAIN chats[c].msgs : chat.msgs[i] = chats[c].msgs[j]
  <2>1. CASE Live(c)
    <3> DEFINE end == Appended(chats[c], m, 0)
    <3>1. /\ end \in ChatType /\ end.state = chats[c].state
          /\ \A i \in DOMAIN end.msgs : end.msgs[i] = m \/ \E j \in DOMAIN chats[c].msgs : end.msgs[i] = chats[c].msgs[j]
      <4> HIDE DEF c, m
      <4> QED
        BY <1>2, <1>3, AppendedTyped
    <3>2. chats' = [chats EXCEPT ![c] = end]
      BY <1>1, <2>1
    <3>3. chats'[c] = end /\ end.state = "live"
      BY <1>2, <2>1, <3>1, <3>2 DEF PagesOK, ServerTyped, Live
    <3> HIDE DEF end
    <3> QED
      BY <1>1, <1>3, <3>1, <3>2, <3>3
  <2>2. CASE ~Live(c)
    <3>1. chats' = chats /\ chats = [chats EXCEPT ![c] = chats[c]]
      BY <1>1, <1>2, <2>2 DEF PagesOK, ServerTyped
    <3> QED
      BY <1>1, <1>2, <3>1
  <2> QED
    BY <2>1, <2>2
<1> HIDE DEF c, m
<1>5. Stored(c, chat)
  BY <1>1, <1>4 DEF Stored
<1>6. ChatsQuiet'
  <2>1. chat.state # "live" => chat.msgs = <<>>
    BY <1>2, <1>4 DEF ChatsQuiet, Recorded
  <2>2. Fresh(c, chat)
    BY <1>4 DEF Fresh
  <2> QED
    BY <1>2, <1>5, <2>1, <2>2, StoredRecorded
<1>7. ASSUME NEW q \in Turns
      PROVE  QuestionOK(q)'
  <2>1. QuestionOK(q) /\ HoldingPages(q)' = HoldingPages(q) /\ HoldingCalls(q)' = HoldingCalls(q)
    BY <1>1 DEF PagesCalm, TurnsQuiet, HoldingPages, HoldingCalls
  <2>2. ASSUME Still(q)
        PROVE  Still(q)'
    <3>1. ServerStill(q)
      BY <2>2 DEF Still
    <3>2. \A i \in DOMAIN chat.msgs : chat.msgs[i].turn = q => ~Asks(chat.msgs[i])
      BY <1>2, <1>4, <3>1 DEF ServerStill
    <3>3. ServerStill(q)'
      BY <1>2, <1>5, <3>1, <3>2, StoredStill
    <3>4. CallsStill(q)' /\ PagesStill(q)'
      BY <1>1, <2>2 DEF Still, CallsStill, PagesStill
    <3> QED
      BY <3>3, <3>4 DEF Still
  <2> QED
    BY <1>1, <2>1, <2>2, NobodyNew
<1>8. PagesQuiet' /\ ConfirmsOK'
  BY <1>1 DEF PagesCalm, PagesQuiet, ConfirmsOK, RegenerationOK, Waiting
<1> QED
  BY <1>6, <1>7, <1>8 DEF Calmly, TurnsQuiet

-----------------------------------------------------------------------------
(* In the beginning nothing is asked, and nobody holds a placeholder.          *)
LEMMA QuietBegins == Init => Quiet
<1> SUFFICES ASSUME NEW session \in Sessions,
                    chats = [c \in Chats |->
                       IF c = CHOOSE d \in session.chats : TRUE
                       THEN TurnAppended(NewChat("live"), 1, "none")
                       ELSE NewChat(IF c \in session.chats THEN "unborn" ELSE "deleted")],
                    written = UNION {Noted(c, NewChat("live"), chats[c]) : c \in Chats},
                    asked = 1, InitCalls(session), InitApp(session), InitStandalone(session)
             PROVE  Quiet
  BY DEF Init
<1>1. 1 \in Turns /\ calls = {}
  BY ChatAssumption DEF Turns, InitCalls
<1> DEFINE full == TurnAppended(NewChat("live"), 1, "none")
<1>2. full \in ChatType /\ full.state = "live" /\ \A i \in DOMAIN full.msgs : ~Asks(full.msgs[i])
  <2>1. NewChat("live") \in ChatType /\ NewChat("live").msgs = <<>> /\ NewChat("live").state = "live"
    BY ChatsTyped DEF NewChat
  <2>2. Question(1) \in Message /\ Answer(1, "none") \in Message /\ 0 \in Nat
    BY <1>1, MessagesTyped DEF Confirmations
  <2>3. ~Asks(Question(1)) /\ ~Asks(Answer(1, "none")) /\ DOMAIN NewChat("live").msgs = {}
    BY <2>1 DEF Question, Answer, Asks
  <2> DEFINE mid == Appended(NewChat("live"), Question(1), 0)
  <2>4. /\ mid \in ChatType /\ mid.state = "live"
        /\ \A i \in DOMAIN mid.msgs : mid.msgs[i] = Question(1) \/ \E j \in DOMAIN NewChat("live").msgs : mid.msgs[i] = NewChat("live").msgs[j]
    BY <2>1, <2>2, AppendedTyped
  <2> HIDE DEF mid
  <2>5. full = Appended(mid, Answer(1, "none"), 0)
    BY DEF TurnAppended, mid
  <2> HIDE DEF full
  <2>6. /\ full \in ChatType /\ full.state = "live"
        /\ \A i \in DOMAIN full.msgs : full.msgs[i] = Answer(1, "none") \/ \E j \in DOMAIN mid.msgs : full.msgs[i] = mid.msgs[j]
    BY <2>2, <2>4, <2>5, AppendedTyped
  <2> QED
    BY <2>3, <2>4, <2>6
<1> HIDE DEF full
<1>3. ASSUME NEW c \in Chats
      PROVE  /\ chats[c] \in ChatType /\ (chats[c].state # "live" => chats[c].msgs = <<>>)
             /\ \A i \in DOMAIN chats[c].msgs : ~Asks(chats[c].msgs[i])
  <2>1. chats[c] = full \/ \E state \in {"unborn", "deleted"} : chats[c] = NewChat(state)
    BY DEF full
  <2>2. CASE chats[c] = full
    BY <1>2, <2>2
  <2>3. CASE \E state \in {"unborn", "deleted"} : chats[c] = NewChat(state)
    <3>1. chats[c] \in ChatType /\ chats[c].msgs = <<>>
      BY <2>3, ChatsTyped
    <3>2. DOMAIN chats[c].msgs = {}
      BY <3>1
    <3> QED
      BY <3>1, <3>2
  <2> QED
    BY <2>1, <2>2, <2>3
<1>4. \A c \in Chats, q \in Turns : <<"token", c, q>> \notin written
  <2>1. SUFFICES ASSUME NEW c \in Chats, NEW q \in Turns, NEW d \in Chats,
                        <<"token", c, q>> \in Noted(d, NewChat("live"), chats[d])
                 PROVE  FALSE
    OBVIOUS
  <2>2. chats[d] \in ChatType
    BY <1>3
  <2>3. \E i \in DOMAIN chats[d].msgs : Unresolved(chats[d].msgs[i]) /\ chats[d].msgs[i].turn = q
    BY <2>1, <2>2, TokenNoted
  <2> QED
    BY <1>3, <2>3 DEF Unresolved, Asks
<1>5. \A c \in Chats \cup {NoChat}, q \in Turns : ran[<<c, q>>] = 0
  BY DEF InitCalls
<1>6. \A p \in AppPages : DOMAIN app[p].shown = {} /\ app[p].phase \in {"new", "closed"}
  <2>1. ASSUME NEW phase \in {"new", "closed"}
        PROVE  [NewAppPage EXCEPT !.phase = phase].phase = phase /\ DOMAIN [NewAppPage EXCEPT !.phase = phase].shown = {}
    BY DEF NewAppPage
  <2>2. \A p \in AppPages : \E phase \in {"new", "closed"} : app[p] = [NewAppPage EXCEPT !.phase = phase]
    BY DEF InitApp
  <2> QED
    BY <2>1, <2>2
<1>7. \A s \in StandalonePages : DOMAIN alone[s].shown = {}
  <2>1. ASSUME NEW phase \in {"new", "closed"}
        PROVE  DOMAIN [NewStandalonePage EXCEPT !.phase = phase].shown = {}
    BY DEF NewStandalonePage
  <2>2. \A s \in StandalonePages : \E phase \in {"new", "closed"} : alone[s] = [NewStandalonePage EXCEPT !.phase = phase]
    BY DEF InitStandalone
  <2> QED
    BY <2>1, <2>2
<1>8. ChatsQuiet
  BY <1>3, <1>4 DEF ChatsQuiet, Recorded
<1>9. ASSUME NEW q \in Turns
      PROVE  QuestionOK(q)
  <2>1. HoldingPages(q) = {} /\ HoldingCalls(q) = {}
    BY <1>1, <1>6, <1>7 DEF HoldingPages, HoldingCalls, AppHolds, AloneHolds
  <2>2. ServerStill(q)
    BY <1>3, <1>4, <1>5 DEF ServerStill
  <2>3. CallsStill(q) /\ PagesStill(q)
    BY <1>1, <1>6, <1>7 DEF CallsStill, PagesStill, AppStill, AloneStill
  <2> QED
    BY <2>1, <2>2, <2>3 DEF QuestionOK, OneHolder, Held, Still
<1>10. PagesQuiet /\ ConfirmsOK
  BY <1>1 DEF PagesQuiet, RegenerationOK, Waiting, ConfirmsOK
<1> QED
  BY <1>8, <1>9, <1>10 DEF Quiet, TurnsQuiet

LEMMA SameQuiet ==
    ASSUME Quiet, UNCHANGED vars
    PROVE  Quiet'
<1>1. UNCHANGED <<chats, calls, asked, ran, written, app, alone>>
  BY DEF vars, serverVars
<1>2. ChatsQuiet' /\ PagesQuiet' /\ ConfirmsOK'
  BY <1>1 DEF Quiet, ChatsQuiet, Recorded, PagesQuiet, RegenerationOK, Waiting, ConfirmsOK
<1>3. ASSUME NEW q \in Turns
      PROVE  QuestionOK(q)'
  <2>1. QuestionOK(q) /\ HoldingPages(q)' = HoldingPages(q) /\ HoldingCalls(q)' = HoldingCalls(q)
    BY <1>1 DEF Quiet, TurnsQuiet, HoldingPages, HoldingCalls
  <2>2. Still(q) => Still(q)'
    BY <1>1 DEF Still, ServerStill, CallsStill, PagesStill
  <2> QED
    BY <1>1, <2>1, <2>2, NobodyNew
<1> QED
  BY <1>2, <1>3 DEF Quiet, TurnsQuiet

LEMMA StepStaysQuiet ==
    ASSUME PagesOK, Quiet, [Next]_vars
    PROVE  Quiet'
<1>1. PagesCalm /\ ChatsQuiet
  BY DEF PagesCalm, Quiet
<1>2. ASSUME UNCHANGED <<chats, ran, written>>
      PROVE  ChatsQuiet'
  BY <1>1, <1>2 DEF ChatsQuiet, Recorded
<1>3. ASSUME NEW p \in AppPages, AppStep(p), UNCHANGED alone
      PROVE  Calmly' /\ ChatsQuiet'
  BY <1>1, <1>2, <1>3, AppStepCalm, AppLeavesChats
<1>4. ASSUME NEW s \in StandalonePages, StandaloneStep(s), UNCHANGED app
      PROVE  Calmly' /\ ChatsQuiet'
  BY <1>1, <1>2, <1>4, AloneStepCalm, StandaloneLeavesChats
<1>5. ASSUME NEW p \in Pages, NEW op \in Ops, Server(p, op)
      PROVE  Calmly' /\ ChatsQuiet'
  BY <1>1, <1>5, ServerStepCalm
<1>6. CASE JobDone \/ Network
  BY <1>1, <1>6, JobDoneCalm, NetworkCalm DEF Calmly, Quiet
<1>7. CASE UNCHANGED vars
  BY <1>7, SameQuiet
<1> QED
  BY <1>3, <1>4, <1>5, <1>6, <1>7 DEF Next, Calmly, Quiet

(* An action runs once, however many pages of both kinds approve its panel,    *)
(* whatever is lost, refused or served late (claimConfirmation(), saveTurn(),  *)
(* the disabled buttons of a panel), unless another answer has taken the place *)
(* of its placeholder.  The right to store a placeholder passes from the page  *)
(* that streams to one request and from there to the chat, and while it does   *)
(* no approval of its token has gone out; once it is stored, the claim of its  *)
(* chat lets one approval through.                                             *)
THEOREM ActionsRunOnce == Spec => []OneRunPerToken
<1>1. Init => PagesOK /\ Quiet
  BY PagesBegin, QuietBegins
<1>2. PagesOK /\ Quiet /\ [Next]_vars => PagesOK' /\ Quiet'
  BY PagesStepKeeps, StepStaysQuiet
<1>3. Quiet => OneRunPerToken
  BY Zenon DEF Quiet, ChatsQuiet, Recorded, OneRunPerToken
<1> QED
  BY <1>1, <1>2, <1>3, PTL DEF Spec
=============================================================================
