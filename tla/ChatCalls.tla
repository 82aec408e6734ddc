------------------------------ MODULE ChatCalls ------------------------------
(***************************************************************************)
(* The requests between the chat pages of one user and the server.  A      *)
(* request is sent, served in one step under the lock of its chat, and     *)
(* its answer reaches the page some time later; the request or its answer  *)
(* may be lost.  The browser gives up on a history write after 15 seconds  *)
(* and the server may serve it afterwards.                                 *)
(***************************************************************************)
EXTENDS ChatServer, FiniteSets

CONSTANTS
    AppPages,           \* pages of the app: one mountChat() each
    StandalonePages,    \* pages of standalone-chat.js
    NoChat,             \* a page that has no chat yet
    MaxLosses,          \* bound: requests and answers lost in a behaviour
    MaxEdits,           \* bound: regenerations, customizations and clicks in a chat list
    Sessions            \* bound: the pages a behaviour opens and its chats, losses and edits

Pages == AppPages \cup StandalonePages

\* A page is of one kind.
ASSUME PagesAssumption == AppPages \cap StandalonePages = {}

ASSUME SessionAssumption ==
    /\ MaxLosses \in Nat /\ MaxEdits \in Nat
    /\ Sessions \subseteq [pages: SUBSET Pages, chats: SUBSET Chats, losses: 0..MaxLosses, edits: 0..MaxEdits]

VARIABLES
    chats,      \* the stored chats
    calls,      \* requests sent, and answers their page has not seen
    asked,      \* number of questions asked so far
    jobs,       \* questions handed over to the background queue
    ran,        \* how often an approval that named a chat and a token ran the action
    losses,     \* requests and answers lost so far
    edits,      \* regenerations, customizations and clicks in a list so far
    written     \* history: the messages that were ever stored, and the tokens replaced

serverVars == <<chats, calls, asked, jobs, ran, losses, edits, written>>

\* What a write of chat c adds to the history.
Noted(c, old, new) ==
    {<<m.role, c, m.turn>> : m \in ToSet(new.msgs)}
    \cup {<<"token", c, m.turn>> : m \in {n \in ToSet(new.msgs) : Unresolved(n)}}
    \cup {<<"replaced", c, q>> : q \in {t \in Turns : Tokens(old, t) # {} /\ Tokens(new, t) = {}}}

(***************************************************************************)
(* What a page shows.                                                      *)
(*                                                                         *)
(* text: something was streamed.  done: the bubble is complete.  conf: the *)
(* confirmation panel of an answer; "waiting" for its placeholder to be    *)
(* stored, "running" the action, "stuck" when the placeholder could not be *)
(* stored.  rev: the token kept for the answer of a confirmation.  error:  *)
(* the bubble holds the text of a failure.                                 *)
(***************************************************************************)
Shown == [role: {"user", "assistant"}, turn: Turns, text: BOOLEAN, done: BOOLEAN, error: BOOLEAN,
          conf: {"none", "open", "waiting", "running", "stuck", "done"}, rev: Nat, token: BOOLEAN]

(* Slip: a claimed confirmation is shown as it is stored. *)
BubbleClaimed(m) == [role |-> m.role, turn |-> m.turn, text |-> TRUE, done |-> TRUE, error |-> FALSE,
                     conf |-> m.conf, rev |-> 0, token |-> TRUE]
Bubble(m) == [role |-> m.role, turn |-> m.turn, text |-> TRUE, done |-> TRUE, error |-> FALSE,
              conf |-> IF m.conf = "claimed" THEN "open" ELSE m.conf, rev |-> 0, token |-> TRUE]
Bubbles(msgs) == [i \in DOMAIN msgs |-> Bubble(msgs[i])]
Asking(q) == [Bubble(Question(q)) EXCEPT !.done = FALSE]
Answering(q) == [Bubble(Answer(q, "none")) EXCEPT !.text = FALSE, !.done = FALSE]

(***************************************************************************)
(* rev is the expected revision of a turn or a regeneration, and the       *)
(* revision token of an answer (an approval keeps it for its answer); next *)
(* and index say what a standalone page does afterwards.                   *)
(***************************************************************************)
Ops == {"load", "list", "create", "delete", "turn", "question", "answer", "regenerate",
        "confirm", "handover", "meta"}

Call == [page: Pages, op: Ops, chat: Chats \cup {NoChat}, turn: Turns \cup {0},
         conf: Confirmations, rev: Nat, index: Nat, next: BOOLEAN,
         state: {"sent", "ok", "refused", "orphan"},
         got: [chat: Chats \cup {NoChat}, rev: Nat, msgs: Seq(Message), listed: SUBSET Chats]]

Nothing == [chat |-> NoChat, rev |-> 0, msgs |-> <<>>, listed |-> {}]

Request(p, op, c) ==
    [page |-> p, op |-> op, chat |-> c, turn |-> 0, conf |-> "none", rev |-> 0, index |-> 0,
     next |-> FALSE, state |-> "sent", got |-> Nothing]

LoadOf(p, c) == Request(p, "load", c)
TurnOf(p, c, q, conf, rev) == [Request(p, "turn", c) EXCEPT !.turn = q, !.conf = conf, !.rev = rev]
QuestionOf(p, c, q) == [Request(p, "question", c) EXCEPT !.turn = q]
AnswerOf(p, c, q, conf, rev) == [Request(p, "answer", c) EXCEPT !.turn = q, !.conf = conf, !.rev = rev]
ConfirmOf(p, c, q, token, rev) ==
    [Request(p, "confirm", c) EXCEPT !.turn = q, !.index = IF token THEN 1 ELSE 0, !.rev = rev]

Waiting(p, op) == {call \in calls : call.page = p /\ call.op = op /\ call.state # "orphan"}
Arrived(p, op, state) == {call \in Waiting(p, op) : call.state = state}
Pending == {call \in calls : call.state \in {"sent", "orphan"}}

\* What the page puts in the place of calls it has dealt with.
Replace(old, new) == calls' = (calls \ old) \cup new

InitCalls(session) ==
    /\ calls = {} /\ jobs = {}
    /\ losses = MaxLosses - session.losses /\ edits = MaxEdits - session.edits
    /\ ran = [x \in (Chats \cup {NoChat}) \X Turns |-> 0]

(***************************************************************************)
(* The server.                                                             *)
(***************************************************************************)
\* The page of an orphan has given up: nobody waits for the answer.
Reply(call, state, got) ==
    calls' = (calls \ {call}) \cup
        (IF call.state = "orphan" THEN {} ELSE {[call EXCEPT !.state = state, !.got = got]})

Refuse(call) == Reply(call, "refused", Nothing) /\ UNCHANGED <<chats, asked, jobs, ran, losses, written>>

Store(call, chat) ==
    /\ chats' = [chats EXCEPT ![call.chat] = chat]
    /\ written' = written \cup Noted(call.chat, chats[call.chat], chat)
    /\ Reply(call, "ok", [Nothing EXCEPT !.chat = call.chat, !.rev = chat.rev])
    /\ UNCHANGED <<asked, losses>>

Live(c) == c \in Chats /\ chats[c].state = "live"

ServeLoad(call) ==
    /\ call.op = "load"
    /\ IF Live(call.chat)
       THEN Reply(call, "ok", [chat |-> call.chat, rev |-> chats[call.chat].rev,
                               msgs |-> chats[call.chat].msgs, listed |-> {}])
       ELSE Reply(call, "refused", Nothing)
    /\ UNCHANGED <<chats, asked, jobs, ran, losses, written>>

ServeList(call) ==
    /\ call.op = "list"
    /\ Reply(call, "ok", [Nothing EXCEPT !.listed = {c \in Chats : Live(c)}])
    /\ UNCHANGED <<chats, asked, jobs, ran, losses, written>>

\* A chat that is still empty is used again; otherwise the chat is new.
ServeCreate(call) ==
    /\ call.op = "create"
    /\ LET empty == {c \in Chats : Live(c) /\ chats[c].msgs = <<>>}
           free == IF empty # {} THEN empty ELSE {c \in Chats : chats[c].state = "unborn"}
       IN  IF free = {} THEN Refuse(call)
           ELSE \E c \in free :
                  LET chat == [chats[c] EXCEPT !.state = "live"]
                  IN  /\ chats' = [chats EXCEPT ![c] = chat]
                      /\ Reply(call, "ok", [Nothing EXCEPT !.chat = c, !.rev = chat.rev])
                      /\ UNCHANGED <<asked, jobs, ran, losses, written>>

ServeDelete(call) ==
    /\ call.op = "delete"
    /\ IF Live(call.chat)
       THEN Store(call, NewChat("deleted")) /\ UNCHANGED <<jobs, ran>>
       ELSE Refuse(call)

ServeTurn(call) ==
    /\ call.op = "turn"
    /\ IF Live(call.chat) /\ TurnFits(chats[call.chat], call.rev)
       THEN Store(call, TurnAppended(chats[call.chat], call.turn, call.conf)) /\ UNCHANGED <<jobs, ran>>
       ELSE Refuse(call)

ServeMessage(call) ==
    /\ call.op \in {"question", "answer"}
    /\ LET m == IF call.op = "question" THEN Question(call.turn) ELSE Answer(call.turn, call.conf)
       IN  IF Live(call.chat) /\ MarkFits(chats[call.chat], call.rev)
           THEN Store(call, Appended(chats[call.chat], m, call.rev)) /\ UNCHANGED <<jobs, ran>>
           ELSE Refuse(call)

\* chatRegenerate(): what the model then says is up to the stream of the page.
ServeRegenerate(call) ==
    /\ call.op = "regenerate"
    /\ IF Live(call.chat) /\ MayBegin(chats[call.chat], call.index, call.rev)
       THEN LET chat == Begun(chats[call.chat], call.index)
            IN  /\ chats' = [chats EXCEPT ![call.chat] = chat]
                /\ Reply(call, "ok", [Nothing EXCEPT !.chat = call.chat, !.rev = chat.rev,
                        !.msgs = <<chat.msgs[call.index]>>])
                /\ UNCHANGED <<asked, jobs, ran, losses, written>>
       ELSE Refuse(call)

\* confirmTool(): index = 0 stands for a confirmation without a token.
ServeConfirm(call) ==
    /\ call.op = "confirm"
    /\ LET claim == IF Live(call.chat) /\ call.index # 0 THEN Claim(chats[call.chat], call.turn) ELSE "none"
       IN  IF claim = "already" THEN Refuse(call)
           ELSE /\ chats' = IF claim = "ok" THEN [chats EXCEPT ![call.chat] = Claimed(@, call.turn)] ELSE chats
                /\ ran' = [ran EXCEPT ![<<call.chat, call.turn>>] = @ + call.index]
                /\ Reply(call, "ok", Nothing)
                /\ UNCHANGED <<asked, jobs, losses, written>>

\* backgroundChat(): the queue itself is module BackgroundChat.
ServeHandover(call) ==
    /\ call.op = "handover"
    /\ IF Live(call.chat)
       THEN /\ Store(call, HandedOver(chats[call.chat], call.turn))
            /\ jobs' = jobs \cup {<<call.chat, call.turn>>}
            /\ UNCHANGED ran
       ELSE Refuse(call)

\* The answer of a job is appended without a token.
FinishJob ==
    \E job \in jobs :
        LET c == job[1]
        IN  /\ jobs' = jobs \ {job}
            /\ chats' = IF Live(c) THEN [chats EXCEPT ![c] = Appended(@, Answer(job[2], "none"), 0)] ELSE chats
            /\ written' = written \cup Noted(c, chats[c], chats'[c])
            /\ UNCHANGED <<calls, asked, ran, losses, edits>>

\* setMeta() and setTitle(): only the revision matters here.
ServeMeta(call) ==
    /\ call.op = "meta"
    /\ IF Live(call.chat)
       THEN Store(call, [chats[call.chat] EXCEPT !.rev = @ + 1]) /\ UNCHANGED <<jobs, ran>>
       ELSE Refuse(call)

Serve(p, op) ==
    /\ UNCHANGED edits
    /\ \E call \in Pending :
        /\ call.page = p /\ call.op = op
        /\ \/ ServeLoad(call) \/ ServeList(call) \/ ServeCreate(call) \/ ServeDelete(call)
           \/ ServeTurn(call) \/ ServeMessage(call) \/ ServeRegenerate(call)
           \/ ServeConfirm(call) \/ ServeHandover(call) \/ ServeMeta(call)

(***************************************************************************)
(* The network.                                                            *)
(***************************************************************************)
Lose ==
    /\ losses < MaxLosses
    /\ losses' = losses + 1
    /\ \E call \in calls :
          \/ /\ call.state \in {"sent", "ok"}     \* the request, or its answer
             /\ calls' = (calls \ {call}) \cup {[call EXCEPT !.state = "refused", !.got = Nothing]}
          \/ call.state = "orphan" /\ calls' = calls \ {call}
          \/ /\ call.state = "sent"                \* given up, and served later
             /\ call.op \in {"turn", "question", "answer"} /\ call.page \in AppPages
             /\ calls' = (calls \ {call}) \cup {[call EXCEPT !.state = "refused"], [call EXCEPT !.state = "orphan"]}
    /\ UNCHANGED <<chats, asked, jobs, ran, edits, written>>

=============================================================================
