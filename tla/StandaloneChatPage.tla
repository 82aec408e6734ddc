-------------------------- MODULE StandaloneChatPage --------------------------
(***************************************************************************)
(* The page of standalone-chat.js: a list of chats and one open chat.  The *)
(* open chat changes when the user clicks, what is shown changes when an   *)
(* answer arrives; question and answer are stored by two requests, and the *)
(* composer is free again before they are.                                 *)
(***************************************************************************)
EXTENDS ChatCalls

VARIABLE alone      \* the pages

\* busy: the button for a new chat is disabled.
StandalonePage == [phase: {"new", "idle", "creating", "streaming", "closed"}, chat: Chats \cup {NoChat},
                   shown: Seq(Shown), slot: Nat, stopped: BOOLEAN,
                   listed: SUBSET Chats, busy: BOOLEAN]

NewStandalonePage == [phase |-> "new", chat |-> NoChat, shown |-> <<>>, slot |-> 0, stopped |-> FALSE,
                      listed |-> {}, busy |-> FALSE]

Become(s, page) == alone' = [alone EXCEPT ![s] = page]
Same == UNCHANGED <<chats, asked, jobs, ran, losses, edits, written>>
Click == edits < MaxEdits /\ edits' = edits + 1 /\ UNCHANGED <<chats, asked, jobs, ran, losses, written>>
IsSending(page) == page.phase \in {"creating", "streaming"}
Usable(s) == alone[s].phase \notin {"new", "closed"}

\* refreshChats() opens a chat when none is open, renderChatListAgain() does not.
Refresh(s) == [Request(s, "list", NoChat) EXCEPT !.next = TRUE]
ListAgain(s) == Request(s, "list", NoChat)

Open(s) ==
    /\ alone[s].phase = "new"
    /\ Become(s, [alone[s] EXCEPT !.phase = "idle", !.busy = TRUE])
    /\ calls' = calls \cup {Refresh(s)}
    /\ Same

Listed(s) ==
    \E call \in Arrived(s, "list", "ok") :
        LET page == [alone[s] EXCEPT !.listed = call.got.listed, !.busy = IF call.next THEN FALSE ELSE @]
        IN  /\ IF call.next /\ page.chat = NoChat /\ page.listed # {}
               THEN \E c \in page.listed :
                      /\ Become(s, [page EXCEPT !.chat = c])
                      /\ calls' = (calls \ {call}) \cup {LoadOf(s, c)}
               ELSE Become(s, page) /\ calls' = calls \ {call}
            /\ Same

ListFails(s) ==
    \E call \in Arrived(s, "list", "refused") :
        /\ Become(s, [alone[s] EXCEPT !.busy = IF call.next THEN FALSE ELSE @])
        /\ calls' = calls \ {call}
        /\ Same

\* A click on an entry of the list, once nothing is being sent.
Choose(s) ==
    \E c \in alone[s].listed :
        /\ Usable(s) /\ ~IsSending(alone[s])
        /\ Become(s, [alone[s] EXCEPT !.chat = c])
        /\ calls' = calls \cup {[LoadOf(s, c) EXCEPT !.next = TRUE]}
        /\ Click

\* loadChat() shows what arrives, whatever the page is doing by then.
ChatLoaded(s) ==
    \E call \in Arrived(s, "load", "ok") :
        /\ Become(s, [alone[s] EXCEPT !.shown = Bubbles(call.got.msgs)])
        /\ calls' = (calls \ {call}) \cup (IF call.next THEN {ListAgain(s)} ELSE {})
        /\ Same

ChatLoadFails(s) ==
    \E call \in Arrived(s, "load", "refused") :
        /\ calls' = calls \ {call}
        /\ UNCHANGED alone
        /\ Same

NewChatClicked(s) ==
    /\ Usable(s) /\ ~alone[s].busy /\ ~IsSending(alone[s])
    /\ Become(s, [alone[s] EXCEPT !.busy = TRUE])
    /\ calls' = calls \cup {[Request(s, "create", NoChat) EXCEPT !.next = TRUE]}
    /\ Click

NewChatOpens(s) ==
    \E call \in Arrived(s, "create", "ok") :
        /\ call.next
        /\ Become(s, [alone[s] EXCEPT !.chat = call.got.chat, !.shown = <<>>])
        /\ calls' = (calls \ {call}) \cup {Refresh(s)}
        /\ Same

NewChatFails(s) ==
    \E call \in Arrived(s, "create", "refused") :
        /\ call.next
        /\ Become(s, [alone[s] EXCEPT !.busy = FALSE])
        /\ calls' = calls \ {call}
        /\ Same

\* The delete button of an entry, once the dialog is confirmed.
DeleteChat(s) ==
    \E c \in alone[s].listed :
        /\ Usable(s) /\ ~(IsSending(alone[s]) /\ alone[s].chat = c)
        /\ calls' = calls \cup {Request(s, "delete", c)}
        /\ UNCHANGED alone
        /\ Click

Deleted(s) ==
    \E call \in Arrived(s, "delete", "ok") :
        /\ Become(s, IF alone[s].chat = call.chat
                     THEN [alone[s] EXCEPT !.chat = NoChat, !.shown = <<>>, !.busy = TRUE]
                     ELSE [alone[s] EXCEPT !.busy = TRUE])
        /\ calls' = (calls \ {call}) \cup {Refresh(s)}
        /\ Same

DeleteFails(s) ==
    \E call \in Arrived(s, "delete", "refused") :
        /\ calls' = calls \ {call}
        /\ UNCHANGED alone
        /\ Same

(***************************************************************************)
(* send().                                                                 *)
(***************************************************************************)
SendQuestion(s) ==
    LET page == alone[s]
        q == asked + 1
        shown == page.shown \o <<Asking(q), Answering(q)>>
    IN  /\ page.phase = "idle"
        /\ asked < MaxTurns
        /\ asked' = q
        /\ Become(s, [page EXCEPT !.shown = shown, !.slot = Len(shown), !.stopped = FALSE,
                        !.phase = IF page.chat = NoChat THEN "creating" ELSE "streaming"])
        /\ calls' = IF page.chat = NoChat THEN calls \cup {Request(s, "create", NoChat)} ELSE calls
        /\ UNCHANGED <<chats, jobs, ran, losses, edits, written>>

\* ensureChat(): the stream starts also when no chat could be created.
ChatEnsured(s) ==
    \E call \in Waiting(s, "create") :
        /\ call.state # "sent" /\ ~call.next
        /\ Become(s, [alone[s] EXCEPT !.phase = "streaming",
                        !.chat = IF call.state = "ok" THEN call.got.chat ELSE @])
        /\ calls' = calls \ {call}
        /\ Same

\* The events are for the bubble in the slot, if it is still there and open.
Slot(page) == page.shown[page.slot]
Hears(page) ==
    /\ page.phase = "streaming"
    /\ page.slot \in DOMAIN page.shown
    /\ Slot(page).role = "assistant" /\ ~Slot(page).done

\* saveMessage(): the chat is the one that is open now.  index = 1: the list follows.
SaveAnswer(s, q, conf, index) ==
    IF alone[s].chat = NoChat THEN {}
    ELSE {[AnswerOf(s, alone[s].chat, q, conf, 0) EXCEPT !.index = index]}
(* Slip: the answer does not wait for its question. *)
SaveBoth(s, q, conf, next, index) ==
    IF alone[s].chat = NoChat THEN {}
    ELSE {[QuestionOf(s, alone[s].chat, q) EXCEPT !.conf = conf]} \cup SaveAnswer(s, q, conf, index)
SaveQuestion(s, q, conf, next, index) ==
    IF alone[s].chat = NoChat THEN {}
    ELSE {[QuestionOf(s, alone[s].chat, q) EXCEPT !.conf = conf, !.next = next, !.index = index]}
ThenList(s, call) == IF call.index = 1 THEN {ListAgain(s)} ELSE {}

Over(page, text, conf) ==
    [page EXCEPT !.phase = "idle", !.slot = 0, !.stopped = FALSE,
        !.shown[page.slot].text = text, !.shown[page.slot].done = TRUE, !.shown[page.slot].conf = conf]

Text(s) ==
    /\ Hears(alone[s]) /\ ~alone[s].stopped /\ ~Slot(alone[s]).text
    /\ Become(s, [alone[s] EXCEPT !.shown[alone[s].slot].text = TRUE])
    /\ UNCHANGED calls
    /\ Same

\* A terminal event: a final answer, a confirmation, or an error.
Terminal(s) ==
    LET page == alone[s]
        q == Slot(page).turn
    IN  /\ Hears(page) /\ ~page.stopped
        /\ \/ /\ Become(s, Over(page, TRUE, "none"))
              /\ calls' = calls \cup SaveQuestion(s, q, "none", TRUE, 1)
           \/ /\ Become(s, Over(page, TRUE, "open"))
              /\ calls' = calls \cup SaveQuestion(s, q, "open", TRUE, 0)
           \/ /\ Become(s, Over(page, TRUE, "none"))
              /\ calls' = calls \cup SaveQuestion(s, q, "none", FALSE, 0)
        /\ Same

\* The stream breaks: nothing is stored.  A stop stores what was streamed.
Broken(s) ==
    LET page == alone[s]
    IN  /\ Hears(page)
        /\ Become(s, Over(page, Slot(page).text \/ ~page.stopped, "none"))
        /\ calls' = IF page.stopped /\ Slot(page).text
                    THEN calls \cup SaveQuestion(s, Slot(page).turn, "none", TRUE, 0) ELSE calls
        /\ Same

StopClicked(s) ==
    /\ IsSending(alone[s]) /\ ~alone[s].stopped
    /\ Become(s, [alone[s] EXCEPT !.stopped = TRUE])
    /\ UNCHANGED calls
    /\ Same

\* The bubble of the stream was replaced: its events are for nobody.
Unheard(s) ==
    /\ alone[s].phase = "streaming" /\ ~Hears(alone[s])
    /\ Become(s, [alone[s] EXCEPT !.phase = "idle", !.slot = 0, !.stopped = FALSE])
    /\ UNCHANGED calls
    /\ Same

(***************************************************************************)
(* The two writes of a turn.                                               *)
(***************************************************************************)
\* An approval waits for both writes, and then runs whatever became of them.
Going(page, q) ==
    [page EXCEPT !.shown = [i \in DOMAIN @ |->
        IF @[i].turn = q /\ @[i].conf = "waiting" THEN [@[i] EXCEPT !.conf = "running"] ELSE @[i]]]
Approval(s, q) ==
    IF \E i \in DOMAIN alone[s].shown : alone[s].shown[i].turn = q /\ alone[s].shown[i].conf = "waiting"
    THEN {ConfirmOf(s, alone[s].chat, q, TRUE, 0)} ELSE {}

QuestionSaved(s) ==
    \E call \in Arrived(s, "question", "ok") :
        LET answer == IF call.next THEN SaveAnswer(s, call.turn, call.conf, call.index) ELSE {}
        IN  /\ IF answer = {} /\ call.conf = "open"
               THEN /\ Become(s, Going(alone[s], call.turn))
                    /\ calls' = (calls \ {call}) \cup Approval(s, call.turn)
               ELSE /\ calls' = (calls \ {call}) \cup (IF answer = {} THEN ThenList(s, call) ELSE answer)
                    /\ UNCHANGED alone
            /\ Same

AnswerSaved(s) ==
    \E call \in Waiting(s, "answer") :
        /\ call.state # "sent"
        /\ Become(s, IF call.conf = "open" THEN Going(alone[s], call.turn) ELSE alone[s])
        /\ calls' = (calls \ {call}) \cup
              (IF call.conf = "open" THEN Approval(s, call.turn) ELSE ThenList(s, call))
        /\ Same

QuestionFails(s) ==
    \E call \in Arrived(s, "question", "refused") :
        /\ Become(s, IF call.conf = "open" THEN Going(alone[s], call.turn) ELSE alone[s])
        /\ calls' = (calls \ {call}) \cup
              (IF call.conf = "open" THEN Approval(s, call.turn) ELSE ThenList(s, call))
        /\ Same

(***************************************************************************)
(* The confirmation panel.                                                 *)
(***************************************************************************)
ApproveClicked(s) ==
    \E i \in DOMAIN alone[s].shown :
        LET page == alone[s]
            q == page.shown[i].turn
            unsaved == \E call \in Waiting(s, "question") \cup Waiting(s, "answer") :
                            call.turn = q /\ call.conf = "open"
        IN  /\ page.shown[i].conf = "open"
            /\ Become(s, [page EXCEPT !.shown[i].conf = IF unsaved THEN "waiting" ELSE "running"])
            /\ calls' = IF unsaved THEN calls ELSE calls \cup {ConfirmOf(s, page.chat, q, TRUE, 0)}
            /\ Same

\* finish(), after a click on Cancel.
Cancelled(s) ==
    \E i \in DOMAIN alone[s].shown :
        /\ alone[s].shown[i].conf = "open"
        /\ Become(s, [alone[s] EXCEPT !.shown[i].conf = "done"])
        /\ calls' = calls \cup SaveAnswer(s, alone[s].shown[i].turn, "done", 1)
        /\ Same

\* finish(), after confirmTool() answered or failed: both become the answer.
ActionOver(s) ==
    \E call \in Waiting(s, "confirm") :
        /\ call.state # "sent"
        /\ Become(s, [alone[s] EXCEPT !.shown = [i \in DOMAIN @ |->
                IF @[i].turn = call.turn /\ @[i].conf = "running" THEN [@[i] EXCEPT !.conf = "done"] ELSE @[i]]])
        /\ calls' = (calls \ {call}) \cup SaveAnswer(s, call.turn, "done", 1)
        /\ Same

StandaloneStep(s) ==
    \/ Open(s) \/ Listed(s) \/ ListFails(s) \/ Choose(s) \/ ChatLoaded(s) \/ ChatLoadFails(s)
    \/ NewChatClicked(s) \/ NewChatOpens(s) \/ NewChatFails(s)
    \/ DeleteChat(s) \/ Deleted(s) \/ DeleteFails(s)
    \/ SendQuestion(s) \/ ChatEnsured(s) \/ Text(s) \/ Terminal(s) \/ Broken(s) \/ StopClicked(s) \/ Unheard(s)
    \/ QuestionSaved(s) \/ QuestionFails(s) \/ AnswerSaved(s)
    \/ ApproveClicked(s) \/ Cancelled(s) \/ ActionOver(s)

InitStandalone(session) ==
    alone = [s \in StandalonePages |-> [NewStandalonePage EXCEPT !.phase = IF s \in session.pages THEN "new" ELSE "closed"]]

=============================================================================
