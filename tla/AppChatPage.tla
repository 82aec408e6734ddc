----------------------------- MODULE AppChatPage -----------------------------
(***************************************************************************)
(* mountChat(): one chat page of the app.  A page shows messages of its    *)
(* own, streams one answer at a time and then stores it; rev is the        *)
(* revision of the chat it believes to be current, token the revision      *)
(* token of a regeneration that has begun.  warned (the turns it warned    *)
(* about) and seen (the turns it has shown) are history.                   *)
(***************************************************************************)
EXTENDS ChatCalls

VARIABLE app        \* the pages

Phases == {"new", "loading", "failed", "idle", "creating", "streaming", "settling",
           "restoring", "syncing", "gone", "closed"}

AppPage == [phase: Phases, chat: Chats \cup {NoChat}, shown: Seq(Shown), slot: Nat,
            rev: Nat, how: {"send", "stopped", "regenerate"}, token: Nat,
            warned: SUBSET Turns, seen: SUBSET Turns]

NewAppPage == [phase |-> "new", chat |-> NoChat, shown |-> <<>>, slot |-> 0,
               rev |-> 0, how |-> "send", token |-> 0, warned |-> {}, seen |-> {}]

Turn(page) == page.shown[page.slot].turn        \* the question being answered
Current(page) == page.shown[page.slot]

\* sending: the guard of send(), regenerateMessage(), editMessage() and the hand-over.
Sending(page) == page.phase \in {"creating", "streaming", "settling", "restoring", "syncing"}
Mounted(page) == page.phase \notin {"new", "gone", "closed"}
\* A page that was destroyed ("gone") still runs the continuations of its writes.
Running(page) == page.phase \notin {"new", "closed"}

\* The composer is free: nothing is left of the last answer but its bubbles.
Free(page) == [page EXCEPT !.phase = "idle", !.slot = 0, !.how = "send", !.token = 0]


(* Slip: a refused write is not reported. *)
WarnedNot(page, q) == page
\* showHistorySaveWarning()
Warned(page, q) == [page EXCEPT !.warned = @ \cup {q}]

Set(p, page) == app' = [app EXCEPT ![p] = page]
Keep == UNCHANGED <<chats, asked, jobs, ran, losses, edits, written>>

(***************************************************************************)
(* Opening a page, with or without a chat.                                 *)
(***************************************************************************)
Mount(p) ==
    /\ app[p].phase = "new"
    /\ \/ /\ Set(p, [NewAppPage EXCEPT !.phase = "idle"])
          /\ UNCHANGED calls
       \/ \E c \in Chats :
            /\ Live(c)
            /\ Set(p, [NewAppPage EXCEPT !.phase = "loading", !.chat = c])
            /\ calls' = calls \cup {LoadOf(p, c)}
    /\ Keep

\* applyServerChat(): what the server stores replaces what the page shows.
Restored(page, got) ==
    [Free(page) EXCEPT !.rev = got.rev, !.shown = Bubbles(got.msgs),
        !.seen = @ \cup {m.turn : m \in ToSet(got.msgs)}]

Loaded(p) ==
    \E call \in Arrived(p, "load", "ok") :
        /\ app[p].phase \in {"loading", "restoring"}
        /\ Set(p, Restored(app[p], call.got))
        /\ calls' = calls \ {call}
        /\ Keep

\* The composer stays disabled; after a failed regeneration the page only warns.
LoadFails(p) ==
    \E call \in Arrived(p, "load", "refused") :
        /\ \/ app[p].phase = "loading" /\ Set(p, [app[p] EXCEPT !.phase = "failed"])
           \/ app[p].phase \in {"restoring", "syncing"}
                /\ Set(p, Warned(Free(app[p]), Turn(app[p])))
        /\ calls' = calls \ {call}
        /\ Keep

RetryLoad(p) ==
    /\ app[p].phase = "failed"
    /\ Set(p, [app[p] EXCEPT !.phase = "loading"])
    /\ calls' = calls \cup {LoadOf(p, app[p].chat)}
    /\ Keep

(***************************************************************************)
(* send().                                                                 *)
(***************************************************************************)
Send(p) ==
    LET page == app[p]
        q == asked + 1
        shown == page.shown \o <<Asking(q), Answering(q)>>
        sent == [page EXCEPT !.shown = shown, !.slot = Len(shown), !.how = "send", !.seen = @ \cup {q},
                    !.phase = IF page.chat = NoChat THEN "creating" ELSE "streaming"]
    IN  /\ page.phase = "idle"
        /\ asked < MaxTurns
        /\ asked' = q
        /\ Set(p, sent)
        /\ calls' = IF page.chat = NoChat THEN calls \cup {Request(p, "create", NoChat)} ELSE calls
        /\ UNCHANGED <<chats, jobs, ran, losses, edits, written>>

Ended(page, text, error) ==
    [page EXCEPT !.shown[page.slot].text = text, !.shown[page.slot].done = TRUE, !.shown[page.slot].error = error,
        !.token = 0]

\* ensureChat(): without a chat the two bubbles are taken back.
Created(p) ==
    \/ \E call \in Arrived(p, "create", "ok") :
         /\ app[p].phase = "creating"
         /\ LET page == [app[p] EXCEPT !.chat = call.got.chat, !.rev = call.got.rev]
            IN  Set(p, IF page.how = "stopped" THEN Free(Ended(page, FALSE, FALSE))
                       ELSE [page EXCEPT !.phase = "streaming"])
         /\ calls' = calls \ {call}
         /\ Keep
    \/ \E call \in Arrived(p, "create", "refused") :
         /\ app[p].phase = "creating"
         /\ Set(p, Free([app[p] EXCEPT !.shown = SubSeq(@, 1, app[p].slot - 2)]))
         /\ calls' = calls \ {call}
         /\ Keep

Streaming(p) == app[p].phase = "streaming" /\ ~Current(app[p]).done
\* A regeneration streams nothing before the server has begun it.
Begins(p) == app[p].how = "send" \/ app[p].token # 0

StreamText(p) ==
    /\ Streaming(p) /\ Begins(p)
    /\ ~Current(app[p]).text
    /\ Set(p, [app[p] EXCEPT !.shown[app[p].slot].text = TRUE])
    /\ UNCHANGED calls
    /\ Keep

\* The terminal events of a stream: what is shown, and the write it starts.
StreamDone(p) ==
    LET page == app[p]
    IN  /\ Streaming(p) /\ Begins(p)
        /\ Set(p, [page EXCEPT !.phase = "settling", !.token = 0,
                    !.shown[page.slot].text = TRUE, !.shown[page.slot].done = TRUE])
        /\ calls' = calls \cup
             {IF page.how = "send" THEN TurnOf(p, page.chat, Turn(page), "none", page.rev)
              ELSE AnswerOf(p, page.chat, Turn(page), "none", page.token)}
        /\ Keep

\* The panel of a regeneration keeps the token and has no token of its own.
StreamConfirmation(p) ==
    LET page == app[p]
        panel == [Current(page) EXCEPT !.text = TRUE, !.done = TRUE, !.conf = "open",
                    !.rev = page.token, !.token = page.how = "send"]
        shown == [page EXCEPT !.shown[page.slot] = panel, !.token = 0]
    IN  /\ Streaming(p) /\ Begins(p)
        /\ \/ /\ page.how = "send"
              /\ Set(p, [shown EXCEPT !.phase = "settling"])
              /\ calls' = calls \cup {TurnOf(p, page.chat, Turn(page), "open", page.rev)}
           \/ /\ page.how = "regenerate"
              /\ Set(p, Free(shown))
              /\ UNCHANGED calls
        /\ Keep

\* After a regeneration that stored nothing the page reads the chat again.
Restoring(p, page) ==
    /\ Set(p, [page EXCEPT !.phase = "restoring"])
    /\ calls' = (calls \ Waiting(p, "regenerate")) \cup {LoadOf(p, page.chat)}

\* An error event: of a question, only the question is stored, without a guard.
StreamError(p) ==
    LET page == app[p]
    IN  /\ Streaming(p) /\ Begins(p)
        /\ \/ /\ page.how = "send"
              /\ Set(p, [Ended(page, TRUE, TRUE) EXCEPT !.phase = "settling"])
              /\ calls' = calls \cup {QuestionOf(p, page.chat, Turn(page))}
           \/ /\ page.how = "regenerate"
              /\ Restoring(p, Ended(page, TRUE, TRUE))
        /\ Keep

\* The stream breaks: the page says so, and stores nothing.
StreamBreak(p) ==
    LET page == app[p]
    IN  /\ Streaming(p) /\ Begins(p)
        /\ \/ /\ page.how = "send"
              /\ Set(p, Free(Ended(page, TRUE, TRUE)))
              /\ UNCHANGED calls
           \/ /\ page.how = "regenerate"
              /\ Restoring(p, Ended(page, TRUE, TRUE))
        /\ Keep

\* stopStream(): what has been streamed is stored, an empty answer is not.
Stop(p) ==
    LET page == app[p]
        text == Current(page).text
        ended == Ended(page, text, FALSE)
    IN  /\ Streaming(p) \/ (page.phase = "creating" /\ page.how = "send")
        /\ \/ /\ page.phase = "creating"
              /\ Set(p, [page EXCEPT !.how = "stopped"])
              /\ UNCHANGED calls
           \/ /\ text
              /\ Set(p, [ended EXCEPT !.phase = "settling"])
              /\ calls' = calls \cup
                   {IF page.how = "send" THEN TurnOf(p, page.chat, Turn(page), "none", page.rev)
                    ELSE AnswerOf(p, page.chat, Turn(page), "none", page.token)}
           \/ /\ page.phase = "streaming" /\ ~text /\ page.how = "send"
              /\ Set(p, Free(ended))
              /\ UNCHANGED calls
           \/ /\ ~text /\ page.how = "regenerate"
              /\ Set(p, [ended EXCEPT !.phase = "restoring"])
              /\ calls' = (calls \ Waiting(p, "regenerate")) \cup {LoadOf(p, page.chat)}
                    \cup {[call EXCEPT !.state = "orphan"] : call \in Arrived(p, "regenerate", "sent")}
        /\ Keep

(***************************************************************************)
(* regenerateMessage() and editMessage(): index is the position of the     *)
(* question on the page.  Only messages read from the server can be edited *)
(* (done); both cut what the page shows and leave the stored chat alone.   *)
(***************************************************************************)
Regenerate(p) ==
    LET page == app[p]
    IN  /\ page.phase = "idle"
        /\ page.chat # NoChat
        /\ edits < MaxEdits
        /\ edits' = edits + 1
        /\ \E i \in DOMAIN page.shown :
             /\ page.shown[i].role = "user"
             /\ \/ page.shown[i].done
                \/ i < Len(page.shown) /\ page.shown[i + 1].role = "assistant" /\ page.shown[i + 1].done
             /\ Set(p, [page EXCEPT !.phase = "streaming", !.how = "regenerate", !.token = 0, !.slot = i + 1,
                         !.shown = Append(SubSeq(@, 1, i), Answering(page.shown[i].turn))])
             /\ calls' = calls \cup {[Request(p, "regenerate", page.chat) EXCEPT !.index = i, !.rev = page.rev]}
        /\ UNCHANGED <<chats, asked, jobs, ran, losses, written>>

Larger(a, b) == IF a > b THEN a ELSE b

\* The first event of the stream; the answer is to the question the server found.
RegenerateBegins(p) ==
    \E call \in Arrived(p, "regenerate", "ok") :
        LET page == app[p]
        IN  /\ Streaming(p)
            /\ Set(p, [page EXCEPT !.token = call.got.rev, !.rev = Larger(@, call.got.rev),
                        !.shown[page.slot].turn = call.got.msgs[1].turn])
            /\ calls' = calls \ {call}
            /\ Keep

RegenerateRefused(p) ==
    \E call \in Arrived(p, "regenerate", "refused") :
        /\ Streaming(p)
        /\ Set(p, [Ended(app[p], TRUE, TRUE) EXCEPT !.phase = "restoring"])
        /\ calls' = (calls \ {call}) \cup {LoadOf(p, app[p].chat)}
        /\ Keep

(***************************************************************************)
(* The write of an answer is over (saveTurn(), saveMessage()).  An answer  *)
(* whose placeholder was awaited by an approval goes on to confirmTool().  *)
(***************************************************************************)
\* The turn of the write is the one the page is waiting for.
(* Slip: only the write of a whole turn is waited for. *)
AwaitedTurn(p, call) == app[p].phase = "settling" /\ call.turn = Turn(app[p]) /\ call.op = "turn"
Awaited(p, call) == app[p].phase = "settling" /\ call.turn = Turn(app[p]) /\ call.conf # "done"

\* An approval that waits for the placeholder of question q goes on, or is refused.
Released(page, q, saved) ==
    [page EXCEPT !.shown = [i \in DOMAIN @ |->
        IF @[i].turn = q /\ @[i].conf = "waiting" /\ saved THEN [@[i] EXCEPT !.conf = "running"]
        ELSE IF @[i].turn = q /\ @[i].conf \in {"open", "waiting"} /\ ~saved THEN [@[i] EXCEPT !.conf = "stuck"]
        ELSE @[i]]]
Approved(p, page, q) ==
    IF \E i \in DOMAIN page.shown : page.shown[i].turn = q /\ page.shown[i].conf = "waiting"
    THEN {ConfirmOf(p, page.chat, q, TRUE, 0)} ELSE {}

Saves(p) == Waiting(p, "turn") \cup Waiting(p, "question") \cup Waiting(p, "answer")

Saved(p) ==
    \E call \in Saves(p) :
        LET page == app[p]
            over == IF Awaited(p, call) THEN Free(page) ELSE page
        IN  /\ call.state = "ok"
            /\ Running(page)
            /\ Set(p, [(IF call.op = "turn" THEN Released(over, call.turn, TRUE) ELSE over) EXCEPT !.rev = Larger(@, call.got.rev)])
            /\ calls' = (calls \ {call}) \cup (IF call.op = "turn" THEN Approved(p, page, call.turn) ELSE {})
            /\ Keep

\* The page warns; after a regeneration it also reads the revision again.
SaveFails(p) ==
    \E call \in Saves(p) :
        LET page == app[p]
            regenerated == Awaited(p, call) /\ page.how = "regenerate"
            over == IF regenerated THEN [page EXCEPT !.phase = "syncing"]
                    ELSE IF Awaited(p, call) THEN Free(page) ELSE page
        IN  /\ call.state = "refused"
            /\ Running(page)
            /\ Set(p, Warned(IF call.op = "turn" THEN Released(over, call.turn, FALSE) ELSE over, call.turn))
            /\ calls' = (calls \ {call}) \cup (IF regenerated THEN {LoadOf(p, page.chat)} ELSE {})
            /\ Keep

Synced(p) ==
    \E call \in Arrived(p, "load", "ok") :
        /\ app[p].phase = "syncing"
        /\ Set(p, [Free(app[p]) EXCEPT !.rev = Larger(@, call.got.rev)])
        /\ calls' = calls \ {call}
        /\ Keep

(***************************************************************************)
(* The confirmation panel.                                                 *)
(***************************************************************************)
Panels(p, states) == {i \in DOMAIN app[p].shown : app[p].shown[i].conf \in states}

Approve(p) ==
    \E i \in Panels(p, {"open"}) :
        LET page == app[p]
            m == page.shown[i]
            unsaved == \E call \in Waiting(p, "turn") : call.turn = m.turn
        IN  /\ Mounted(page)
            /\ Set(p, [page EXCEPT !.shown[i].conf = IF unsaved THEN "waiting" ELSE "running"])
            /\ calls' = IF unsaved THEN calls
                        ELSE calls \cup {ConfirmOf(p, page.chat, m.turn, m.token, m.rev)}
            /\ Keep

\* finish(): the answer takes the place of the placeholder; nobody waits for the write.
Finished(p, page, i) ==
    /\ Set(p, [page EXCEPT !.shown[i].conf = "done", !.shown[i].text = TRUE])
    /\ calls' = calls \cup {AnswerOf(p, page.chat, page.shown[i].turn, "done", page.shown[i].rev)}

Reject(p) ==
    /\ Mounted(app[p])
    /\ \E i \in Panels(p, {"open", "stuck"}) : Finished(p, app[p], i)
    /\ Keep

\* The answer of confirmTool(): the panel may be gone when the page was restored.
ActionRan(p) ==
    \E call \in Arrived(p, "confirm", "ok") :
        LET page == app[p]
            panel == {i \in Panels(p, {"running"}) : page.shown[i].turn = call.turn}
        IN  /\ Running(page)
            /\ Set(p, [page EXCEPT !.shown = [i \in DOMAIN @ |->
                    IF i \in panel THEN [@[i] EXCEPT !.conf = "done", !.text = TRUE] ELSE @[i]]])
            /\ calls' = (calls \ {call}) \cup {AnswerOf(p, page.chat, call.turn, "done", call.rev)}
            /\ Keep

\* Any error, "already processed" among them, gives the buttons back.
ActionFails(p) ==
    \E call \in Arrived(p, "confirm", "refused") :
        LET page == app[p]
        IN  /\ Running(page)
            /\ Set(p, [page EXCEPT !.shown = [i \in DOMAIN @ |->
                    IF @[i].turn = call.turn /\ @[i].conf = "running" THEN [@[i] EXCEPT !.conf = "open"] ELSE @[i]]])
            /\ calls' = calls \ {call}
            /\ Keep

(***************************************************************************)
(* openCustomizeDialog(): persona and instructions of the chat.            *)
(***************************************************************************)
Customize(p) ==
    /\ Mounted(app[p]) /\ app[p].chat # NoChat
    /\ Waiting(p, "meta") = {}
    /\ edits < MaxEdits
    /\ edits' = edits + 1
    /\ calls' = calls \cup {Request(p, "meta", app[p].chat)}
    /\ UNCHANGED <<app, chats, asked, jobs, ran, losses, written>>

Customized(p) ==
    \E call \in Waiting(p, "meta") :
        /\ call.state # "sent"
        /\ Mounted(app[p])
        /\ Set(p, [app[p] EXCEPT !.rev = IF call.state = "ok" THEN Larger(@, call.got.rev) ELSE @])
        /\ calls' = calls \ {call}
        /\ Keep

(***************************************************************************)
(* destroy() and pagehide: a question whose answer is still open is handed *)
(* over; the stream is aborted and nothing of it is stored.                *)
(***************************************************************************)
HandsOver(page) == Sending(page) /\ page.chat # NoChat /\ ~Last(page.shown).done

LastQuestion(page) ==
    LET i == CHOOSE j \in DOMAIN page.shown : /\ page.shown[j].role = "user"
                                               /\ \A k \in j + 1 .. Len(page.shown) : page.shown[k].role # "user"
    IN  page.shown[i].turn

\* destroyed: approvals under way go on and keep the bubbles; closed: the browser
\* drops everything.
Leave(p, phase) ==
    LET page == app[p]
        mine == {call \in calls : call.page = p}
        kept == IF phase = "gone" THEN {call \in mine : call.op \in {"turn", "question", "answer", "confirm"}} ELSE {}
        approved == \E i \in DOMAIN page.shown : page.shown[i].conf \in {"waiting", "running"}
    IN  /\ Mounted(page)
        /\ Set(p, [NewAppPage EXCEPT !.phase = phase, !.chat = page.chat, !.seen = page.seen,
                    !.shown = IF phase = "gone" /\ approved THEN page.shown ELSE <<>>])
        /\ calls' = (calls \ mine) \cup kept
             \cup {[call EXCEPT !.state = "orphan"] : call \in {c \in mine \ kept : c.state \in {"sent", "orphan"}}}
             \cup (IF HandsOver(page)
                   THEN {[Request(p, "handover", page.chat) EXCEPT !.turn = LastQuestion(page), !.state = "orphan"]}
                   ELSE {})
        /\ Keep

Destroy(p) == Leave(p, "gone")
CloseTab(p) == Leave(p, "closed")

AppStep(p) ==
    \/ Mount(p) \/ Loaded(p) \/ LoadFails(p) \/ RetryLoad(p)
    \/ Send(p) \/ Created(p) \/ StreamText(p) \/ StreamDone(p) \/ StreamConfirmation(p)
    \/ StreamError(p) \/ StreamBreak(p) \/ Stop(p)
    \/ Regenerate(p) \/ RegenerateBegins(p) \/ RegenerateRefused(p)
    \/ Saved(p) \/ SaveFails(p) \/ Synced(p)
    \/ Approve(p) \/ Reject(p) \/ ActionRan(p) \/ ActionFails(p)
    \/ Customize(p) \/ Customized(p) \/ Destroy(p) \/ CloseTab(p)

InitApp(session) ==
    app = [p \in AppPages |-> [NewAppPage EXCEPT !.phase = IF p \in session.pages THEN "new" ELSE "closed"]]

=============================================================================
