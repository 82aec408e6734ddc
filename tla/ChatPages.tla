------------------------------ MODULE ChatPages ------------------------------
(***************************************************************************)
(* The chat pages of one user, of the app and standalone, over the chats   *)
(* they share.                                                             *)
(***************************************************************************)
EXTENDS AppChatPage, StandaloneChatPage

vars == <<serverVars, app, alone>>
pages == <<app, alone>>

\* One chat holds a turn already; ids that the session leaves out are used up.
Init ==
    \E session \in Sessions :
      LET first == CHOOSE c \in session.chats : TRUE
      IN
        /\ chats = [c \in Chats |->
              IF c = first THEN TurnAppended(NewChat("live"), 1, "none")
              ELSE NewChat(IF c \in session.chats THEN "unborn" ELSE "deleted")]
        /\ written = UNION {Noted(c, NewChat("live"), chats[c]) : c \in Chats}
        /\ asked = 1
        /\ InitCalls(session) /\ InitApp(session) /\ InitStandalone(session)

Server(p, op) == Serve(p, op) /\ UNCHANGED pages
JobDone == FinishJob /\ UNCHANGED pages
Network == Lose /\ UNCHANGED pages

Next ==
    \/ \E p \in AppPages : AppStep(p) /\ UNCHANGED alone
    \/ \E s \in StandalonePages : StandaloneStep(s) /\ UNCHANGED app
    \/ \E p \in Pages, op \in Ops : Server(p, op)
    \/ JobDone \/ Network

Spec == Init /\ [][Next]_vars

(***************************************************************************)
(* Requests are served or time out, their answers are handled, and a       *)
(* stream ends: the server bounds every run of the model.  Nobody has to   *)
(* ask, approve, stop or leave.                                            *)
(***************************************************************************)
StreamEnds(p) == StreamDone(p) \/ StreamConfirmation(p) \/ StreamError(p) \/ StreamBreak(p)
AppReacts(p) ==
    \/ Loaded(p) \/ LoadFails(p) \/ Created(p) \/ RegenerateBegins(p) \/ RegenerateRefused(p) \/ Synced(p)
StandaloneReacts(s) == ChatEnsured(s) \/ Terminal(s) \/ Broken(s) \/ Unheard(s)

Fairness ==
    /\ \A p \in Pages, op \in {"load", "create", "turn", "question", "answer", "regenerate"} :
          WF_vars(Server(p, op))
    /\ \A p \in AppPages :
          /\ WF_vars(StreamEnds(p) /\ UNCHANGED alone)
          /\ WF_vars(AppReacts(p) /\ UNCHANGED alone)
          /\ WF_vars((Saved(p) \/ SaveFails(p)) /\ UNCHANGED alone)
    /\ \A s \in StandalonePages : WF_vars(StandaloneReacts(s) /\ UNCHANGED app)

LiveSpec == Spec /\ Fairness

(***************************************************************************)
(* Properties.                                                             *)
(***************************************************************************)
TypeOK ==
    /\ \A c \in Chats : /\ chats[c].state \in {"unborn", "live", "deleted"}
                        /\ chats[c].msgs \in Seq(Message) /\ chats[c].rev \in Nat
    /\ calls \subseteq Call
    /\ app \in [AppPages -> AppPage] /\ alone \in [StandalonePages -> StandalonePage]
    /\ asked \in 0..MaxTurns /\ losses \in 0..MaxLosses /\ edits \in 0..MaxEdits
    /\ jobs \subseteq Chats \X Turns /\ ran \in [(Chats \cup {NoChat}) \X Turns -> Nat]

\* Messages that are gone from a chat were there when the marker of a
\* regeneration was set: an answer that arrives late never cuts newer messages
\* (appendToChat() drops the marker with every other write).
LateAnswerKeepsNewer ==
    [][\A c \in Chats : chats'[c].state = "live" =>
         \A i \in DOMAIN chats[c].msgs :
            LET m == chats[c].msgs[i]
            IN  \/ m \in ToSet(chats'[c].msgs) \/ Unresolved(m)
                \/ m \in ToSet(chats[c].mark.had)]_vars

\* A question is stored before any answer to it, unless the answer is the
\* outcome of a confirmation panel: both pages order the two writes.
QuestionFirst ==
    [][\A call \in Pending \ calls' :
         (call.op = "answer" /\ call.conf # "done" /\ <<"assistant", call.chat, call.turn>> \in written')
            => \E c \in Chats : <<"user", c, call.turn>> \in written']_vars

\* An action runs once, however many pages approve it, unless another answer has
\* taken the place of its placeholder (claimConfirmation(), the disabled buttons).
OneRunPerToken ==
    \A c \in Chats, q \in Turns :
        (<<"token", c, q>> \in written /\ <<"replaced", c, q>> \notin written) => ran[c, q] <= 1

\* An app page that is free again shows no complete answer that is neither
\* stored nor on its way nor warned about (saveTurn(), showHistorySaveWarning()).
NoSilentLoss ==
    \A p \in AppPages : app[p].phase = "idle" =>
        \A i \in DOMAIN app[p].shown :
            LET m == app[p].shown[i]
            IN  (m.role = "assistant" /\ m.done /\ m.text /\ ~m.error /\ (m.conf # "open" \/ m.token)) =>
                    \/ \E c \in Chats : <<"assistant", c, m.turn>> \in written
                    \/ m.turn \in app[p].warned
                    \/ \E call \in calls : call.page = p /\ call.turn = m.turn

\* What a regeneration cuts from a chat, its page has shown: no answer of another
\* tab is overwritten unseen (the revision a page sends with a regeneration).
OnlySeenIsTruncated ==
    [][\A call \in Pending \ calls', m \in Message :
         (call.page \in AppPages /\ call.op = "answer" /\ call.rev # 0
            /\ m \in ToSet(chats[call.chat].msgs) /\ m \notin ToSet(chats'[call.chat].msgs))
                => m.turn \in app[call.page].seen]_vars

\* A page that loads, streams or stores comes back: the user can send again, or
\* is offered to load the chat again.
ComposerComesBack ==
    /\ \A p \in AppPages : (Sending(app[p]) \/ app[p].phase = "loading")
                              ~> ~(Sending(app[p]) \/ app[p].phase = "loading")
    /\ \A s \in StandalonePages : IsSending(alone[s]) ~> ~IsSending(alone[s])

=============================================================================
