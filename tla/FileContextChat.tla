---------------------------- MODULE FileContextChat ----------------------------
(***************************************************************************)
(* The chat about selected files: src/views/FileContextChatView.vue.  The  *)
(* selection comes with the address of the page and may change while a     *)
(* status or an answer is under way.                                       *)
(*                                                                         *)
(* A selection is a number; 0 has no files, and of an odd one the index    *)
(* holds some.                                                             *)
(***************************************************************************)
EXTENDS PageRequests

CONSTANT Selections     \* bound: selections the page is opened with

ASSUME SelectionAssumption == Selections \subseteq Nat

VARIABLE fileChat       \* the state of the page

fileChatVars == <<fileChat>>

(***************************************************************************)
(* files: the selection whose files are listed.  messages: the selection   *)
(* each message was written for, and who wrote it.                         *)
(***************************************************************************)
NoFiles == 0

EmptyFileChat == [ids |-> 0, files |-> NoFiles, number |-> 0, loading |-> TRUE, loaded |-> FALSE,
                  error |-> FALSE, messages |-> <<>>, input |-> FALSE, busy |-> FALSE]

FileWish == [number |-> 0, ids |-> 0, kind |-> "answer", history |-> <<>>]

CanAsk(p) == p.loaded /\ ~p.error /\ p.files # NoFiles

FileStatusStarts(p) ==
    [p EXCEPT !.number = @ + 1, !.files = NoFiles, !.error = FALSE, !.loading = p.ids # 0, !.loaded = p.ids = 0]
FileStatusAsks(p) ==
    IF p.ids = 0 THEN <<>> ELSE <<Ask("filestatus", FALSE, [FileWish EXCEPT !.number = p.number + 1, !.ids = p.ids])>>

ServeFileChat ==
    /\ \E r \in net :
          /\ r.state = "sent"
          /\ \/ Answered(r, r.arg)
             \/ r.op = "fileask" /\ \E k \in {"error", "empty"} : Answered(r, [r.arg EXCEPT !.kind = k])
    /\ UNCHANGED <<fileChat, task, clicks, faults>>

ReloadFiles ==
    /\ fileChat.error /\ ~fileChat.loading
    /\ fileChat' = FileStatusStarts(fileChat)
    /\ Click("reload", FileStatusAsks(fileChat))

(* The watcher of the selection: the conversation begins again. *)
SelectFiles ==
    \E ids \in Selections \ {fileChat.ids} :
        LET p == [fileChat EXCEPT !.ids = ids, !.messages = <<>>, !.input = FALSE]
        IN  fileChat' = FileStatusStarts(p) /\ Click("files", FileStatusAsks(p))

IsNewestStatus(p, r) == r.arg.number = p.number

FileStatusBack ==
    \E r \in Back("filestatus") :
        /\ fileChat' = IF ~IsNewestStatus(fileChat, r) THEN fileChat
                       ELSE IF r.state = "failed" THEN [fileChat EXCEPT !.error = TRUE, !.loading = FALSE]
                       ELSE [fileChat EXCEPT !.loading = FALSE, !.loaded = TRUE,
                                !.files = IF r.arg.ids % 2 = 1 THEN r.arg.ids ELSE NoFiles]
        /\ React({r}, <<>>)

TypeFileQuestion ==
    /\ ~fileChat.busy /\ CanAsk(fileChat)
    /\ fileChat' = [fileChat EXCEPT !.input = TRUE]
    /\ Click("question", <<>>)

Said(p, role) == Append(p.messages, [ids |-> p.ids, role |-> role])

AskFiles ==
    /\ fileChat.input /\ ~fileChat.busy /\ CanAsk(fileChat)
    /\ fileChat' = [fileChat EXCEPT !.busy = TRUE, !.input = FALSE, !.messages = Said(fileChat, "user")]
    /\ Click("question", <<Ask("fileask", FALSE, [FileWish EXCEPT !.ids = fileChat.ids, !.history = fileChat.messages])>>)

(* An error and an empty answer are messages too. *)
FileAnswerBack ==
    \E r \in Back("fileask") :
        /\ fileChat' = [fileChat EXCEPT !.busy = FALSE,
              !.messages = Append(@, [ids |-> r.arg.ids,
                                      role |-> IF r.state = "answered" /\ r.got.kind = "answer" THEN "assistant" ELSE "error"])]
        /\ React({r}, <<>>)

InitFileChat ==
    \E ids \in Selections :
        LET p == [EmptyFileChat EXCEPT !.ids = ids]
        IN  fileChat = FileStatusStarts(p) /\ net = Sent(FileStatusAsks(p), [i \in DOMAIN FileStatusAsks(p) |-> i])

NextFileChat ==
    \/ ServeFileChat \/ ReloadFiles \/ SelectFiles \/ FileStatusBack
    \/ TypeFileQuestion \/ AskFiles \/ FileAnswerBack

=============================================================================
