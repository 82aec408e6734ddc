------------------------------- MODULE ChatExport -------------------------------
(***************************************************************************)
(* Export of the open chat, of the messages ticked in it, and of all chats *)
(* as one archive: lib/chat-export.js with exportChat() and                *)
(* exportAllChats() of vanilla.js and standalone-chat.js.                  *)
(*                                                                         *)
(* A message is a number and the day it was written, 0 when the server     *)
(* does not know it.  A chat is a number; a file name keeps only part of   *)
(* the id, so that two chats may want the same name.                       *)
(***************************************************************************)
EXTENDS PageRequests

CONSTANTS
    ExportChats,    \* chats of the user, numbers
    Workers,        \* bound: chats fetched at a time (4 in the code)
    MaxArchive,     \* bound: chats of an archive (100)
    ArchiveText     \* bound: messages of an archive (50 MB)

ASSUME ExportAssumption ==
    /\ ExportChats \subseteq Nat /\ IsFiniteSet(ExportChats) /\ ExportChats # {}
    /\ {Workers, MaxArchive, ArchiveText} \subseteq Nat

VARIABLES
    exporter,   \* the state of the page
    library     \* server: the messages of each chat, while it exists

exportVars == <<exporter, library>>

Formats == {"md", "txt", "docx", "html", "pdf"}
Days == 0..2
NoFile == [outcome |-> "none", messages |-> <<>>]
NoArchive == [n \in {} |-> NoFile]

(***************************************************************************)
(* picked: indexes of the ticked messages of chat.  number, list, got,     *)
(* next: the closures of the newest exportAllChats().                      *)
(***************************************************************************)
OpenedExport(side, chat) ==
    [side |-> side, format |-> "md", from |-> 0, to |-> 0, selecting |-> FALSE, picked |-> {}, chat |-> chat,
     messages |-> library[chat], file |-> NoFile, number |-> 0, phase |-> "idle", list |-> <<>>, got |-> <<>>,
     next |-> 1, failed |-> FALSE, error |-> FALSE, archive |-> NoArchive]

ExportWish == [number |-> 0, index |-> 0, chat |-> 0, list |-> <<>>, messages |-> <<>>]

ExportClick(act, p, asks) == exporter' = p /\ Click(act, asks) /\ UNCHANGED library

ServeExport ==
    /\ \E r \in net :
          /\ r.state = "sent"
          /\ IF r.op = "exportlist"
             THEN Answered(r, [r.arg EXCEPT !.list = Reverse(Ascending(DOMAIN library))])
             ELSE IF r.arg.chat \in DOMAIN library THEN Answered(r, [r.arg EXCEPT !.messages = library[r.arg.chat]])
             ELSE Refused(r)
    /\ UNCHANGED <<exporter, library, task, clicks, faults>>

\* Another page deletes a chat.
ChatsChange ==
    \E c \in DOMAIN library :
        /\ library' = [d \in DOMAIN library \ {c} |-> library[d]]
        /\ Click("other", <<>>)
        /\ UNCHANGED exporter

(***************************************************************************)
(* createChatExport() and createChatArchive().                             *)
(***************************************************************************)
DatesFit(p) == p.from = 0 \/ p.to = 0 \/ p.from <= p.to
InDates(p, m) ==
    \/ p.from = 0 /\ p.to = 0
    \/ m.day # 0 /\ p.from <= m.day /\ (p.to = 0 \/ m.day <= p.to)

Filtered(p, messages) == Taken(messages, {i \in DOMAIN messages : InDates(p, messages[i])})

Exported(p, messages) ==
    IF ~DatesFit(p) THEN [NoFile EXCEPT !.outcome = "error"]
    ELSE [outcome |-> IF p.format = "pdf" THEN "print" ELSE "file", messages |-> Filtered(p, messages)]

KeptOf(chat) == IF chat = 2 THEN 1 ELSE chat

EntryName(p, index) ==
    LET taken == \E i \in 1..(index - 1) : KeptOf(p.got[i].chat) = KeptOf(p.got[index].chat)
    IN  <<KeptOf(p.got[index].chat), IF taken THEN index ELSE 0>>

TooMuchText(p) == FoldLeft(LAMBDA n, chat : n + Len(chat.messages), 0, p.got) > ArchiveText

ArchiveFails(p) ==
    \/ p.list = <<>> \/ Len(p.list) > MaxArchive \/ p.format = "pdf"
    \/ \E i \in DOMAIN p.got : p.got[i].chat = 0
    \/ TooMuchText(p)
    \/ ~DatesFit(p)

Archive(p) ==
    LET names == {EntryName(p, i) : i \in DOMAIN p.got}
    IN  [name \in names |->
            LET last == CHOOSE i \in DOMAIN p.got :
                            EntryName(p, i) = name /\ \A j \in DOMAIN p.got : EntryName(p, j) = name => j <= i
            IN  [chat |-> p.got[last].chat, messages |-> Filtered(p, p.got[last].messages)]]

(***************************************************************************)
(* The options, and the messages of the open chat.                         *)
(***************************************************************************)
ChooseOptions ==
    \/ \E f \in Formats \ {exporter.format} : ExportClick("options", [exporter EXCEPT !.format = f], <<>>)
    \/ \E from, to \in Days : ExportClick("options", [exporter EXCEPT !.from = from, !.to = to], <<>>)

ToggleSelection == ExportClick("select", [exporter EXCEPT !.selecting = ~@, !.picked = {}], <<>>)

TickMessage ==
    \E i \in DOMAIN exporter.messages :
        /\ exporter.selecting
        /\ ExportClick("tick", [exporter EXCEPT !.picked = IF i \in @ THEN @ \ {i} ELSE @ \cup {i}], <<>>)

\* A turn, or an answer written again: the ticks stay with the indexes.
ChatGoesOn ==
    \E keep \in {Len(exporter.messages)} \cup {0} :
        ExportClick("turn", [exporter EXCEPT !.messages = Append(SubSeq(@, 1, keep), [n |-> clicks + 10, day |-> 2])], <<>>)

OpenChat ==
    \E c \in DOMAIN library \ {exporter.chat} :
        ExportClick("open", [exporter EXCEPT !.chat = c, !.messages = library[c], !.picked = {}], <<>>)

(* The button is disabled when there is nothing to export; ticks of        *)
(* messages that are gone count for it.                                    *)
ExportChat ==
    LET chosen == Taken(exporter.messages, {i \in DOMAIN exporter.messages : i \in exporter.picked \/ ~exporter.selecting})
        file == Exported(exporter, chosen)
    IN  /\ exporter.messages # <<>> /\ (exporter.selecting => exporter.picked # {})
        /\ ExportClick("export",
               IF exporter.selecting /\ chosen = <<>> THEN exporter
               ELSE IF file.outcome = "error" THEN [exporter EXCEPT !.error = exporter.side = "app" \/ @]
               ELSE [exporter EXCEPT !.file = file], <<>>)

(***************************************************************************)
(* exportAllChats().  The workers take the next chat when they are done    *)
(* with one; the options are read when the last one is done.               *)
(***************************************************************************)
ExportAllChats ==
    /\ exporter.phase = "idle"
    /\ ExportClick("all", [exporter EXCEPT !.phase = "busy", !.error = FALSE, !.number = @ + 1, !.failed = FALSE],
                   <<Ask("exportlist", exporter.side = "app", [ExportWish EXCEPT !.number = exporter.number + 1])>>)

FetchAsk(p, index) ==
    Ask("exportchat", p.side = "app", [ExportWish EXCEPT !.number = p.number, !.index = index, !.chat = p.list[index]])

Packed(p) ==
    IF ArchiveFails(p) THEN [p EXCEPT !.phase = "idle", !.error = TRUE]
    ELSE [p EXCEPT !.phase = "idle", !.archive = Archive(p)]

ExportListBack ==
    \E r \in Back("exportlist") :
        LET n == Len(r.got.list)
            first == IF n < Workers THEN n ELSE Workers
            p == [exporter EXCEPT !.list = r.got.list, !.got = [i \in 1..n |-> [chat |-> 0, messages |-> <<>>]], !.next = first + 1]
        IN  /\ exporter' = IF r.state = "failed" THEN [exporter EXCEPT !.phase = "idle", !.error = TRUE]
                           ELSE IF n = 0 THEN Packed(p) ELSE p
            /\ React({r}, IF r.state = "failed" THEN <<>> ELSE [i \in 1..first |-> FetchAsk(p, i)])
            /\ UNCHANGED library

ChatFetched ==
    \E r \in Back("exportchat") :
        LET mine == r.arg.number = exporter.number /\ ~exporter.failed
            p == [exporter EXCEPT !.got[r.arg.index] = [chat |-> r.arg.chat, messages |-> r.got.messages]]
            goesOn == p.next <= Len(p.list)
            others == {q \in Open("exportchat") : q.arg.number = r.arg.number} \ {r}
        IN  /\ exporter' = CASE ~mine -> exporter
                             [] mine /\ r.state = "failed" -> [exporter EXCEPT !.failed = TRUE, !.phase = "idle", !.error = TRUE]
                             [] mine /\ r.state # "failed" /\ goesOn -> [p EXCEPT !.next = @ + 1]
                             [] OTHER -> IF others = {} THEN Packed(p) ELSE p
            /\ React({r}, IF mine /\ r.state = "answered" /\ goesOn THEN <<FetchAsk(p, p.next)>> ELSE <<>>)
            /\ UNCHANGED library

InitExport ==
    /\ \E large \in {0, 1}, day \in {0, 1} :
          library = [c \in ExportChats |-> [i \in 1..(IF c <= large THEN 2 ELSE 1) |-> [n |-> i, day |-> day]]]
    /\ \E side \in {"app", "standalone"}, c \in ExportChats : exporter = OpenedExport(side, c)
    /\ net = {}

NextExport ==
    \/ ServeExport \/ ChatsChange \/ ChooseOptions \/ ToggleSelection \/ TickMessage \/ ChatGoesOn \/ OpenChat
    \/ ExportChat \/ ExportAllChats \/ ExportListBack \/ ChatFetched

=============================================================================
