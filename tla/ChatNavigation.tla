---------------------------- MODULE ChatNavigation ----------------------------
(***************************************************************************)
(* The shell of the app: App.vue, the routes of useNavigation.js, the      *)
(* dashboard (HomeView.vue) and the mounting of one chat (ChatView.vue).   *)
(* What a mounted chat does is module AppChatPage; here it becomes ready   *)
(* or fails, sends the prompt typed on the dashboard, and reports a stored *)
(* turn.                                                                   *)
(*                                                                         *)
(* A chat is stored under the time of its last change; times are distinct. *)
(* Folders, tags and titles are left out, archived chats too.              *)
(***************************************************************************)
EXTENDS PageRequests

CONSTANTS
    ListedChats,    \* ids a chat can get
    NoListed,       \* no chat
    Queries,        \* texts typed into the search field
    PageSize        \* bound: chats in a page of the list (50 in the code)

NoQuery == "none"

ASSUME NavigationAssumption ==
    /\ PageSize \in Nat \ {0} /\ NoListed \notin ListedChats /\ NoQuery \notin Queries
    /\ IsFiniteSet(ListedChats) /\ ListedChats # {}

VARIABLES
    nav,        \* the state of the shell
    changed,    \* server: the time of a chat's last change, 0 when there is none
    blank,      \* server: chats without a message
    visited     \* the chats in the history of the browser

navVars == <<nav, changed, blank, visited>>

Routes == {"home", "chat", "other"}
NoDialog == [mode |-> "none", chat |-> NoListed, busy |-> FALSE]
NoPane == [chat |-> NoListed, state |-> "none"]
NoResults == [query |-> NoQuery, chats |-> {}]

(***************************************************************************)
(* deep: the chat parameter of the first URL.  made: the chat whose create *)
(* answer is kept (currentChatData).  prompt: the number of the prompt     *)
(* that waits (pendingPrompt), 0 for none; sent: the prompts sent so far.  *)
(* timer: the 220 ms before a search.  next: the cursor, 0 at the end.     *)
(***************************************************************************)
FirstNav(deep) ==
    [deep |-> deep, view |-> IF deep = "no" THEN "home" ELSE "chat",
     current |-> NoListed, made |-> NoListed, prompt |-> 0, typed |-> 0, sent |-> <<>>,
     list |-> <<>>, next |-> 0, loading |-> TRUE, more |-> FALSE, error |-> FALSE, busy |-> FALSE,
     filter |-> NoQuery, results |-> NoResults, timer |-> FALSE, dialog |-> NoDialog, pane |-> NoPane]

(***************************************************************************)
(* ChatView: a chat is mounted when it is shown for the first time or in   *)
(* the place of another.  Without a chat, or with the answer that created  *)
(* it, the composer is ready at once.  A ready composer sends the prompt   *)
(* that waits, and the prompt is consumed.                                 *)
(***************************************************************************)
Mounted(n) ==
    IF n.view # "chat" THEN NoPane
    ELSE IF n.pane.state # "none" /\ n.pane.chat = n.current THEN n.pane
    ELSE [chat |-> n.current, state |-> IF n.current \in {NoListed, n.made} THEN "ready" ELSE "loading"]

(* Slip: the prompt is not consumed, and sent again by the next mount. *)
AppliedAgain(n) ==
    IF n.pane.state = "ready" /\ n.prompt # 0 /\ n.pane # nav.pane
    THEN [n EXCEPT !.sent = Append(@, n.prompt)] ELSE n
Applied(n) ==
    IF n.pane.state = "ready" /\ n.prompt # 0
    THEN [n EXCEPT !.sent = Append(@, n.prompt), !.prompt = 0] ELSE n

Show(n) == nav' = Applied([n EXCEPT !.pane = Mounted(n)]) /\ visited' = visited \cup ({nav'.current} \ {NoListed})

(***************************************************************************)
(* The server: pages of the list, newest first.                            *)
(***************************************************************************)
Param == [chat |-> NoListed, cursor |-> 0, query |-> NoQuery, then |-> "nothing", prompt |-> 0,
          list |-> <<>>, next |-> 0, found |-> {}]

Stored == {c \in ListedChats : changed[c] > 0}
Now == 1 + Max({0} \cup {changed[c] : c \in ListedChats})

PageBefore(cursor) ==
    LET older == {c \in Stored : cursor = 0 \/ changed[c] < cursor}
        newest == {c \in older : Cardinality({d \in older : changed[d] > changed[c]}) < PageSize}
        times == Reverse(Ascending({changed[c] : c \in newest}))
        page == [n \in DOMAIN times |-> CHOOSE c \in newest : changed[c] = times[n]]
    IN  [Param EXCEPT !.list = page,
            !.next = IF Cardinality(older) > PageSize THEN changed[Last(page)] ELSE 0]

Touch(r, c) ==
    IF c \in Stored
    THEN changed' = [changed EXCEPT ![c] = Now] /\ Answered(r, Param) /\ UNCHANGED blank
    ELSE Refused(r) /\ UNCHANGED <<changed, blank>>

(* A chat without a message is used again. *)
Create(r) ==
    LET free == IF blank # {} THEN blank ELSE ListedChats \ Stored
    IN  \/ \E c \in free :
              /\ changed' = IF blank = {} THEN [changed EXCEPT ![c] = Now] ELSE changed
              /\ blank' = blank \cup {c}
              /\ Answered(r, [Param EXCEPT !.chat = c])
        \/ free = {} /\ Refused(r) /\ UNCHANGED <<changed, blank>>

Discard(r, gone) ==
    /\ changed' = [c \in ListedChats |-> IF c \in gone THEN 0 ELSE changed[c]]
    /\ blank' = blank \ gone
    /\ Answered(r, Param)

ServeNavigation ==
    /\ \E r \in net :
          /\ r.state = "sent"
          /\ \/ r.op \in {"page", "more"} /\ Answered(r, PageBefore(r.arg.cursor)) /\ UNCHANGED <<changed, blank>>
             \/ r.op = "search" /\ Answered(r, [Param EXCEPT !.found = Stored]) /\ UNCHANGED <<changed, blank>>
             \/ r.op = "create" /\ Create(r)
             \/ r.op \in {"meta", "rename"} /\ Touch(r, r.arg.chat)
             \/ /\ r.op = "delete"
                /\ IF r.arg.chat \in Stored THEN Discard(r, {r.arg.chat}) ELSE Refused(r) /\ UNCHANGED <<changed, blank>>
             \/ r.op = "clear" /\ Discard(r, Stored)
    /\ UNCHANGED <<nav, visited, task, clicks, faults>>

(***************************************************************************)
(* The list.  loadChats() starts again from the first page; nothing tells  *)
(* a late answer of an earlier call apart.                                 *)
(***************************************************************************)
ListOf(then) == Ask("page", TRUE, [Param EXCEPT !.then = then])
Reloading(n) == [n EXCEPT !.loading = TRUE, !.next = 0, !.error = FALSE]

Listed(n, page) ==
    [n EXCEPT !.list = page.list, !.next = page.next, !.error = FALSE, !.loading = FALSE,
        !.current = IF @ = NoListed /\ n.deep = "no" /\ page.list # <<>> THEN Head(page.list) ELSE @]

\* then: what the caller of loadChats() does afterwards.
ListBack ==
    \E r \in Back("page") :
        LET n == IF r.state = "answered" THEN Listed(nav, r.got)
                 ELSE [nav EXCEPT !.error = TRUE, !.loading = FALSE]
            create == r.arg.then = "first" /\ n.deep = "fresh" /\ ~n.busy
        IN  /\ CASE r.arg.then = "leave" -> Show([n EXCEPT !.view = "home"])
                 [] r.arg.then = "first" /\ n.deep = "link" ->
                        \E c \in visited : Show([n EXCEPT !.current = c, !.view = "chat"])
                 [] create -> Show([n EXCEPT !.busy = TRUE])
                 [] OTHER -> Show(n)
            /\ React({r}, IF create THEN <<Ask("create", FALSE, Param)>> ELSE <<>>)
            /\ UNCHANGED <<changed, blank>>

(* Slip: the page is appended as it comes. *)
JoinedAll(list, page) == list \o page
Joined(list, page) == list \o Taken(page, {i \in DOMAIN page : page[i] \notin ToSet(list)})

LoadMore ==
    /\ ~nav.more /\ nav.next # 0
    /\ nav.filter = NoQuery /\ ~nav.loading
    /\ Click("more", <<Ask("more", TRUE, [Param EXCEPT !.cursor = nav.next])>>)
    /\ nav' = [nav EXCEPT !.more = TRUE]
    /\ UNCHANGED <<changed, blank, visited>>

MoreBack ==
    \E r \in Back("more") :
        /\ nav' = IF r.state = "answered"
                  THEN [nav EXCEPT !.more = FALSE, !.list = Joined(@, r.got.list), !.next = r.got.next]
                  ELSE [nav EXCEPT !.more = FALSE, !.error = TRUE]
        /\ React({r}, <<>>)
        /\ UNCHANGED <<changed, blank, visited>>

TryAgain ==
    /\ nav.view = "home" /\ nav.error /\ ~nav.loading
    /\ Click("retry", <<ListOf("nothing")>>)
    /\ nav' = Reloading(nav)
    /\ UNCHANGED <<changed, blank, visited>>

(***************************************************************************)
(* The search field.                                                       *)
(***************************************************************************)
TypeFilter ==
    \E q \in Queries \cup {NoQuery} :
        /\ q # nav.filter
        /\ Click("filter", <<>>)
        /\ nav' = [nav EXCEPT !.filter = q, !.timer = TRUE]
        /\ UNCHANGED <<changed, blank, visited>>

SearchMessages ==
    /\ nav.timer
    /\ nav' = [nav EXCEPT !.timer = FALSE, !.results = NoResults]
    /\ React({}, IF nav.filter = NoQuery THEN <<>> ELSE <<Ask("search", TRUE, [Param EXCEPT !.query = nav.filter])>>)
    /\ UNCHANGED <<changed, blank, visited>>

Fits(query) == nav.filter = query

SearchBack ==
    \E r \in Back("search") :
        /\ nav' = IF r.state = "failed" THEN [nav EXCEPT !.error = TRUE]
                  ELSE IF Fits(r.arg.query)
                  THEN [nav EXCEPT !.results = [query |-> r.arg.query, chats |-> r.got.found]] ELSE nav
        /\ React({r}, <<>>)
        /\ UNCHANGED <<changed, blank, visited>>

(***************************************************************************)
(* Opening chats.                                                          *)
(***************************************************************************)
\* newChat(): the button of the sidebar, or a prompt from the dashboard.
NewChat ==
    \E prompt \in BOOLEAN :
        /\ ~nav.busy /\ (prompt => nav.view = "home")
        /\ LET n == [nav EXCEPT !.busy = TRUE, !.typed = IF prompt THEN @ + 1 ELSE @]
           IN  /\ nav' = n
               /\ Click("new", <<Ask("create", FALSE, [Param EXCEPT !.prompt = IF prompt THEN n.typed ELSE 0])>>)
        /\ UNCHANGED <<changed, blank, visited>>

CreateBack ==
    \E r \in Back("create") :
        /\ IF r.state = "answered"
           THEN /\ Show(Reloading([nav EXCEPT !.busy = FALSE, !.prompt = r.arg.prompt, !.made = r.got.chat,
                                    !.current = r.got.chat, !.view = "chat"]))
                /\ React({r}, <<ListOf("nothing")>>)
           ELSE /\ Show([nav EXCEPT !.busy = FALSE, !.error = TRUE])
                /\ React({r}, <<>>)
        /\ UNCHANGED <<changed, blank>>

\* selectChat(): from the list or from the results of a search.
SelectChat ==
    \E c \in ToSet(nav.list) \cup nav.results.chats :
        /\ Click("select", <<>>)
        /\ Show([nav EXCEPT !.made = NoListed, !.prompt = 0, !.current = c, !.view = "chat",
                   !.timer = @ \/ nav.filter # NoQuery, !.filter = NoQuery,
                   !.results = IF nav.filter # NoQuery THEN NoResults ELSE @])
        /\ UNCHANGED <<changed, blank>>

Navigate ==
    \E view \in {"home", "other"} :
        /\ view # nav.view
        /\ Click("go", <<>>)
        /\ Show([nav EXCEPT !.view = view])
        /\ UNCHANGED <<changed, blank>>

\* onPopState(): back and forward in the history of the browser.
PopState ==
    \E c \in visited :
        /\ Click("back", <<>>)
        /\ Show([nav EXCEPT !.current = c, !.view = "chat"])
        /\ UNCHANGED <<changed, blank>>

\* renderer.ready; the page of a chat that is gone fails.
PaneReady ==
    /\ nav.pane.state = "loading"
    /\ \/ nav.pane.chat \in Stored /\ Show([nav EXCEPT !.pane.state = "ready"]) /\ UNCHANGED faults
       \/ nav.pane.chat \notin Stored /\ Show([nav EXCEPT !.pane.state = "failed"]) /\ UNCHANGED faults
       \/ faults < task.faults /\ faults' = faults + 1 /\ Show([nav EXCEPT !.pane.state = "failed"])
    /\ UNCHANGED <<task, net, clicks, changed, blank>>

(* The page stored a turn, in a new chat when it had none: onRecent. *)
ChatUpdated ==
    /\ nav.pane.state = "ready"
    /\ \E c \in IF nav.pane.chat = NoListed THEN ListedChats \ Stored ELSE {nav.pane.chat} \cap Stored :
          changed' = [changed EXCEPT ![c] = Now] /\ blank' = blank \ {c}
    /\ Click("turn", <<ListOf("nothing")>>)
    /\ nav' = Reloading(nav)
    /\ UNCHANGED visited

(***************************************************************************)
(* Pinning and archiving, the dialogs, and all chats deleted in Settings.  *)
(***************************************************************************)
UpdateMeta ==
    \E c \in ToSet(nav.list) :
        /\ Click("meta", <<Ask("meta", FALSE, [Param EXCEPT !.chat = c])>>)
        /\ UNCHANGED navVars

OpenDialog ==
    \E c \in ToSet(nav.list), mode \in {"rename", "delete"} :
        /\ nav.dialog = NoDialog
        /\ Click("dialog", <<>>)
        /\ nav' = [nav EXCEPT !.dialog = [mode |-> mode, chat |-> c, busy |-> FALSE]]
        /\ UNCHANGED <<changed, blank, visited>>

CloseDialog ==
    /\ nav.dialog # NoDialog /\ ~nav.dialog.busy
    /\ Click("dialog", <<>>)
    /\ nav' = [nav EXCEPT !.dialog = NoDialog]
    /\ UNCHANGED <<changed, blank, visited>>

ConfirmDialog ==
    /\ nav.dialog # NoDialog /\ ~nav.dialog.busy
    /\ Click("dialog", <<Ask(nav.dialog.mode, FALSE,
                   [Param EXCEPT !.chat = nav.dialog.chat,
                        !.then = IF nav.dialog.mode = "delete" /\ nav.current = nav.dialog.chat
                                 THEN "leave" ELSE "nothing"])>>)
    /\ nav' = [nav EXCEPT !.dialog.busy = TRUE]
    /\ UNCHANGED <<changed, blank, visited>>

ClearChats ==
    /\ nav.view = "other" /\ Open("clear") = {}
    /\ Click("clear", <<Ask("clear", FALSE, [Param EXCEPT !.then = "clear"])>>)
    /\ UNCHANGED navVars

\* meta, rename and delete are followed by loadChats(), as eva-ai:chats-cleared is.
ChangeBack ==
    \E r \in Back("meta") \cup Back("rename") \cup Back("delete") \cup Back("clear") :
        LET n == IF r.op \in {"rename", "delete"}
                 THEN [nav EXCEPT !.dialog = IF r.state = "answered" THEN NoDialog ELSE [@ EXCEPT !.busy = FALSE]]
                 ELSE IF r.op = "meta" THEN [nav EXCEPT !.error = (r.state = "failed")]
                 ELSE nav
        IN  /\ IF r.state = "answered"
               THEN /\ Show(Reloading([n EXCEPT !.current = IF r.arg.then = "nothing" THEN @ ELSE NoListed]))
                    /\ React({r}, <<ListOf(IF r.arg.then = "leave" THEN "leave" ELSE "nothing")>>)
               ELSE Show(n) /\ React({r}, <<>>)
            /\ UNCHANGED <<changed, blank>>

(***************************************************************************)
(* The view.  The first URL may hold a chat, or ask for a new one.         *)
(***************************************************************************)
InitNavigation ==
    /\ \E deep \in {"no", "fresh", "link"} \cap task.acts :
          nav = [FirstNav(deep) EXCEPT !.pane = Mounted(FirstNav(deep))]
    /\ \E order \in SetToAllKPermutations(ListedChats) :
          changed = [c \in ListedChats |->
                        IF c \in ToSet(order) THEN CHOOSE t \in DOMAIN order : order[t] = c ELSE 0]
    /\ blank = {}
    /\ visited = IF nav.deep = "link" THEN {CHOOSE c \in ListedChats : TRUE} ELSE {}
    /\ net = Sent(<<ListOf("first")>>, <<1>>)

UserNavigates ==
    \/ LoadMore \/ TryAgain \/ TypeFilter \/ NewChat \/ SelectChat \/ Navigate \/ PopState
    \/ ChatUpdated \/ UpdateMeta \/ OpenDialog \/ CloseDialog \/ ConfirmDialog \/ ClearChats
ShellReacts == ListBack \/ MoreBack \/ SearchMessages \/ SearchBack \/ CreateBack \/ ChangeBack \/ PaneReady

NextNavigation == ServeNavigation \/ UserNavigates \/ ShellReacts

=============================================================================
