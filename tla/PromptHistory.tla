----------------------------- MODULE PromptHistory -----------------------------
(***************************************************************************)
(* The questions a browser remembers: src/src/lib/prompt-history.js, and   *)
(* the panel of a chat page that lists them.  The pages of one browser     *)
(* share the store; a page shows the rows it read last.  One call reads    *)
(* and writes the store in one step, as its script does; a browser may     *)
(* refuse the write.                                                       *)
(***************************************************************************)
EXTENDS PageRequests

CONSTANTS
    MaxPrompts,     \* MAX_PROMPTS
    PromptTabs      \* bound: open pages

ASSUME PromptAssumption == MaxPrompts \in Nat \ {0}

VARIABLES
    remembered,     \* the store: the question used last stands first (the clock goes forward)
    panes           \* each page: the panel, and the text in its composer

promptVars == <<remembered, panes>>

\* A search finds a text or the category with its name.
PromptTexts == {"a", "b", "c"}
PromptSearches == {"", "a", "work"}
Categories == {"", "work"}

Holds(item, query) == query \in {"", item.text, item.category}

EmptyStore == [items |-> <<>>, last |-> 0]

ClosedPane == [open |-> FALSE, query |-> "", rows |-> <<>>, input |-> ""]

(***************************************************************************)
(* The store.                                                              *)
(***************************************************************************)
Sorted(s, query) ==
    LET found == {i \in DOMAIN s.items : Holds(s.items[i], query)}
        first == {i \in found : s.items[i].favorite}
    IN  Taken(s.items, first) \o Taken(s.items, found \ first)

Cut(items) == SubSeq(items, 1, IF Len(items) < MaxPrompts THEN Len(items) ELSE MaxPrompts)

(* A known text moves to the front with its marks, a new one begins without. *)
Recorded(s, text) ==
    LET places == {i \in DOMAIN s.items : s.items[i].text = text}
        known == Taken(s.items, places)
        others == Taken(s.items, DOMAIN s.items \ places)
    IN  IF known # <<>> THEN [s EXCEPT !.items = Cut(known \o others)]
        ELSE [items |-> Cut(<<[id |-> s.last + 1, text |-> text, favorite |-> FALSE, category |-> ""]>> \o others),
              last |-> s.last + 1]

\* An id that was dropped meanwhile changes nothing.
Marked(s, id, favorite, category) ==
    [s EXCEPT !.items = [i \in DOMAIN @ |->
        IF @[i].id = id THEN [@[i] EXCEPT !.favorite = favorite, !.category = category] ELSE @[i]]]

(***************************************************************************)
(* The panel of a page.                                                    *)
(***************************************************************************)
PaneDoes(act, tab, pane, new) ==
    \E s \in {new, remembered} :
        /\ remembered' = s
        /\ panes' = [panes EXCEPT ![tab] = [pane EXCEPT !.rows = Sorted(s, pane.query)]]
        /\ Click(act, <<>>)

TypePrompt ==
    \E tab \in PromptTabs, text \in PromptTexts :
        /\ panes' = [panes EXCEPT ![tab].input = text]
        /\ Click("type", <<>>) /\ UNCHANGED remembered

\* send() records the question and lists the panel again.
RecordPrompt ==
    \E tab \in PromptTabs :
        /\ panes[tab].input # ""
        /\ PaneDoes("send", tab, [panes[tab] EXCEPT !.input = ""], Recorded(remembered, panes[tab].input))

OpenPrompts ==
    \E tab \in PromptTabs :
        IF panes[tab].open
        THEN panes' = [panes EXCEPT ![tab].open = FALSE] /\ Click("panel", <<>>) /\ UNCHANGED remembered
        ELSE PaneDoes("panel", tab, [panes[tab] EXCEPT !.open = TRUE], remembered)

SearchPrompts ==
    \E tab \in PromptTabs, query \in PromptSearches :
        /\ panes[tab].open /\ query # panes[tab].query
        /\ PaneDoes("search", tab, [panes[tab] EXCEPT !.query = query], remembered)

ReusePrompt ==
    \E tab \in PromptTabs :
        /\ panes[tab].open
        /\ \E i \in DOMAIN panes[tab].rows :
              panes' = [panes EXCEPT ![tab].open = FALSE, ![tab].input = panes[tab].rows[i].text]
        /\ Click("reuse", <<>>) /\ UNCHANGED remembered

\* The row says what the mark is turned from; update() keeps the other one.
MarkPrompt ==
    \E tab \in PromptTabs :
        /\ panes[tab].open
        /\ \E i \in DOMAIN panes[tab].rows :
              LET row == panes[tab].rows[i]
                  now == Taken(remembered.items, {j \in DOMAIN remembered.items : remembered.items[j].id = row.id})
              IN  \/ PaneDoes("mark", tab, panes[tab],
                        IF now = <<>> THEN remembered ELSE Marked(remembered, row.id, ~row.favorite, now[1].category))
                  \/ \E category \in Categories :
                        PaneDoes("mark", tab, panes[tab],
                            IF now = <<>> THEN remembered ELSE Marked(remembered, row.id, now[1].favorite, category))

InitPrompts == remembered = EmptyStore /\ panes = [tab \in PromptTabs |-> ClosedPane] /\ net = {}

NextPrompts == TypePrompt \/ RecordPrompt \/ OpenPrompts \/ SearchPrompts \/ ReusePrompt \/ MarkPrompt

=============================================================================
