------------------------ MODULE FrontendViews_proofs ------------------------
(***************************************************************************)
(* Theorems about FrontendViews: the page that is open keeps its invariant *)
(* (FrontendPages_proofs, and here for prompts and export), and a page that *)
(* is not open stays as it is.                                             *)
(***************************************************************************)
EXTENDS FrontendPages_proofs

-----------------------------------------------------------------------------
(* The history of the prompts. *)

PromptItems == [id: Nat \ {0}, text: PromptTexts, favorite: BOOLEAN, category: Categories]
PromptStores == [items: Seq(PromptItems), last: Nat]
PromptPanes == [open: BOOLEAN, query: PromptSearches, rows: Seq(PromptItems), input: PromptTexts \cup {""}]

TextsOnce(items) == \A i, j \in DOMAIN items : items[i].text = items[j].text => i = j
NumberedTo(items, last) == \A i \in DOMAIN items : items[i].id <= last

(* A store names a question once, and gives its rows numbers that it has given. *)
StoreIsFine(s) ==
    s \in PromptStores /\ Len(s.items) <= MaxPrompts /\ TextsOnce(s.items) /\ NumberedTo(s.items, s.last)

PromptsInv ==
    /\ UnderWay({}, {})
    /\ StoreIsFine(remembered)
    /\ panes \in [PromptTabs -> PromptPanes]
    /\ \A tab \in PromptTabs : NumberedTo(panes[tab].rows, remembered.last)

LEMMA PromptFields ==
    /\ \A s \in PromptStores : s.items \in Seq(PromptItems) /\ s.last \in Nat
    /\ \A p \in PromptPanes : /\ p.open \in BOOLEAN /\ p.query \in PromptSearches /\ p.rows \in Seq(PromptItems)
                              /\ p.input \in PromptTexts \cup {""}
    /\ \A m \in PromptItems : /\ m.id \in Nat \ {0} /\ m.text \in PromptTexts /\ m.favorite \in BOOLEAN
                              /\ m.category \in Categories
BY DEF PromptStores, PromptPanes, PromptItems

LEMMA ItemsAreItems ==
    ASSUME NEW items \in Seq(PromptItems), NEW i \in DOMAIN items
    PROVE  items[i] \in PromptItems
OBVIOUS

(* A selection of rows names a question once, as the rows do. *)
LEMMA SelectionOfItems ==
    ASSUME NEW items \in Seq(PromptItems), NEW last \in Nat, NumberedTo(items, last), NEW places \in SUBSET DOMAIN items
    PROVE  /\ Taken(items, places) \in Seq(PromptItems) /\ NumberedTo(Taken(items, places), last)
           /\ TextsOnce(items) => TextsOnce(Taken(items, places))
           /\ \A i \in DOMAIN Taken(items, places) : \E j \in places : Taken(items, places)[i] = items[j]
           /\ Taken(items, places) = <<>> => places = {}
<1> DEFINE n == Cardinality(places)
           t == Taken(items, places)
           at == Ascending(places)
<1>1. /\ IsFiniteSet(places) /\ n \in Nat /\ t \in Seq(PromptItems) /\ Len(t) = n
      /\ \A i \in 1..n : at[i] \in places /\ t[i] = items[at[i]]
      /\ \A i, j \in 1..n : i < j => at[i] < at[j]
      /\ \A i \in places : \E k \in 1..n : at[k] = i
  BY TakenInOrder
<1> HIDE DEF t, at, n
<1>2. DOMAIN t = 1..n
  BY <1>1
<1>3. \A i \in DOMAIN items : items[i] \in PromptItems /\ i \in Nat
  BY ItemsAreItems
<1>4. \A i, j \in 1..n : at[i] = at[j] => i = j
  <2> SUFFICES ASSUME NEW i \in 1..n, NEW j \in 1..n, at[i] = at[j], i # j PROVE FALSE
    OBVIOUS
  <2>1. i < j \/ j < i
    OBVIOUS
  <2>2. at[i] \in Nat /\ at[j] \in Nat
    BY <1>1, <1>3
  <2> QED
    BY <1>1, <2>1, <2>2
<1>5. TextsOnce(items) => TextsOnce(t)
  BY <1>1, <1>2, <1>4 DEF TextsOnce
<1>6. NumberedTo(t, last)
  BY <1>1, <1>2 DEF NumberedTo
<1>7. \A i \in DOMAIN t : \E j \in places : t[i] = items[j]
  BY <1>1, <1>2
<1>8. t = <<>> => places = {}
  BY <1>1
<1> QED
  BY <1>1, <1>5, <1>6, <1>7, <1>8 DEF t

LEMMA ItemsInARow ==
    ASSUME NEW f \in Seq(PromptItems), NEW o \in Seq(PromptItems), NEW last \in Nat, NumberedTo(f, last), NumberedTo(o, last)
    PROVE  /\ f \o o \in Seq(PromptItems) /\ NumberedTo(f \o o, last)
           /\ (TextsOnce(f) /\ TextsOnce(o) /\ \A i \in DOMAIN f, j \in DOMAIN o : f[i].text # o[j].text)
              => TextsOnce(f \o o)
<1> DEFINE s == f \o o
<1>1. /\ s \in Seq(PromptItems) /\ DOMAIN s = 1..(Len(f) + Len(o)) /\ Len(f) \in Nat /\ Len(o) \in Nat
      /\ DOMAIN f = 1..Len(f) /\ DOMAIN o = 1..Len(o)
      /\ \A i \in DOMAIN s : s[i] = IF i <= Len(f) THEN f[i] ELSE o[i - Len(f)]
  OBVIOUS
<1> HIDE DEF s
<1>2. \A i \in DOMAIN s : IF i <= Len(f) THEN i \in DOMAIN f ELSE i - Len(f) \in DOMAIN o
  BY <1>1
<1>3. NumberedTo(s, last)
  BY <1>1, <1>2 DEF NumberedTo
<1>4. ASSUME TextsOnce(f), TextsOnce(o), \A i \in DOMAIN f, j \in DOMAIN o : f[i].text # o[j].text
      PROVE  TextsOnce(s)
  <2> SUFFICES ASSUME NEW i \in DOMAIN s, NEW j \in DOMAIN s, s[i].text = s[j].text
               PROVE  i = j
    BY DEF TextsOnce
  <2>0. i \in Nat /\ j \in Nat
    BY <1>1
  <2>1. CASE i <= Len(f) /\ j <= Len(f)
    BY <1>1, <1>2, <1>4, <2>1 DEF TextsOnce
  <2>2. CASE i > Len(f) /\ j > Len(f)
    <3>1. i - Len(f) \in DOMAIN o /\ j - Len(f) \in DOMAIN o /\ s[i] = o[i - Len(f)] /\ s[j] = o[j - Len(f)]
      BY <1>1, <1>2, <2>0, <2>2
    <3>2. i - Len(f) = j - Len(f)
      BY <1>4, <3>1 DEF TextsOnce
    <3> QED
      BY <1>1, <2>0, <3>2
  <2>3. CASE i <= Len(f) /\ j > Len(f)
    <3>1. i \in DOMAIN f /\ j - Len(f) \in DOMAIN o /\ s[i] = f[i] /\ s[j] = o[j - Len(f)]
      BY <1>1, <1>2, <2>0, <2>3
    <3> QED
      BY <1>4, <3>1
  <2>4. CASE i > Len(f) /\ j <= Len(f)
    <3>1. j \in DOMAIN f /\ i - Len(f) \in DOMAIN o /\ s[j] = f[j] /\ s[i] = o[i - Len(f)]
      BY <1>1, <1>2, <2>0, <2>4
    <3> QED
      BY <1>4, <3>1
  <2> QED
    BY <1>1, <2>0, <2>1, <2>2, <2>3, <2>4
<1> QED
  BY <1>1, <1>3, <1>4 DEF s

LEMMA HistoryIsCut ==
    ASSUME NEW items \in Seq(PromptItems), NEW last \in Nat, NumberedTo(items, last), TextsOnce(items)
    PROVE  /\ Cut(items) \in Seq(PromptItems) /\ Len(Cut(items)) <= MaxPrompts
           /\ NumberedTo(Cut(items), last) /\ TextsOnce(Cut(items))
<1> DEFINE n == IF Len(items) < MaxPrompts THEN Len(items) ELSE MaxPrompts
<1>1. MaxPrompts \in Nat /\ Len(items) \in Nat /\ n \in Nat /\ n <= Len(items) /\ n <= MaxPrompts
  BY PromptAssumption
<1>2. Cut(items) = SubSeq(items, 1, n)
  BY DEF Cut
<1> HIDE DEF n
<1>3. /\ SubSeq(items, 1, n) \in Seq(PromptItems) /\ Len(SubSeq(items, 1, n)) = n
      /\ \A i \in 1..n : SubSeq(items, 1, n)[i] = items[i] /\ i \in DOMAIN items
  BY <1>1
<1>4. DOMAIN SubSeq(items, 1, n) = 1..n
  BY <1>3
<1> QED
  BY <1>1, <1>2, <1>3, <1>4 DEF NumberedTo, TextsOnce

LEMMA PromptIsRecorded ==
    ASSUME NEW s, StoreIsFine(s), NEW text \in PromptTexts
    PROVE  StoreIsFine(Recorded(s, text)) /\ Recorded(s, text).last >= s.last
<1> DEFINE items == s.items
           places == {i \in DOMAIN items : items[i].text = text}
           rest == DOMAIN items \ places
           known == Taken(items, places)
           others == Taken(items, rest)
           no == FALSE
           none == ""
           number == s.last + 1
           new == [id |-> number, text |-> text, favorite |-> no, category |-> none]
           first == <<new>>
<1>1. s \in PromptStores /\ items \in Seq(PromptItems) /\ s.last \in Nat /\ TextsOnce(items) /\ NumberedTo(items, s.last)
  BY PromptFields DEF StoreIsFine
<1>2. places \in SUBSET DOMAIN items /\ rest \in SUBSET DOMAIN items
  OBVIOUS
<1>3. /\ known \in Seq(PromptItems) /\ NumberedTo(known, s.last) /\ TextsOnce(known)
      /\ \A i \in DOMAIN known : \E j \in places : known[i] = items[j]
      /\ others \in Seq(PromptItems) /\ NumberedTo(others, s.last) /\ TextsOnce(others)
      /\ \A i \in DOMAIN others : \E j \in rest : others[i] = items[j]
  <2> HIDE DEF items, places, rest, known, others
  <2> QED
    BY <1>1, <1>2, SelectionOfItems DEF known, others
<1>4. /\ \A i \in DOMAIN known : known[i].text = text
      /\ \A i \in DOMAIN others : others[i].text # text
  <2> HIDE DEF known, others
  <2> QED
    BY <1>3
<1>5. Recorded(s, text) =
        IF known # <<>> THEN [s EXCEPT !.items = Cut(known \o others)]
        ELSE [items |-> Cut(first \o others), last |-> s.last + 1]
  BY DEF Recorded
<1>6. new \in PromptItems /\ new.text = text /\ new.id = s.last + 1 /\ s.last + 1 \in Nat
  <2>1. no \in BOOLEAN /\ none \in Categories
    BY DEF Categories
  <2>2. number \in Nat \ {0}
    BY <1>1
  <2> HIDE DEF no, none, number
  <2>3. new \in PromptItems /\ new.text = text /\ new.id = number
    BY <2>1, <2>2 DEF PromptItems
  <2> QED
    BY <2>2, <2>3 DEF number
<1> HIDE DEF new
<1>7. first \in Seq(PromptItems) /\ DOMAIN first = {1} /\ first[1] = new
  BY <1>6
<1> HIDE DEF items, places, rest, known, others, first
<1>8. CASE known # <<>>
  <2> DEFINE all == known \o others
  <2>1. all \in Seq(PromptItems) /\ NumberedTo(all, s.last) /\ TextsOnce(all)
    BY <1>1, <1>3, <1>4, ItemsInARow
  <2> DEFINE cut == Cut(all)
  <2> HIDE DEF all
  <2>2. cut \in Seq(PromptItems) /\ Len(cut) <= MaxPrompts /\ NumberedTo(cut, s.last) /\ TextsOnce(cut)
    BY <1>1, <2>1, HistoryIsCut
  <2>3. Recorded(s, text) = [s EXCEPT !.items = cut]
    BY <1>5, <1>8 DEF all
  <2> HIDE DEF cut
  <2>4. Recorded(s, text) \in PromptStores /\ Recorded(s, text).items = cut /\ Recorded(s, text).last = s.last
    BY <1>1, <2>2, <2>3 DEF PromptStores
  <2> QED
    BY <1>1, <2>2, <2>4 DEF StoreIsFine
<1>9. CASE known = <<>>
  <2> DEFINE all == first \o others
             last == s.last + 1
  <2>1. NumberedTo(first, last) /\ TextsOnce(first) /\ NumberedTo(others, last) /\ last \in Nat /\ last >= s.last
    <3>1. \A i \in DOMAIN others : others[i].id \in Nat
      BY <1>3, PromptFields, ItemsAreItems
    <3> QED
      BY <1>1, <1>3, <1>6, <1>7, <3>1 DEF NumberedTo, TextsOnce
  <2>2. \A i \in DOMAIN first, j \in DOMAIN others : first[i].text # others[j].text
    BY <1>4, <1>6, <1>7
  <2> HIDE DEF last
  <2>3. all \in Seq(PromptItems) /\ NumberedTo(all, last) /\ TextsOnce(all)
    BY <1>3, <1>7, <2>1, <2>2, ItemsInARow
  <2> DEFINE cut == Cut(all)
  <2> HIDE DEF all
  <2>4. cut \in Seq(PromptItems) /\ Len(cut) <= MaxPrompts /\ NumberedTo(cut, last) /\ TextsOnce(cut)
    BY <2>1, <2>3, HistoryIsCut
  <2>5. Recorded(s, text) = [items |-> cut, last |-> last]
    BY <1>5, <1>9 DEF all, last
  <2> HIDE DEF cut
  <2> QED
    BY <2>1, <2>4, <2>5 DEF StoreIsFine, PromptStores
<1> QED
  BY <1>8, <1>9

LEMMA PromptIsMarked ==
    ASSUME NEW s, StoreIsFine(s), NEW id, NEW favorite \in BOOLEAN, NEW category \in Categories
    PROVE  StoreIsFine(Marked(s, id, favorite, category)) /\ Marked(s, id, favorite, category).last = s.last
<1> DEFINE items == s.items
           Row(i) == IF items[i].id = id THEN [items[i] EXCEPT !.favorite = favorite, !.category = category] ELSE items[i]
           new == [i \in DOMAIN items |-> Row(i)]
<1>1. s \in PromptStores /\ items \in Seq(PromptItems) /\ s.last \in Nat /\ TextsOnce(items) /\ NumberedTo(items, s.last)
      /\ Len(items) <= MaxPrompts
  BY PromptFields DEF StoreIsFine
<1>2. ASSUME NEW i \in DOMAIN items
      PROVE  Row(i) \in PromptItems /\ Row(i).id = items[i].id /\ Row(i).text = items[i].text
  <2>1. items[i] \in PromptItems
    BY <1>1
  <2> QED
    BY <2>1 DEF PromptItems
<1>3. Marked(s, id, favorite, category) = [s EXCEPT !.items = new]
  BY DEF Marked
<1> HIDE DEF Row
<1>4. new \in Seq(PromptItems) /\ DOMAIN new = DOMAIN items /\ Len(new) = Len(items) /\ \A i \in DOMAIN items : new[i] = Row(i)
  BY <1>1, <1>2
<1> HIDE DEF new, items
<1>5. TextsOnce(new) /\ NumberedTo(new, s.last)
  BY <1>1, <1>2, <1>4 DEF TextsOnce, NumberedTo
<1>6. Marked(s, id, favorite, category) \in PromptStores /\ Marked(s, id, favorite, category).items = new
      /\ Marked(s, id, favorite, category).last = s.last
  BY <1>1, <1>3, <1>4 DEF PromptStores
<1> QED
  BY <1>1, <1>4, <1>5, <1>6 DEF StoreIsFine

LEMMA PromptsAreSorted ==
    ASSUME NEW s, StoreIsFine(s), NEW query
    PROVE  Sorted(s, query) \in Seq(PromptItems) /\ NumberedTo(Sorted(s, query), s.last)
<1> DEFINE items == s.items
           found == {i \in DOMAIN items : Holds(items[i], query)}
           first == {i \in found : items[i].favorite}
           rest == found \ first
<1>1. items \in Seq(PromptItems) /\ s.last \in Nat /\ NumberedTo(items, s.last)
  BY PromptFields DEF StoreIsFine
<1>2. first \in SUBSET DOMAIN items /\ rest \in SUBSET DOMAIN items
  OBVIOUS
<1>3. Sorted(s, query) = Taken(items, first) \o Taken(items, rest)
  BY DEF Sorted
<1> HIDE DEF items, found, first, rest
<1>4. /\ Taken(items, first) \in Seq(PromptItems) /\ NumberedTo(Taken(items, first), s.last)
      /\ Taken(items, rest) \in Seq(PromptItems) /\ NumberedTo(Taken(items, rest), s.last)
  BY <1>1, <1>2, SelectionOfItems
<1> QED
  BY <1>1, <1>3, <1>4, ItemsInARow

(* A click of this page sends nothing. *)
LEMMA NothingIsAsked ==
    ASSUME UnderWay({}, {}), NEW act, Click(act, <<>>)
    PROVE  UnderWay({}, {})' /\ task' = task
<1> DEFINE none == <<>>
<1>1. none \in Seq(AsksFor({}, {}))
  OBVIOUS
<1>2. Exchange({}, none) /\ task' = task /\ clicks' \in 0..task.clicks /\ faults' = faults
  BY Clicked1
<1> HIDE DEF none
<1> DEFINE done == {}
<1>3. Exchange(done, none)
  BY <1>2
<1> HIDE DEF done
<1> QED
  BY <1>1, <1>2, <1>3, Exchanged

LEMMA PaneIsListed ==
    ASSUME PromptsInv, NEW act, NEW tab \in PromptTabs, NEW pane \in PromptPanes, NEW new, StoreIsFine(new),
           new.last >= remembered.last, PaneDoes(act, tab, pane, new)
    PROVE  PromptsInv' /\ task' = task
<1>1. PICK s \in {new, remembered} :
         /\ remembered' = s
         /\ panes' = [panes EXCEPT ![tab] = [pane EXCEPT !.rows = Sorted(s, pane.query)]]
         /\ Click(act, <<>>)
  BY DEF PaneDoes
<1>2. UnderWay({}, {})' /\ task' = task
  BY <1>1, NothingIsAsked DEF PromptsInv
<1>3. StoreIsFine(remembered) /\ remembered.last \in Nat /\ new.last \in Nat
  BY PromptFields DEF PromptsInv, StoreIsFine
<1>4. StoreIsFine(s) /\ s.last \in Nat /\ s.last >= remembered.last
  BY <1>3
<1> DEFINE rows == Sorted(s, pane.query)
           p == [pane EXCEPT !.rows = rows]
<1>5. rows \in Seq(PromptItems) /\ NumberedTo(rows, s.last)
  BY <1>4, PromptsAreSorted
<1> HIDE DEF rows
<1>6. p \in PromptPanes /\ p.rows = rows
  BY <1>5 DEF PromptPanes
<1>7. panes' = [panes EXCEPT ![tab] = p]
  BY <1>1 DEF rows
<1> HIDE DEF p
<1>8. panes \in [PromptTabs -> PromptPanes]
  BY DEF PromptsInv
<1>9. panes' \in [PromptTabs -> PromptPanes]
  BY <1>6, <1>7, <1>8
<1>10. \A t \in PromptTabs : panes'[t] = IF t = tab THEN p ELSE panes[t]
  BY <1>7, <1>8
<1>11. \A t \in PromptTabs : NumberedTo(panes'[t].rows, s.last)
  <2> SUFFICES ASSUME NEW t \in PromptTabs PROVE NumberedTo(panes'[t].rows, s.last)
    OBVIOUS
  <2>1. CASE t = tab
    BY <1>5, <1>6, <1>10, <2>1
  <2>2. CASE t # tab
    <3>1. panes'[t] = panes[t] /\ panes[t].rows \in Seq(PromptItems) /\ NumberedTo(panes[t].rows, remembered.last)
      BY <1>8, <1>10, <2>2, PromptFields DEF PromptsInv
    <3>2. \A i \in DOMAIN panes[t].rows : panes[t].rows[i].id \in Nat
      BY <3>1, PromptFields, ItemsAreItems
    <3> QED
      BY <1>3, <1>4, <3>1, <3>2 DEF NumberedTo
  <2> QED
    BY <2>1, <2>2
<1> QED
  BY <1>1, <1>2, <1>4, <1>9, <1>11 DEF PromptsInv

LEMMA PanesNow ==
    ASSUME PromptsInv, NEW tab \in PromptTabs
    PROVE  /\ UnderWay({}, {}) /\ StoreIsFine(remembered) /\ panes \in [PromptTabs -> PromptPanes]
           /\ panes[tab] \in PromptPanes /\ panes[tab].open \in BOOLEAN /\ panes[tab].query \in PromptSearches
           /\ panes[tab].rows \in Seq(PromptItems) /\ panes[tab].input \in PromptTexts \cup {""}
           /\ remembered.last \in Nat /\ remembered.items \in Seq(PromptItems)
BY PromptFields DEF PromptsInv, StoreIsFine

(* The panel of a page changes, and neither its rows nor the store do.       *)
LEMMA PaneStays ==
    ASSUME PromptsInv, NEW tab \in PromptTabs, NEW p \in PromptPanes, p.rows = panes[tab].rows,
           panes' = [panes EXCEPT ![tab] = p], NEW act, Click(act, <<>>), UNCHANGED remembered
    PROVE  PromptsInv' /\ task' = task
<1>1. UnderWay({}, {})' /\ task' = task
  BY NothingIsAsked DEF PromptsInv
<1>2. panes \in [PromptTabs -> PromptPanes]
  BY DEF PromptsInv
<1>3. panes' \in [PromptTabs -> PromptPanes] /\ \A t \in PromptTabs : panes'[t].rows = panes[t].rows
  BY <1>2
<1>4. StoreIsFine(remembered) /\ \A t \in PromptTabs : NumberedTo(panes[t].rows, remembered.last)
  BY DEF PromptsInv
<1> QED
  BY <1>1, <1>3, <1>4 DEF PromptsInv

LEMMA PromptIsTyped ==
    ASSUME PromptsInv, TypePrompt
    PROVE  PromptsInv' /\ task' = task
<1>1. PICK tab \in PromptTabs, text \in PromptTexts :
         panes' = [panes EXCEPT ![tab].input = text] /\ Click("type", <<>>) /\ UNCHANGED remembered
  BY DEF TypePrompt
<1> DEFINE p == [panes[tab] EXCEPT !.input = text]
<1>2. panes' = [panes EXCEPT ![tab] = p]
  BY <1>1, PanesNow
<1>3. p \in PromptPanes /\ p.rows = panes[tab].rows
  BY PanesNow DEF PromptPanes
<1> HIDE DEF p
<1> QED
  BY <1>1, <1>2, <1>3, PaneStays

LEMMA PromptIsSent ==
    ASSUME PromptsInv, RecordPrompt
    PROVE  PromptsInv' /\ task' = task
<1>1. PICK tab \in PromptTabs :
         /\ panes[tab].input # ""
         /\ PaneDoes("send", tab, [panes[tab] EXCEPT !.input = ""], Recorded(remembered, panes[tab].input))
  BY DEF RecordPrompt
<1> DEFINE p == [panes[tab] EXCEPT !.input = ""]
           new == Recorded(remembered, panes[tab].input)
<1>2. p \in PromptPanes
  BY PanesNow DEF PromptPanes
<1>3. StoreIsFine(remembered) /\ panes[tab].input \in PromptTexts
  BY <1>1, PanesNow
<1>4. StoreIsFine(new) /\ new.last >= remembered.last
  BY <1>3, PromptIsRecorded
<1>5. PaneDoes("send", tab, p, new)
  BY <1>1
<1> HIDE DEF p, new
<1> QED
  BY <1>2, <1>4, <1>5, PaneIsListed

LEMMA PanelOpens ==
    ASSUME PromptsInv, OpenPrompts
    PROVE  PromptsInv' /\ task' = task
<1>1. PICK tab \in PromptTabs :
        IF panes[tab].open
        THEN panes' = [panes EXCEPT ![tab].open = FALSE] /\ Click("panel", <<>>) /\ UNCHANGED remembered
        ELSE PaneDoes("panel", tab, [panes[tab] EXCEPT !.open = TRUE], remembered)
  BY DEF OpenPrompts
<1>2. CASE panes[tab].open
  <2> DEFINE no == FALSE
             p == [panes[tab] EXCEPT !.open = no]
  <2>1. panes' = [panes EXCEPT ![tab] = p] /\ Click("panel", <<>>) /\ UNCHANGED remembered
    BY <1>1, <1>2, PanesNow
  <2>2. no \in BOOLEAN
    OBVIOUS
  <2> HIDE DEF no
  <2>3. p \in PromptPanes /\ p.rows = panes[tab].rows
    BY <2>2, PanesNow DEF PromptPanes
  <2> HIDE DEF p
  <2> QED
    BY <2>1, <2>3, PaneStays
<1>3. CASE ~panes[tab].open
  <2> DEFINE yes == TRUE
             p == [panes[tab] EXCEPT !.open = yes]
  <2>1. PaneDoes("panel", tab, p, remembered)
    BY <1>1, <1>3
  <2>2. yes \in BOOLEAN
    OBVIOUS
  <2> HIDE DEF yes
  <2>3. p \in PromptPanes
    BY <2>2, PanesNow DEF PromptPanes
  <2> HIDE DEF p
  <2>4. StoreIsFine(remembered) /\ remembered.last >= remembered.last
    <3>1. StoreIsFine(remembered) /\ remembered.last \in Nat
      BY PanesNow
    <3> QED
      BY <3>1
  <2> QED
    BY <2>1, <2>3, <2>4, PaneIsListed
<1> QED
  BY <1>2, <1>3

LEMMA PromptsAreSearched ==
    ASSUME PromptsInv, SearchPrompts
    PROVE  PromptsInv' /\ task' = task
<1>1. PICK tab \in PromptTabs, query \in PromptSearches :
         PaneDoes("search", tab, [panes[tab] EXCEPT !.query = query], remembered)
  BY DEF SearchPrompts
<1> DEFINE p == [panes[tab] EXCEPT !.query = query]
<1>2. p \in PromptPanes
  BY PanesNow DEF PromptPanes
<1>3. StoreIsFine(remembered) /\ remembered.last >= remembered.last
  <2>1. StoreIsFine(remembered) /\ remembered.last \in Nat
    BY PanesNow
  <2> QED
    BY <2>1
<1>4. PaneDoes("search", tab, p, remembered)
  BY <1>1
<1> HIDE DEF p
<1> QED
  BY <1>2, <1>3, <1>4, PaneIsListed

LEMMA PromptIsReused ==
    ASSUME PromptsInv, ReusePrompt
    PROVE  PromptsInv' /\ task' = task
<1>1. PICK tab \in PromptTabs :
         /\ \E i \in DOMAIN panes[tab].rows :
               panes' = [panes EXCEPT ![tab].open = FALSE, ![tab].input = panes[tab].rows[i].text]
         /\ Click("reuse", <<>>) /\ UNCHANGED remembered
  BY DEF ReusePrompt
<1>2. PICK i \in DOMAIN panes[tab].rows :
         panes' = [panes EXCEPT ![tab].open = FALSE, ![tab].input = panes[tab].rows[i].text]
  BY <1>1
<1> DEFINE no == FALSE
           text == panes[tab].rows[i].text
           p == [panes[tab] EXCEPT !.open = no, !.input = text]
<1>3. text \in PromptTexts
  BY PanesNow, PromptFields, ItemsAreItems
<1>4. panes' = [panes EXCEPT ![tab] = p]
  BY <1>2, PanesNow DEF PromptPanes
<1>5. no \in BOOLEAN
  OBVIOUS
<1> HIDE DEF no, text
<1>6. p \in PromptPanes /\ p.rows = panes[tab].rows
  BY <1>3, <1>5, PanesNow DEF PromptPanes
<1> HIDE DEF p
<1> QED
  BY <1>1, <1>4, <1>6, PaneStays

LEMMA RowIsMarked ==
    ASSUME PromptsInv, MarkPrompt
    PROVE  PromptsInv' /\ task' = task
<1> DEFINE RowOf(row) == Taken(remembered.items, {j \in DOMAIN remembered.items : remembered.items[j].id = row.id})
           Turned(row) == IF RowOf(row) = <<>> THEN remembered
                          ELSE Marked(remembered, row.id, ~row.favorite, RowOf(row)[1].category)
           Moved(row, category) == IF RowOf(row) = <<>> THEN remembered
                                   ELSE Marked(remembered, row.id, RowOf(row)[1].favorite, category)
<1>1. PICK tab \in PromptTabs : \E i \in DOMAIN panes[tab].rows :
         \/ PaneDoes("mark", tab, panes[tab], Turned(panes[tab].rows[i]))
         \/ \E category \in Categories : PaneDoes("mark", tab, panes[tab], Moved(panes[tab].rows[i], category))
  BY DEF MarkPrompt
<1>2. PICK i \in DOMAIN panes[tab].rows :
         \/ PaneDoes("mark", tab, panes[tab], Turned(panes[tab].rows[i]))
         \/ \E category \in Categories : PaneDoes("mark", tab, panes[tab], Moved(panes[tab].rows[i], category))
  BY <1>1
<1> DEFINE row == panes[tab].rows[i]
           now == RowOf(row)
           places == {j \in DOMAIN remembered.items : remembered.items[j].id = row.id}
<1>3. row \in PromptItems /\ row.favorite \in BOOLEAN /\ panes[tab] \in PromptPanes /\ StoreIsFine(remembered)
      /\ remembered.last \in Nat /\ remembered.items \in Seq(PromptItems) /\ NumberedTo(remembered.items, remembered.last)
  BY PanesNow, PromptFields, ItemsAreItems DEF StoreIsFine
<1>4. now \in Seq(PromptItems)
  <2>1. places \in SUBSET DOMAIN remembered.items
    OBVIOUS
  <2> HIDE DEF places
  <2>2. Taken(remembered.items, places) \in Seq(PromptItems)
    BY <1>3, <2>1, SelectionOfItems
  <2> QED
    BY <2>2 DEF places
<1> HIDE DEF places
<1>5. ASSUME now # <<>>
      PROVE  now[1].favorite \in BOOLEAN /\ now[1].category \in Categories
  <2>1. now[1] \in PromptItems
    BY <1>4, <1>5
  <2> QED
    BY <2>1, PromptFields
<1>6. ASSUME NEW new, StoreIsFine(new), new.last = remembered.last, PaneDoes("mark", tab, panes[tab], new)
      PROVE  PromptsInv' /\ task' = task
  <2>1. new.last >= remembered.last
    BY <1>3, <1>6
  <2> QED
    BY <1>3, <1>6, <2>1, PaneIsListed
<1>7. StoreIsFine(Turned(row)) /\ Turned(row).last = remembered.last
  <2>1. CASE now = <<>>
    BY <1>3, <2>1
  <2>2. CASE now # <<>>
    <3> DEFINE favorite == ~row.favorite
               category == now[1].category
    <3>1. favorite \in BOOLEAN /\ category \in Categories /\ Turned(row) = Marked(remembered, row.id, favorite, category)
      BY <1>3, <1>5, <2>2
    <3> HIDE DEF favorite, category, Turned, row, now, RowOf
    <3> QED
      BY <1>3, <3>1, PromptIsMarked
  <2> QED
    BY <2>1, <2>2
<1>8. ASSUME NEW category \in Categories
      PROVE  StoreIsFine(Moved(row, category)) /\ Moved(row, category).last = remembered.last
  <2>1. CASE now = <<>>
    BY <1>3, <2>1
  <2>2. CASE now # <<>>
    <3> DEFINE favorite == now[1].favorite
    <3>1. favorite \in BOOLEAN /\ Moved(row, category) = Marked(remembered, row.id, favorite, category)
      BY <1>5, <2>2
    <3> HIDE DEF favorite, Moved, row, now, RowOf
    <3> QED
      BY <1>3, <3>1, PromptIsMarked
  <2> QED
    BY <2>1, <2>2
<1> HIDE DEF Turned, Moved, now, RowOf
<1> QED
  BY <1>2, <1>6, <1>7, <1>8

LEMMA PromptsStart ==
    ASSUME InitRequests("prompts"), InitPrompts
    PROVE  PromptsInv
<1>1. task \in Tasks /\ clicks = 0 /\ faults = 0
  BY DEF InitRequests
<1>2. UnderWay({}, {})
  <2>1. IsFiniteSet(net) /\ net = {}
    BY FS_EmptySet DEF InitPrompts
  <2> QED
    BY <1>1, <2>1, TaskFields DEF UnderWay
<1> DEFINE none == <<>>
           no == FALSE
           empty == ""
<1>3. /\ none \in Seq(PromptItems) /\ Len(none) = 0 /\ DOMAIN none = {}
      /\ no \in BOOLEAN /\ empty \in PromptSearches /\ empty \in PromptTexts \cup {""}
  BY DEF PromptSearches
<1>4. ClosedPane = [open |-> no, query |-> empty, rows |-> none, input |-> empty] /\ EmptyStore = [items |-> none, last |-> 0]
  BY DEF ClosedPane, EmptyStore
<1> HIDE DEF none, no, empty
<1>5. ClosedPane \in PromptPanes /\ ClosedPane.rows = none
  BY <1>3, <1>4 DEF PromptPanes
<1>6. EmptyStore \in PromptStores /\ EmptyStore.items = none /\ EmptyStore.last = 0
  BY <1>3, <1>4 DEF PromptStores
<1>7. StoreIsFine(EmptyStore) /\ NumberedTo(none, EmptyStore.last)
  <2>1. TextsOnce(none) /\ NumberedTo(none, EmptyStore.last)
    BY <1>3 DEF TextsOnce, NumberedTo
  <2>2. Len(none) <= MaxPrompts
    <3>1. Len(none) = 0
      BY <1>3
    <3>2. 0 <= MaxPrompts
      BY PromptAssumption
    <3> QED
      BY <3>1, <3>2
  <2> QED
    BY <1>6, <2>1, <2>2 DEF StoreIsFine
<1> QED
  BY <1>2, <1>5, <1>7 DEF PromptsInv, InitPrompts

LEMMA PromptsSteps ==
    ASSUME PromptsInv, NextPrompts
    PROVE  PromptsInv' /\ task' = task
BY PromptIsTyped, PromptIsSent, PanelOpens, PromptsAreSearched, PromptIsReused, RowIsMarked DEF NextPrompts

(* Nothing is under way that could fail. *)
LEMMA PromptsAttemptFails ==
    ASSUME PromptsInv, FailAttempt, UNCHANGED promptVars
    PROVE  PromptsInv'
<1>1. UnderWay({}, {})'
  BY AttemptFailed DEF PromptsInv
<1> QED
  BY <1>1 DEF PromptsInv, promptVars

LEMMA PromptsPromise ==
    ASSUME PromptsInv
    PROVE  /\ TypeOKRequests /\ TypeOKPrompts
           /\ \A i, j \in DOMAIN remembered.items : remembered.items[i].text = remembered.items[j].text => i = j
<1>1. TypeOKRequests
  BY FieldsOfRequests DEF PromptsInv, UnderWay, TypeOKRequests
<1>2. ASSUME NEW items \in Seq(PromptItems), NumberedTo(items, remembered.last)
      PROVE  ToSet(items) \subseteq
                [id : 1..remembered.last, text : PromptTexts, favorite : BOOLEAN, category : Categories]
  <2>1. ASSUME NEW i \in DOMAIN items
        PROVE  items[i] \in [id : 1..remembered.last, text : PromptTexts, favorite : BOOLEAN, category : Categories]
    <3>1. items[i] \in PromptItems /\ items[i].id <= remembered.last
      BY <1>2 DEF NumberedTo
    <3>3. items[i].id \in Nat \ {0} /\ remembered.last \in Nat
      BY <3>1, PromptFields DEF PromptsInv, StoreIsFine
    <3>2. items[i].id \in 1..remembered.last
      BY <3>1, <3>3
    <3> QED
      BY <3>1, <3>2 DEF PromptItems
  <2> QED
    BY <2>1 DEF ToSet
<1>3. StoreIsFine(remembered) /\ remembered.last \in Nat /\ remembered.items \in Seq(PromptItems)
      /\ NumberedTo(remembered.items, remembered.last)
  BY PromptFields DEF PromptsInv, StoreIsFine
<1>4. ASSUME NEW tab \in PromptTabs
      PROVE  /\ panes[tab].open \in BOOLEAN /\ panes[tab].query \in PromptSearches /\ panes[tab].input \in PromptTexts \cup {""}
             /\ ToSet(panes[tab].rows) \cup ToSet(remembered.items) \subseteq
                   [id : 1..remembered.last, text : PromptTexts, favorite : BOOLEAN, category : Categories]
  <2>1. panes[tab].rows \in Seq(PromptItems) /\ NumberedTo(panes[tab].rows, remembered.last)
    BY PanesNow DEF PromptsInv
  <2> QED
    BY <1>2, <1>3, <2>1, PanesNow
<1> QED
  BY <1>1, <1>3, <1>4 DEF TypeOKPrompts, StoreIsFine, TextsOnce

-----------------------------------------------------------------------------
(* The export of chats. *)

ExportNames == {"exportlist", "exportchat"}
ChatTexts == Seq([n: Nat, day: Nat])
ExportParams == [number: Nat, index: Nat, chat: Nat, list: Seq(ExportChats), messages: ChatTexts]
ExportFiles == [outcome: {"none", "file", "print", "error"}, messages: ChatTexts]
FetchedChats == [chat: Nat, messages: ChatTexts]
Archives == UNION {[names -> FetchedChats] : names \in SUBSET (Nat \X Nat)}
ExportPages ==
    [side: {"app", "standalone"}, format: Formats, from: Days, to: Days, selecting: BOOLEAN, picked: SUBSET Nat,
     chat: ExportChats, messages: ChatTexts, file: ExportFiles, number: Nat, phase: {"idle", "busy"},
     list: Seq(ExportChats), got: Seq(FetchedChats), next: Nat \ {0}, failed: BOOLEAN, error: BOOLEAN,
     archive: Archives]

LibraryIsFine ==
    /\ DOMAIN library \subseteq ExportChats
    /\ \A c \in DOMAIN library : library[c] \in ChatTexts

(* A request of the newest export asks for a chat of its list, while the     *)
(* page is busy with it; the list comes before the chats.                    *)
Exports(r, p) ==
    /\ r.arg.number <= p.number
    /\ r.arg.list = <<>> /\ Once(r.got.list)
    /\ r.op = "exportlist" => r.arg.number = p.number
    /\ r.op = "exportchat" /\ r.arg.number = p.number => r.arg.index \in DOMAIN p.list /\ r.arg.chat = p.list[r.arg.index]
    /\ r.arg.number = p.number /\ ~p.failed => p.phase = "busy"

ListComesFirst(rs, p) ==
    \A r, q \in rs : r.op = "exportlist" =>
        /\ ~p.failed
        /\ q.op = "exportlist" => q.id = r.id
        /\ q.op = "exportchat" => q.arg.number # p.number

(* The chats that were fetched are those of the list, each at its place.     *)
Fetched(p) ==
    /\ Once(p.list) /\ DOMAIN p.got = DOMAIN p.list
    /\ \A i \in DOMAIN p.list : p.got[i].chat \in {0, p.list[i]}

ArchiveHolds(p) ==
    p.archive # NoArchive /\ p.phase = "idle" /\ ~p.error =>
        /\ {entry.chat : entry \in Range(p.archive)} = ToSet(p.list)
        /\ Cardinality(DOMAIN p.archive) = Len(p.list)

ExportInv ==
    /\ UnderWay(ExportNames, ExportParams)
    /\ exporter \in ExportPages /\ LibraryIsFine
    /\ \A r \in net : Exports(r, exporter)
    /\ ListComesFirst(net, exporter)
    /\ Fetched(exporter) /\ ArchiveHolds(exporter)

LEMMA ExportFields ==
    ASSUME NEW p \in ExportPages
    PROVE  /\ p.side \in {"app", "standalone"} /\ p.format \in Formats /\ p.from \in Days /\ p.to \in Days
           /\ p.selecting \in BOOLEAN /\ p.picked \in SUBSET Nat /\ p.chat \in ExportChats /\ p.messages \in ChatTexts
           /\ p.file \in ExportFiles /\ p.number \in Nat /\ p.phase \in {"idle", "busy"} /\ p.list \in Seq(ExportChats)
           /\ p.got \in Seq(FetchedChats) /\ p.next \in Nat \ {0} /\ p.failed \in BOOLEAN /\ p.error \in BOOLEAN
           /\ p.archive \in Archives
BY DEF ExportPages

LEMMA ExportParamFields ==
    ASSUME NEW P \in ExportParams
    PROVE  P.number \in Nat /\ P.index \in Nat /\ P.chat \in Nat /\ P.list \in Seq(ExportChats) /\ P.messages \in ChatTexts
BY DEF ExportParams

LEMMA ExportNow ==
    ASSUME ExportInv
    PROVE  /\ UnderWay(ExportNames, ExportParams) /\ exporter \in ExportPages /\ LibraryIsFine
           /\ \A r \in net : /\ r \in RequestsFor(ExportNames, ExportParams) /\ r.op \in ExportNames
                             /\ r.arg \in ExportParams /\ r.got \in ExportParams /\ Exports(r, exporter)
           /\ ListComesFirst(net, exporter) /\ Fetched(exporter) /\ ArchiveHolds(exporter)
<1>1. UnderWay(ExportNames, ExportParams) /\ exporter \in ExportPages /\ net \subseteq RequestsFor(ExportNames, ExportParams)
  BY DEF ExportInv, UnderWay
<1> QED
  BY <1>1, FieldsOfRequests DEF ExportInv

(* The messages that an export keeps. *)
LEMMA SelectedTexts ==
    ASSUME NEW messages \in ChatTexts, NEW places \in SUBSET DOMAIN messages
    PROVE  Taken(messages, places) \in ChatTexts
BY TakenInOrder DEF ChatTexts

LEMMA FilteredTexts ==
    ASSUME NEW p, NEW messages \in ChatTexts
    PROVE  Filtered(p, messages) \in ChatTexts
<1> DEFINE places == {i \in DOMAIN messages : InDates(p, messages[i])}
<1>1. places \in SUBSET DOMAIN messages
  OBVIOUS
<1>2. Filtered(p, messages) = Taken(messages, places)
  BY DEF Filtered
<1> HIDE DEF places
<1> QED
  BY <1>1, <1>2, SelectedTexts

(* An archive that is packed holds every chat of the list under a name of    *)
(* its own.                                                                  *)
LEMMA ArchiveIsPacked ==
    ASSUME NEW p \in ExportPages, Fetched(p), ~ArchiveFails(p)
    PROVE  /\ Archive(p) \in Archives
           /\ {entry.chat : entry \in Range(Archive(p))} = ToSet(p.list)
           /\ Cardinality(DOMAIN Archive(p)) = Len(p.list)
<1> DEFINE n == Len(p.list)
           Name(i) == EntryName(p, i)
           names == {Name(i) : i \in 1..n}
           Entry(i) == [chat |-> p.got[i].chat, messages |-> Filtered(p, p.got[i].messages)]
<1>1. /\ p.list \in Seq(ExportChats) /\ p.got \in Seq(FetchedChats) /\ n \in Nat /\ DOMAIN p.list = 1..n /\ DOMAIN p.got = 1..n
      /\ \A i \in 1..n : p.list[i] \in Nat /\ p.got[i] \in FetchedChats
  <2>1. p.list \in Seq(ExportChats) /\ p.got \in Seq(FetchedChats) /\ DOMAIN p.got = DOMAIN p.list
    BY ExportFields DEF Fetched
  <2>2. n \in Nat /\ DOMAIN p.list = 1..n /\ \A i \in 1..n : p.list[i] \in ExportChats
    BY <2>1
  <2>3. \A i \in DOMAIN p.got : p.got[i] \in FetchedChats
    BY <2>1
  <2> QED
    BY <2>1, <2>2, <2>3, ExportAssumption
<1>2. \A i \in 1..n : p.got[i].chat = p.list[i] /\ p.got[i].messages \in ChatTexts
  <2>1. \A i \in DOMAIN p.got : p.got[i].chat # 0
    BY DEF ArchiveFails
  <2> QED
    BY <1>1, <2>1 DEF Fetched, FetchedChats
<1>3. \A i \in 1..n : Name(i) \in Nat \X Nat
  <2> SUFFICES ASSUME NEW i \in 1..n PROVE EntryName(p, i) \in Nat \X Nat
    OBVIOUS
  <2>1. i \in Nat /\ KeptOf(p.got[i].chat) \in Nat
    BY <1>1, <1>2 DEF KeptOf
  <2> QED
    BY <2>1 DEF EntryName
<1>4. ASSUME NEW i \in 1..n, NEW j \in 1..n, i < j
      PROVE  Name(i) # Name(j)
  <2> SUFFICES ASSUME EntryName(p, i) = EntryName(p, j) PROVE FALSE
    OBVIOUS
  <2> DEFINE taken(k) == \E l \in 1..(k - 1) : KeptOf(p.got[l].chat) = KeptOf(p.got[k].chat)
             at(k) == IF taken(k) THEN k ELSE 0
  <2>1. \A k \in 1..n : EntryName(p, k) = <<KeptOf(p.got[k].chat), at(k)>>
    BY DEF EntryName
  <2>2. KeptOf(p.got[i].chat) = KeptOf(p.got[j].chat) /\ at(i) = at(j)
    <3> HIDE DEF at, taken
    <3> QED
      BY <2>1
  <2>3. i \in 1..(j - 1)
    BY <1>1, <1>4
  <2>4. taken(j)
    BY <2>2, <2>3
  <2>5. at(j) = j /\ at(i) \in {i, 0}
    BY <2>4
  <2> QED
    BY <1>1, <1>4, <2>2, <2>5
<1>5. \A i, j \in 1..n : Name(i) = Name(j) => i = j
  <2> SUFFICES ASSUME NEW i \in 1..n, NEW j \in 1..n, Name(i) = Name(j), i # j PROVE FALSE
    OBVIOUS
  <2>1. i < j \/ j < i
    BY <1>1
  <2> HIDE DEF Name
  <2> QED
    BY <1>4, <2>1
<1> HIDE DEF n
<1>6. Archive(p) = [name \in names |->
         LET last == CHOOSE i \in 1..n : Name(i) = name /\ \A j \in 1..n : Name(j) = name => j <= i
         IN  Entry(last)]
  BY <1>1 DEF Archive
<1> HIDE DEF Name, Entry
<1>7. DOMAIN Archive(p) = names
  BY <1>6
<1>8. \A i \in 1..n : Archive(p)[Name(i)] = Entry(i)
  <2> SUFFICES ASSUME NEW i \in 1..n PROVE Archive(p)[Name(i)] = Entry(i)
    OBVIOUS
  <2> DEFINE Largest(k) == Name(k) = Name(i) /\ \A j \in 1..n : Name(j) = Name(i) => j <= k
             last == CHOOSE k \in 1..n : Largest(k)
  <2>1. Archive(p)[Name(i)] = Entry(last)
    BY <1>6
  <2>2. Largest(i) /\ \A k \in 1..n : Largest(k) => k = i
    BY <1>1, <1>5
  <2>3. last = i
    <3> HIDE DEF Largest
    <3> QED
      BY <2>2
  <2> QED
    BY <2>1, <2>3
<1>9. \A i \in 1..n : Entry(i) \in FetchedChats /\ Entry(i).chat = p.list[i]
  BY <1>1, <1>2, FilteredTexts DEF Entry, FetchedChats
<1>10. Archive(p) \in Archives
  <2>1. names \in SUBSET (Nat \X Nat)
    BY <1>3
  <2>2. Archive(p) \in [names -> FetchedChats]
    <3>1. Archive(p) = [name \in names |-> Archive(p)[name]]
      BY <1>6
    <3>2. \A name \in names : Archive(p)[name] \in FetchedChats
      BY <1>8, <1>9
    <3> HIDE DEF names
    <3> QED
      BY <3>1, <3>2
  <2> HIDE DEF names
  <2> QED
    BY <2>1, <2>2 DEF Archives
<1>11. {entry.chat : entry \in Range(Archive(p))} = ToSet(p.list)
  <2>1. Range(Archive(p)) = {Entry(i) : i \in 1..n}
    BY <1>7, <1>8 DEF Range
  <2>2. ToSet(p.list) = {p.list[i] : i \in 1..n}
    BY <1>1 DEF ToSet
  <2> QED
    BY <1>9, <2>1, <2>2
<1>12. Cardinality(names) = n
  <2> DEFINE f == [i \in 1..n |-> Name(i)]
  <2>1. f \in [1..n -> names] /\ (\A t \in names : \E i \in 1..n : f[i] = t) /\ DOMAIN f = 1..n
    OBVIOUS
  <2>2. \A i, j \in 1..n : f[i] = f[j] => i = j
    BY <1>5
  <2>3. IsFiniteSet(1..n) /\ Cardinality(1..n) = n
    BY <1>1, Interval
  <2> HIDE DEF f, names
  <2>4. f \in Bijection(1..n, names)
    BY <2>1, <2>2 DEF Bijection, Injection, Surjection, IsInjective
  <2>5. ExistsBijection(1..n, names)
    BY <2>4 DEF ExistsBijection
  <2> QED
    BY <2>3, <2>5, FS_Bijection
<1> QED
  BY <1>7, <1>10, <1>11, <1>12 DEF n

(* A step that asks for nothing and leaves the newest export as it is.       *)
LEMMA ExportGoesOn ==
    ASSUME ExportInv, NEW p \in ExportPages, NEW act, ExportClick(act, p, <<>>),
           p.number = exporter.number, p.phase = exporter.phase, p.failed = exporter.failed, p.list = exporter.list,
           p.got = exporter.got, p.archive = exporter.archive, exporter.error => p.error
    PROVE  ExportInv' /\ task' = task
<1> DEFINE none == <<>>
<1>1. none \in Seq(AsksFor(ExportNames, ExportParams)) /\ DOMAIN none = {}
  OBVIOUS
<1>2. exporter' = p /\ Click(act, none) /\ library' = library
  BY DEF ExportClick
<1> HIDE DEF none
<1>3. UnderWay(ExportNames, ExportParams)
  BY ExportNow
<1>4. Exchange({}, none) /\ task' = task /\ clicks' \in 0..task.clicks /\ faults' = faults
  BY <1>2, <1>3, Clicked1
<1> DEFINE done == {}
<1>5. Exchange(done, none)
  BY <1>4
<1> HIDE DEF done
<1>6. UnderWay(ExportNames, ExportParams)' /\ \A r \in net' : r \in net
  BY <1>1, <1>3, <1>4, <1>5, Exchanged
<1>7. \A r \in net' : Exports(r, p)
  BY <1>6, ExportNow DEF Exports
<1>8. ListComesFirst(net', p)
  BY <1>6, ExportNow DEF ListComesFirst
<1>9. Fetched(p)
  BY ExportNow DEF Fetched
<1>10. ArchiveHolds(p)
  BY ExportNow DEF ArchiveHolds
<1>11. LibraryIsFine'
  BY <1>2, ExportNow DEF LibraryIsFine
<1> QED
  BY <1>2, <1>4, <1>6, <1>7, <1>8, <1>9, <1>10, <1>11 DEF ExportInv

LEMMA OptionsAreChosen ==
    ASSUME ExportInv, ChooseOptions
    PROVE  ExportInv' /\ task' = task
<1>1. CASE \E f \in Formats \ {exporter.format} : ExportClick("options", [exporter EXCEPT !.format = f], <<>>)
  <2>1. PICK f \in Formats : ExportClick("options", [exporter EXCEPT !.format = f], <<>>)
    BY <1>1
  <2> DEFINE p == [exporter EXCEPT !.format = f]
  <2>2. p \in ExportPages /\ p.number = exporter.number /\ p.phase = exporter.phase /\ p.failed = exporter.failed
        /\ p.list = exporter.list /\ p.got = exporter.got /\ p.archive = exporter.archive /\ p.error = exporter.error
    BY ExportNow DEF ExportPages
  <2>3. ExportClick("options", p, <<>>)
    BY <2>1
  <2> HIDE DEF p
  <2> QED
    BY <2>2, <2>3, ExportGoesOn
<1>2. CASE \E from, to \in Days : ExportClick("options", [exporter EXCEPT !.from = from, !.to = to], <<>>)
  <2>1. PICK from \in Days, to \in Days : ExportClick("options", [exporter EXCEPT !.from = from, !.to = to], <<>>)
    BY <1>2
  <2> DEFINE p == [exporter EXCEPT !.from = from, !.to = to]
  <2>2. p \in ExportPages /\ p.number = exporter.number /\ p.phase = exporter.phase /\ p.failed = exporter.failed
        /\ p.list = exporter.list /\ p.got = exporter.got /\ p.archive = exporter.archive /\ p.error = exporter.error
    BY ExportNow DEF ExportPages
  <2>3. ExportClick("options", p, <<>>)
    BY <2>1
  <2> HIDE DEF p
  <2> QED
    BY <2>2, <2>3, ExportGoesOn
<1> QED
  BY <1>1, <1>2 DEF ChooseOptions

LEMMA SelectionIsToggled ==
    ASSUME ExportInv, ToggleSelection
    PROVE  ExportInv' /\ task' = task
<1> DEFINE selecting == ~exporter.selecting
           none == {}
           p == [exporter EXCEPT !.selecting = selecting, !.picked = none]
<1>1. ExportClick("select", p, <<>>)
  BY DEF ToggleSelection
<1>2. selecting \in BOOLEAN /\ none \in SUBSET Nat
  OBVIOUS
<1> HIDE DEF selecting, none
<1>3. p \in ExportPages /\ p.number = exporter.number /\ p.phase = exporter.phase /\ p.failed = exporter.failed
      /\ p.list = exporter.list /\ p.got = exporter.got /\ p.archive = exporter.archive /\ p.error = exporter.error
  BY <1>2, ExportNow DEF ExportPages
<1> HIDE DEF p
<1> QED
  BY <1>1, <1>3, ExportGoesOn

LEMMA MessageIsTicked ==
    ASSUME ExportInv, TickMessage
    PROVE  ExportInv' /\ task' = task
<1>1. PICK i \in DOMAIN exporter.messages :
         ExportClick("tick", [exporter EXCEPT !.picked = IF i \in @ THEN @ \ {i} ELSE @ \cup {i}], <<>>)
  BY DEF TickMessage
<1> DEFINE picked == IF i \in exporter.picked THEN exporter.picked \ {i} ELSE exporter.picked \cup {i}
           p == [exporter EXCEPT !.picked = picked]
<1>2. ExportClick("tick", p, <<>>)
  BY <1>1
<1>3. picked \in SUBSET Nat
  <2>1. i \in Nat /\ exporter.picked \in SUBSET Nat
    BY ExportNow, ExportFields DEF ChatTexts
  <2> QED
    BY <2>1
<1> HIDE DEF picked
<1>4. p \in ExportPages /\ p.number = exporter.number /\ p.phase = exporter.phase /\ p.failed = exporter.failed
      /\ p.list = exporter.list /\ p.got = exporter.got /\ p.archive = exporter.archive /\ p.error = exporter.error
  BY <1>3, ExportNow DEF ExportPages
<1> HIDE DEF p
<1> QED
  BY <1>2, <1>4, ExportGoesOn

LEMMA FirstPart ==
    ASSUME NEW A, NEW s \in Seq(A), NEW n \in Nat, n <= Len(s)
    PROVE  SubSeq(s, 1, n) \in Seq(A)
<1>1. Len(s) \in Nat
  OBVIOUS
<1> QED
  BY <1>1

LEMMA ChatWentOn ==
    ASSUME ExportInv, ChatGoesOn
    PROVE  ExportInv' /\ task' = task
<1>1. PICK keep \in {Len(exporter.messages)} \cup {0} :
         ExportClick("turn", [exporter EXCEPT !.messages = Append(SubSeq(@, 1, keep), [n |-> clicks + 10, day |-> 2])], <<>>)
  BY DEF ChatGoesOn
<1> DEFINE m == exporter.messages
           new == [n |-> clicks + 10, day |-> 2]
           messages == Append(SubSeq(m, 1, keep), new)
           p == [exporter EXCEPT !.messages = messages]
<1>2. ExportClick("turn", p, <<>>)
  BY <1>1
<1>3. messages \in ChatTexts
  <2>1. m \in Seq([n: Nat, day: Nat]) /\ clicks \in Nat
    BY ExportNow, ExportFields, TaskFields DEF ChatTexts, UnderWay
  <2>2. new \in [n: Nat, day: Nat]
    BY <2>1
  <2> HIDE DEF m, new
  <2>3. keep \in Nat /\ keep <= Len(m)
    BY <2>1 DEF m
  <2>4. SubSeq(m, 1, keep) \in Seq([n: Nat, day: Nat])
    BY <2>1, <2>3, FirstPart
  <2> QED
    BY <2>2, <2>4 DEF ChatTexts
<1> HIDE DEF messages
<1>4. p \in ExportPages /\ p.number = exporter.number /\ p.phase = exporter.phase /\ p.failed = exporter.failed
      /\ p.list = exporter.list /\ p.got = exporter.got /\ p.archive = exporter.archive /\ p.error = exporter.error
  BY <1>3, ExportNow DEF ExportPages
<1> HIDE DEF p
<1> QED
  BY <1>2, <1>4, ExportGoesOn

LEMMA ChatIsOpened ==
    ASSUME ExportInv, OpenChat
    PROVE  ExportInv' /\ task' = task
<1>1. PICK c \in DOMAIN library : ExportClick("open", [exporter EXCEPT !.chat = c, !.messages = library[c], !.picked = {}], <<>>)
  BY DEF OpenChat
<1> DEFINE messages == library[c]
           none == {}
           p == [exporter EXCEPT !.chat = c, !.messages = messages, !.picked = none]
<1>2. ExportClick("open", p, <<>>)
  BY <1>1
<1>3. messages \in ChatTexts /\ c \in ExportChats /\ none \in SUBSET Nat
  BY ExportNow DEF LibraryIsFine
<1> HIDE DEF messages, none
<1>4. p \in ExportPages /\ p.number = exporter.number /\ p.phase = exporter.phase /\ p.failed = exporter.failed
      /\ p.list = exporter.list /\ p.got = exporter.got /\ p.archive = exporter.archive /\ p.error = exporter.error
  BY <1>3, ExportNow DEF ExportPages
<1> HIDE DEF p
<1> QED
  BY <1>2, <1>4, ExportGoesOn

LEMMA ChatIsExported ==
    ASSUME ExportInv, ExportChat
    PROVE  ExportInv' /\ task' = task
<1> DEFINE places == {i \in DOMAIN exporter.messages : i \in exporter.picked \/ ~exporter.selecting}
           chosen == Taken(exporter.messages, places)
           file == Exported(exporter, chosen)
<1>1. ExportClick("export",
         IF exporter.selecting /\ chosen = <<>> THEN exporter
         ELSE IF file.outcome = "error" THEN [exporter EXCEPT !.error = exporter.side = "app" \/ @]
         ELSE [exporter EXCEPT !.file = file], <<>>)
  BY DEF ExportChat
<1>2. chosen \in ChatTexts
  <2>1. places \in SUBSET DOMAIN exporter.messages /\ exporter.messages \in ChatTexts
    BY ExportNow, ExportFields
  <2> HIDE DEF places
  <2> QED
    BY <2>1, SelectedTexts
<1> HIDE DEF chosen
<1>3. file \in ExportFiles
  <2> DEFINE none == <<>>
             kind == IF exporter.format = "pdf" THEN "print" ELSE "file"
             kept == Filtered(exporter, chosen)
  <2>1. none \in ChatTexts /\ kept \in ChatTexts /\ kind \in {"print", "file"}
    BY <1>2, FilteredTexts DEF ChatTexts
  <2>2. file = IF ~DatesFit(exporter) THEN [outcome |-> "error", messages |-> none]
               ELSE [outcome |-> kind, messages |-> kept]
    BY DEF Exported, NoFile
  <2> HIDE DEF none, kind, kept, file
  <2> QED
    BY <2>1, <2>2 DEF ExportFiles
<1> HIDE DEF file
<1>4. CASE exporter.selecting /\ chosen = <<>>
  <2>1. ExportClick("export", exporter, <<>>)
    BY <1>1, <1>4
  <2> QED
    BY <2>1, ExportNow, ExportGoesOn
<1>5. CASE ~(exporter.selecting /\ chosen = <<>>) /\ file.outcome = "error"
  <2> DEFINE error == exporter.side = "app" \/ exporter.error
             p == [exporter EXCEPT !.error = error]
  <2>1. ExportClick("export", p, <<>>)
    BY <1>1, <1>5
  <2>2. error \in BOOLEAN /\ (exporter.error => error)
    OBVIOUS
  <2> HIDE DEF error
  <2>3. p \in ExportPages /\ p.number = exporter.number /\ p.phase = exporter.phase /\ p.failed = exporter.failed
        /\ p.list = exporter.list /\ p.got = exporter.got /\ p.archive = exporter.archive /\ p.error = error
    BY <2>2, ExportNow DEF ExportPages
  <2> HIDE DEF p
  <2> QED
    BY <2>1, <2>2, <2>3, ExportGoesOn
<1>6. CASE ~(exporter.selecting /\ chosen = <<>>) /\ file.outcome # "error"
  <2> DEFINE p == [exporter EXCEPT !.file = file]
  <2>1. ExportClick("export", p, <<>>)
    BY <1>1, <1>6
  <2>2. p \in ExportPages /\ p.number = exporter.number /\ p.phase = exporter.phase /\ p.failed = exporter.failed
        /\ p.list = exporter.list /\ p.got = exporter.got /\ p.archive = exporter.archive /\ p.error = exporter.error
    BY <1>3, ExportNow DEF ExportPages
  <2> HIDE DEF p
  <2> QED
    BY <2>1, <2>2, ExportGoesOn
<1> QED
  BY <1>4, <1>5, <1>6

(* The server answers: the list of the chats once each, or the messages of   *)
(* a chat that exists.                                                       *)
LEMMA ListIsOnce ==
    ASSUME LibraryIsFine
    PROVE  Reverse(Ascending(DOMAIN library)) \in Seq(ExportChats) /\ Once(Reverse(Ascending(DOMAIN library)))
<1> DEFINE S == DOMAIN library
           a == Ascending(S)
           n == Cardinality(S)
           b == Reverse(a)
<1>1. S \in SUBSET ExportChats /\ S \in SUBSET Nat /\ IsFiniteSet(S)
  <2>1. S \in SUBSET ExportChats /\ ExportChats \subseteq Nat /\ IsFiniteSet(ExportChats)
    BY ExportAssumption DEF LibraryIsFine
  <2> HIDE DEF S
  <2> QED
    BY <2>1, FS_Subset
<1> HIDE DEF S
<1>2. n \in Nat /\ a \in [1..n -> S] /\ \A i, j \in 1..n : i < j => a[i] < a[j]
  BY <1>1, InOrder
<1> HIDE DEF n
<1>3. Len(a) = n /\ DOMAIN a = 1..n
  <2>1. a \in Seq(S)
    BY <1>2
  <2> QED
    BY <1>2, <2>1
<1>4. b = [i \in 1..n |-> a[(n - i) + 1]]
  BY <1>3 DEF Reverse
<1> HIDE DEF a, b
<1>5. \A i \in 1..n : (n - i) + 1 \in 1..n
  BY <1>2
<1>6. b \in [1..n -> ExportChats] /\ \A i \in 1..n : b[i] = a[(n - i) + 1]
  BY <1>1, <1>2, <1>4, <1>5
<1>7. b \in Seq(ExportChats) /\ DOMAIN b = 1..n
  BY <1>2, <1>6
<1>8. ASSUME NEW i \in 1..n, NEW j \in 1..n, i < j
      PROVE  b[i] # b[j]
  <2>1. (n - j) + 1 < (n - i) + 1
    BY <1>2, <1>8
  <2>2. a[(n - j) + 1] < a[(n - i) + 1]
    BY <1>2, <1>5, <2>1
  <2>3. a[(n - j) + 1] \in Nat /\ a[(n - i) + 1] \in Nat
    BY <1>1, <1>2, <1>5
  <2> QED
    BY <1>6, <2>2, <2>3
<1>9. \A i, j \in 1..n : b[i] = b[j] => i = j
  <2> SUFFICES ASSUME NEW i \in 1..n, NEW j \in 1..n, b[i] = b[j], i # j PROVE FALSE
    OBVIOUS
  <2>1. i < j \/ j < i
    BY <1>2
  <2> QED
    BY <1>8, <2>1
<1> QED
  BY <1>7, <1>9 DEF Once, b, a, S

(* The requests change only their states and answers, and the page stays.    *)
LEMMA ExportAwaits ==
    ASSUME ExportInv, UnderWay(ExportNames, ExportParams)', UNCHANGED exporter, LibraryIsFine',
           \A s \in net' : s \in net \/ (Once(s.got.list) /\ \E r \in net : s.op = r.op /\ s.arg = r.arg /\ s.id = r.id)
    PROVE  ExportInv'
<1>1. \A s \in net' : \E r \in net : s.op = r.op /\ s.arg = r.arg /\ s.id = r.id
  OBVIOUS
<1>2. \A s \in net' : Once(s.got.list)
  BY ExportNow DEF Exports
<1>3. \A s \in net' : Exports(s, exporter)
  BY <1>1, <1>2, ExportNow DEF Exports
<1>4. ListComesFirst(net', exporter)
  <2> SUFFICES ASSUME NEW s \in net', NEW t \in net', s.op = "exportlist"
               PROVE  /\ ~exporter.failed
                      /\ t.op = "exportlist" => t.id = s.id
                      /\ t.op = "exportchat" => t.arg.number # exporter.number
    BY DEF ListComesFirst
  <2>1. PICK r \in net : s.op = r.op /\ s.arg = r.arg /\ s.id = r.id
    BY <1>1
  <2>2. PICK q \in net : t.op = q.op /\ t.arg = q.arg /\ t.id = q.id
    BY <1>1
  <2> QED
    BY <2>1, <2>2, ExportNow DEF ListComesFirst
<1> QED
  BY <1>3, <1>4, ExportNow DEF ExportInv

LEMMA ExportServes ==
    ASSUME ExportInv, ServeExport
    PROVE  ExportInv' /\ task' = task
<1> DEFINE list == Reverse(Ascending(DOMAIN library))
<1>1. /\ UNCHANGED <<exporter, library, task, clicks, faults>>
      /\ \E r \in net :
          /\ r.state = "sent"
          /\ IF r.op = "exportlist" THEN Answered(r, [r.arg EXCEPT !.list = list])
             ELSE IF r.arg.chat \in DOMAIN library THEN Answered(r, [r.arg EXCEPT !.messages = library[r.arg.chat]])
             ELSE Refused(r)
  BY DEF ServeExport
<1> HIDE DEF list
<1>2. PICK r \in net :
          /\ r.state = "sent"
          /\ IF r.op = "exportlist" THEN Answered(r, [r.arg EXCEPT !.list = list])
             ELSE IF r.arg.chat \in DOMAIN library THEN Answered(r, [r.arg EXCEPT !.messages = library[r.arg.chat]])
             ELSE Refused(r)
  BY <1>1
<1>3. list \in Seq(ExportChats) /\ Once(list)
  BY ExportNow, ListIsOnce DEF list
<1>4. r.arg \in ExportParams /\ r.arg.list = <<>> /\ Once(r.got.list) /\ Exports(r, exporter)
  BY ExportNow DEF Exports
<1>5. Once(r.arg.list)
  BY <1>4 DEF Once
<1>6. \E got \in ExportParams : Once(got.list) /\ (Answered(r, got) \/ Refused(r))
  <2>1. CASE r.op = "exportlist"
    <3> DEFINE got == [r.arg EXCEPT !.list = list]
    <3>1. got \in ExportParams /\ got.list = list /\ Answered(r, got)
      BY <1>2, <1>3, <1>4, <2>1 DEF ExportParams
    <3> HIDE DEF got
    <3> QED
      BY <1>3, <3>1
  <2>2. CASE r.op # "exportlist" /\ r.arg.chat \in DOMAIN library
    <3> DEFINE messages == library[r.arg.chat]
               got == [r.arg EXCEPT !.messages = messages]
    <3>1. Answered(r, got)
      BY <1>2, <2>2
    <3>2. messages \in ChatTexts
      BY <2>2, ExportNow DEF LibraryIsFine
    <3> HIDE DEF messages
    <3>3. got \in ExportParams /\ got.list = r.arg.list
      BY <1>4, <3>2 DEF ExportParams
    <3> HIDE DEF got
    <3> QED
      BY <1>5, <3>1, <3>3
  <2>3. CASE r.op # "exportlist" /\ r.arg.chat \notin DOMAIN library
    BY <1>2, <1>4, <1>5, <2>3
  <2> QED
    BY <2>1, <2>2, <2>3
<1>7. PICK got \in ExportParams : Once(got.list) /\ (Answered(r, got) \/ Refused(r))
  BY <1>6
<1>8. UnderWay(ExportNames, ExportParams) /\ task' = task /\ clicks' = clicks /\ faults' = faults
  BY <1>1, ExportNow
<1>9. /\ UnderWay(ExportNames, ExportParams)'
      /\ \A s \in net' :
            \/ s \in net
            \/ /\ s.op = r.op /\ s.arg = r.arg /\ s.id = r.id
               /\ s.got = IF s.state = "answered" THEN got ELSE r.got
  BY <1>2, <1>7, <1>8, Served
<1>10. \A s \in net' : s \in net \/ (Once(s.got.list) /\ \E q \in net : s.op = q.op /\ s.arg = q.arg /\ s.id = q.id)
  BY <1>4, <1>7, <1>9
<1>11. LibraryIsFine' /\ UNCHANGED exporter
  BY <1>1, ExportNow DEF LibraryIsFine
<1> QED
  BY <1>8, <1>9, <1>10, <1>11, ExportAwaits

LEMMA ExportAttemptFails ==
    ASSUME ExportInv, FailAttempt, UNCHANGED exportVars
    PROVE  ExportInv'
<1>0. exporter' = exporter /\ library' = library /\ UnderWay(ExportNames, ExportParams)
  BY ExportNow DEF exportVars
<1>1. /\ UnderWay(ExportNames, ExportParams)'
      /\ \A s \in net' :
            \/ s \in net
            \/ s.got = s.arg /\ \E r \in net : s.op = r.op /\ s.arg = r.arg /\ s.id = r.id
  BY <1>0, AttemptFailed
<1>2. \A r \in net : Once(r.arg.list)
  <2>1. \A r \in net : r.arg.list = <<>>
    BY ExportNow DEF Exports
  <2> QED
    BY <2>1 DEF Once
<1>3. \A s \in net' : s \in net \/ (Once(s.got.list) /\ \E r \in net : s.op = r.op /\ s.arg = r.arg /\ s.id = r.id)
  BY <1>1, <1>2
<1>4. LibraryIsFine'
  BY <1>0, ExportNow DEF LibraryIsFine
<1> QED
  BY <1>0, <1>1, <1>3, <1>4, ExportAwaits

LEMMA ChatIsGone ==
    ASSUME ExportInv, ChatsChange
    PROVE  ExportInv' /\ task' = task
<1>1. PICK c \in DOMAIN library :
         /\ library' = [d \in DOMAIN library \ {c} |-> library[d]]
         /\ Click("other", <<>>) /\ UNCHANGED exporter
  BY DEF ChatsChange
<1>2. LibraryIsFine'
  BY <1>1, ExportNow DEF LibraryIsFine
<1> DEFINE none == <<>>
<1>3. none \in Seq(AsksFor(ExportNames, ExportParams)) /\ DOMAIN none = {} /\ Click("other", none)
  BY <1>1
<1> HIDE DEF none
<1>4. UnderWay(ExportNames, ExportParams)
  BY ExportNow
<1>5. Exchange({}, none) /\ task' = task /\ clicks' \in 0..task.clicks /\ faults' = faults
  BY <1>3, <1>4, Clicked1
<1> DEFINE done == {}
<1>6. Exchange(done, none)
  BY <1>5
<1> HIDE DEF done
<1>7. UnderWay(ExportNames, ExportParams)' /\ \A r \in net' : r \in net
  BY <1>3, <1>4, <1>5, <1>6, Exchanged
<1> QED
  BY <1>1, <1>2, <1>5, <1>7, ExportAwaits

LEMMA EmptyLists == Once(<<>>) /\ <<>> \in Seq(ExportChats) /\ <<>> \in ChatTexts
BY DEF Once, ChatTexts

LEMMA WishFields ==
    /\ ExportWish \in ExportParams /\ ExportWish.list = <<>>
    /\ \A number \in Nat : /\ [ExportWish EXCEPT !.number = number] \in ExportParams
                           /\ [ExportWish EXCEPT !.number = number].number = number
                           /\ [ExportWish EXCEPT !.number = number].list = <<>>
<1> DEFINE none == <<>>
<1>1. none \in Seq(ExportChats) /\ none \in ChatTexts
  BY EmptyLists
<1>2. ExportWish = [number |-> 0, index |-> 0, chat |-> 0, list |-> none, messages |-> none]
  BY DEF ExportWish
<1>3. ExportWish.list = <<>> <=> ExportWish.list = none
  OBVIOUS
<1>4. none = <<>>
  OBVIOUS
<1> HIDE DEF none
<1>5. ExportWish \in ExportParams /\ ExportWish.list = none
  BY <1>1, <1>2 DEF ExportParams
<1> QED
  BY <1>4, <1>5 DEF ExportParams

LEMMA FetchIsAsked ==
    ASSUME NEW p \in ExportPages, NEW i \in DOMAIN p.list
    PROVE  /\ FetchAsk(p, i) \in AsksFor(ExportNames, ExportParams) /\ FetchAsk(p, i).op = "exportchat"
           /\ FetchAsk(p, i).arg.number = p.number /\ FetchAsk(p, i).arg.index = i /\ FetchAsk(p, i).arg.chat = p.list[i]
           /\ FetchAsk(p, i).arg.list = <<>>
<1> DEFINE arg == [ExportWish EXCEPT !.number = p.number, !.index = i, !.chat = p.list[i]]
           get == p.side = "app"
<1>1. p.number \in Nat /\ i \in Nat /\ p.list[i] \in Nat
  <2>1. p.number \in Nat /\ p.list \in Seq(ExportChats)
    BY ExportFields
  <2>2. i \in Nat /\ p.list[i] \in ExportChats
    BY <2>1
  <2> QED
    BY <2>1, <2>2, ExportAssumption
<1>2. arg \in ExportParams /\ arg.number = p.number /\ arg.index = i /\ arg.chat = p.list[i] /\ arg.list = <<>>
  <2>1. ExportWish \in ExportParams /\ ExportWish.list = <<>>
    BY WishFields
  <2>2. arg \in ExportParams /\ arg.number = p.number /\ arg.index = i /\ arg.chat = p.list[i] /\ arg.list = ExportWish.list
    BY <1>1, <2>1 DEF ExportParams
  <2> HIDE DEF arg
  <2> QED
    BY <2>1, <2>2
<1>3. FetchAsk(p, i) = [op |-> "exportchat", get |-> get, arg |-> arg]
  BY DEF FetchAsk, Ask
<1>4. get \in BOOLEAN /\ "exportchat" \in ExportNames
  BY DEF ExportNames
<1> HIDE DEF get, arg
<1> QED
  BY <1>2, <1>3, <1>4 DEF AsksFor

(* The page goes on with an answer, and asks for chats of its list.          *)
LEMMA ExportTurns ==
    ASSUME ExportInv, NEW p \in ExportPages, NEW r \in net, NEW asks \in Seq(AsksFor(ExportNames, ExportParams)),
           React({r}, asks), exporter' = p, UNCHANGED library, Fetched(p), ArchiveHolds(p),
           \A s \in net \ {r} : Exports(s, p) /\ s.op # "exportlist",
           \A i \in DOMAIN asks : /\ p.phase = "busy" /\ asks[i].op = "exportchat" /\ asks[i].arg.number = p.number
                                  /\ asks[i].arg.index \in DOMAIN p.list /\ asks[i].arg.chat = p.list[asks[i].arg.index]
                                  /\ asks[i].arg.list = <<>>
    PROVE  ExportInv' /\ task' = task
<1>1. UnderWay(ExportNames, ExportParams)
  BY ExportNow
<1> DEFINE done == {r}
<1>2. React(done, asks) /\ \A s \in net : s \notin done <=> s # r
  OBVIOUS
<1> HIDE DEF done
<1>3. Exchange(done, asks) /\ task' = task /\ clicks' \in 0..task.clicks /\ faults' = faults
  BY <1>1, <1>2, Reacted
<1>4. /\ UnderWay(ExportNames, ExportParams)'
      /\ \A s \in net' : (s \in net /\ s \notin done) \/ (\E i \in DOMAIN asks : SentFor(s, asks[i]))
  BY <1>1, <1>3, Exchanged
<1>5. p.number \in Nat /\ Once(<<>>)
  BY ExportFields, EmptyLists
<1>6. \A s \in net' : Exports(s, p) /\ s.op # "exportlist"
  <2> SUFFICES ASSUME NEW s \in net' PROVE Exports(s, p) /\ s.op # "exportlist"
    OBVIOUS
  <2>1. CASE s \in net /\ s \notin done
    BY <1>2, <2>1
  <2>2. CASE \E i \in DOMAIN asks : SentFor(s, asks[i])
    <3>1. PICK i \in DOMAIN asks : SentFor(s, asks[i])
      BY <2>2
    <3>2. s.op = "exportchat" /\ s.arg = asks[i].arg /\ s.got = asks[i].arg
      BY <3>1 DEF SentFor
    <3> QED
      BY <1>5, <3>2 DEF Exports
  <2> QED
    BY <1>4, <2>1, <2>2
<1>7. ListComesFirst(net', p)
  BY <1>6 DEF ListComesFirst
<1>8. LibraryIsFine'
  BY ExportNow DEF LibraryIsFine
<1> QED
  BY <1>3, <1>4, <1>6, <1>7, <1>8 DEF ExportInv

(* The last chat was fetched: the archive is made, or an error is shown.     *)
LEMMA ExportEnds ==
    ASSUME NEW p \in ExportPages, Fetched(p)
    PROVE  /\ Packed(p) \in ExportPages /\ Fetched(Packed(p)) /\ ArchiveHolds(Packed(p))
           /\ Packed(p).number = p.number /\ Packed(p).list = p.list /\ Packed(p).failed = p.failed
<1>1. CASE ArchiveFails(p)
  <2> DEFINE yes == TRUE
             q == [p EXCEPT !.phase = "idle", !.error = yes]
  <2>1. Packed(p) = q
    BY <1>1 DEF Packed
  <2>2. yes \in BOOLEAN /\ yes
    OBVIOUS
  <2> HIDE DEF yes
  <2>3. /\ q \in ExportPages /\ q.error = yes /\ q.number = p.number /\ q.list = p.list /\ q.failed = p.failed /\ q.got = p.got
    BY <2>2 DEF ExportPages
  <2> HIDE DEF q
  <2>4. Fetched(q) /\ ArchiveHolds(q)
    BY <2>2, <2>3 DEF Fetched, ArchiveHolds
  <2> QED
    BY <2>1, <2>3, <2>4
<1>2. CASE ~ArchiveFails(p)
  <2> DEFINE archive == Archive(p)
             q == [p EXCEPT !.phase = "idle", !.archive = archive]
  <2>1. Packed(p) = q
    BY <1>2 DEF Packed
  <2>2. /\ archive \in Archives /\ {entry.chat : entry \in Range(archive)} = ToSet(p.list)
        /\ Cardinality(DOMAIN archive) = Len(p.list)
    BY <1>2, ArchiveIsPacked
  <2> HIDE DEF archive
  <2>3. /\ q \in ExportPages /\ q.archive = archive /\ q.number = p.number /\ q.list = p.list /\ q.failed = p.failed
        /\ q.got = p.got
    BY <2>2 DEF ExportPages
  <2> HIDE DEF q
  <2>4. Fetched(q) /\ ArchiveHolds(q)
    BY <2>2, <2>3 DEF Fetched, ArchiveHolds
  <2> QED
    BY <2>1, <2>3, <2>4
<1> QED
  BY <1>1, <1>2

LEMMA AllChatsAreExported ==
    ASSUME ExportInv, ExportAllChats
    PROVE  ExportInv' /\ task' = task
<1> DEFINE number == exporter.number + 1
           arg == [ExportWish EXCEPT !.number = number]
           get == exporter.side = "app"
           ask == Ask("exportlist", get, arg)
           asks == <<ask>>
           no == FALSE
           p == [exporter EXCEPT !.phase = "busy", !.error = no, !.number = number, !.failed = no]
<1>1. exporter.phase = "idle" /\ ExportClick("all", p, asks)
  BY DEF ExportAllChats
<1>2. exporter \in ExportPages /\ exporter.number \in Nat /\ number \in Nat /\ exporter.number < number
  BY ExportNow, ExportFields
<1>3. no \in BOOLEAN /\ ~no /\ get \in BOOLEAN /\ "exportlist" \in ExportNames
  BY DEF ExportNames
<1> HIDE DEF no, get, number
<1>4. arg \in ExportParams /\ arg.number = number /\ arg.list = <<>>
  BY <1>2, WishFields
<1> HIDE DEF arg
<1>5. ask \in AsksFor(ExportNames, ExportParams) /\ ask.op = "exportlist" /\ ask.arg = arg
  BY <1>3, <1>4 DEF Ask, AsksFor
<1> HIDE DEF ask
<1>6. asks \in Seq(AsksFor(ExportNames, ExportParams)) /\ Len(asks) = 1 /\ DOMAIN asks = {1} /\ asks[1] = ask
  BY <1>5
<1> HIDE DEF asks
<1>7. /\ p \in ExportPages /\ p.phase = "busy" /\ p.number = number /\ ~p.failed /\ p.list = exporter.list
      /\ p.got = exporter.got
  BY <1>2, <1>3 DEF ExportPages
<1>8. exporter' = p /\ Click("all", asks) /\ library' = library
  BY <1>1 DEF ExportClick
<1> HIDE DEF p
<1>9. UnderWay(ExportNames, ExportParams)
  BY ExportNow
<1>10. Exchange({}, asks) /\ task' = task /\ clicks' \in 0..task.clicks /\ faults' = faults
  BY <1>8, <1>9, Clicked1
<1> DEFINE done == {}
<1>11. Exchange(done, asks)
  BY <1>10
<1> HIDE DEF done
<1>12. /\ UnderWay(ExportNames, ExportParams)'
       /\ \A r \in net' : r \in net \/ (r \notin net /\ \E i \in DOMAIN asks : SentFor(r, asks[i]))
       /\ \A r, q \in net' \ net : r = q
  BY <1>6, <1>9, <1>10, <1>11, Exchanged
<1>13. \A r \in net : r.op # "exportlist" /\ r.arg.number < number /\ r.arg.list = <<>> /\ Once(r.got.list)
  <2> SUFFICES ASSUME NEW r \in net PROVE r.op # "exportlist" /\ r.arg.number < number /\ r.arg.list = <<>> /\ Once(r.got.list)
    OBVIOUS
  <2>1. Exports(r, exporter) /\ r.arg.number \in Nat
    BY ExportNow, ExportParamFields
  <2>2. r.op # "exportlist"
    BY <1>1, <2>1, ExportNow DEF Exports, ListComesFirst
  <2> QED
    BY <1>2, <2>1, <2>2 DEF Exports
<1>14. \A r \in net' \ net : r.op = "exportlist" /\ r.arg = arg /\ r.got = arg
  BY <1>5, <1>6, <1>12 DEF SentFor
<1>15. \A r \in net' : Exports(r, p)
  <2> SUFFICES ASSUME NEW r \in net' PROVE Exports(r, p)
    OBVIOUS
  <2>1. CASE r \in net
    <3>1. r.arg.number \in Nat
      BY <2>1, ExportNow, ExportParamFields
    <3> QED
      BY <1>2, <1>7, <1>13, <2>1, <3>1 DEF Exports
  <2>2. CASE r \notin net
    BY <1>2, <1>4, <1>7, <1>14, <2>2, EmptyLists DEF Exports
  <2> QED
    BY <2>1, <2>2
<1>16. ListComesFirst(net', p)
  <2> SUFFICES ASSUME NEW r \in net', NEW q \in net', r.op = "exportlist"
               PROVE  /\ ~p.failed
                      /\ q.op = "exportlist" => q.id = r.id
                      /\ q.op = "exportchat" => q.arg.number # p.number
    BY DEF ListComesFirst
  <2>1. r \notin net
    BY <1>13
  <2>2. CASE q \in net
    <3>1. q.arg.number \in Nat
      BY <2>2, ExportNow, ExportParamFields
    <3> QED
      BY <1>2, <1>7, <1>13, <2>2, <3>1
  <2>3. CASE q \notin net
    <3>1. q = r /\ q.op = "exportlist"
      BY <1>12, <1>14, <2>1, <2>3
    <3> QED
      BY <1>7, <3>1
  <2> QED
    BY <2>2, <2>3
<1>17. Fetched(p) /\ ArchiveHolds(p)
  BY <1>7, ExportNow DEF Fetched, ArchiveHolds
<1>18. LibraryIsFine'
  BY <1>8, ExportNow DEF LibraryIsFine
<1> QED
  BY <1>7, <1>8, <1>10, <1>12, <1>15, <1>16, <1>17, <1>18 DEF ExportInv

LEMMA ExportListCame ==
    ASSUME ExportInv, ExportListBack
    PROVE  ExportInv' /\ task' = task
<1> DEFINE Count(r) == Len(r.got.list)
           First(r) == IF Count(r) < Workers THEN Count(r) ELSE Workers
           Page(r) == [exporter EXCEPT !.list = r.got.list,
                         !.got = [i \in 1..Count(r) |-> [chat |-> 0, messages |-> <<>>]], !.next = First(r) + 1]
<1>1. PICK r \in Back("exportlist") :
         /\ exporter' = IF r.state = "failed" THEN [exporter EXCEPT !.phase = "idle", !.error = TRUE]
                        ELSE IF Count(r) = 0 THEN Packed(Page(r)) ELSE Page(r)
         /\ React({r}, IF r.state = "failed" THEN <<>> ELSE [i \in 1..First(r) |-> FetchAsk(Page(r), i)])
         /\ UNCHANGED library
  BY DEF ExportListBack
<1>2. /\ r \in net /\ r.op = "exportlist" /\ r.arg.number = exporter.number /\ ~exporter.failed
      /\ exporter.phase = "busy" /\ exporter \in ExportPages /\ r.got.list \in Seq(ExportChats) /\ Once(r.got.list)
  <2>1. r \in net /\ r.op = "exportlist"
    BY <1>1 DEF Back, Open
  <2> QED
    BY <2>1, ExportNow, ExportParamFields DEF Exports, ListComesFirst
<1>3. \A s \in net \ {r} : /\ s.op # "exportlist" /\ s.arg.number # exporter.number /\ s.arg.number <= exporter.number
                           /\ s.arg.list = <<>> /\ Once(s.got.list)
  <2> SUFFICES ASSUME NEW s \in net, s # r
               PROVE  /\ s.op # "exportlist" /\ s.arg.number # exporter.number /\ s.arg.number <= exporter.number
                      /\ s.arg.list = <<>> /\ Once(s.got.list)
    OBVIOUS
  <2>1. s.op \in {"exportlist", "exportchat"} /\ Exports(s, exporter)
    BY ExportNow DEF ExportNames
  <2>2. s.id # r.id
    BY <1>2, ExportNow DEF UnderWay
  <2>3. s.op # "exportlist" /\ (s.op = "exportchat" => s.arg.number # exporter.number)
    BY <1>2, <2>2, ExportNow DEF ListComesFirst
  <2> QED
    BY <2>1, <2>3 DEF Exports
<1> DEFINE n == Count(r)
           first == First(r)
           p == Page(r)
<1>4. CASE r.state = "failed"
  <2> DEFINE yes == TRUE
             none == <<>>
             q == [exporter EXCEPT !.phase = "idle", !.error = yes]
  <2>1. exporter' = q /\ React({r}, none)
    BY <1>1, <1>4
  <2>2. yes \in BOOLEAN /\ yes /\ none \in Seq(AsksFor(ExportNames, ExportParams)) /\ DOMAIN none = {}
    OBVIOUS
  <2> HIDE DEF yes, none
  <2>3. q \in ExportPages /\ q.error = yes /\ q.number = exporter.number /\ q.list = exporter.list /\ q.got = exporter.got
    BY <1>2, <2>2 DEF ExportPages
  <2> HIDE DEF q
  <2>4. Fetched(q) /\ ArchiveHolds(q) /\ \A s \in net \ {r} : Exports(s, q) /\ s.op # "exportlist"
    BY <1>3, <2>2, <2>3, ExportNow DEF Fetched, ArchiveHolds, Exports
  <2> QED
    BY <1>1, <1>2, <2>1, <2>2, <2>3, <2>4, ExportTurns
<1>5. CASE r.state # "failed"
  <2> DEFINE none == <<>>
             list == r.got.list
             got == [i \in 1..n |-> [chat |-> 0, messages |-> none]]
             next == first + 1
             asks == [i \in 1..first |-> FetchAsk(p, i)]
  <2>1. p = [exporter EXCEPT !.list = list, !.got = got, !.next = next]
    OBVIOUS
  <2>2. none \in ChatTexts
    BY EmptyLists
  <2>3. n \in Nat /\ DOMAIN list = 1..n /\ first \in Nat /\ first <= n /\ next \in Nat \ {0} /\ list \in Seq(ExportChats) /\ Once(list)
    <3>1. n \in Nat /\ DOMAIN list = 1..n /\ list \in Seq(ExportChats) /\ Once(list)
      BY <1>2
    <3>2. Workers \in Nat
      BY ExportAssumption
    <3>3. first = IF n < Workers THEN n ELSE Workers
      OBVIOUS
    <3>4. next = first + 1
      OBVIOUS
    <3> HIDE DEF n, list, first, next
    <3>5. first \in Nat /\ first <= n
      BY <3>1, <3>2, <3>3
    <3> QED
      BY <3>1, <3>4, <3>5
  <2> HIDE DEF none, n, first, list, next
  <2>4. got \in Seq(FetchedChats) /\ DOMAIN got = 1..n /\ \A i \in 1..n : got[i].chat = 0
    <3>1. [chat |-> 0, messages |-> none] \in FetchedChats
      BY <2>2 DEF FetchedChats
    <3> QED
      BY <2>3, <3>1
  <2> HIDE DEF got, p, Page
  <2>5. /\ p \in ExportPages /\ p.list = list /\ p.got = got /\ p.number = exporter.number /\ p.phase = exporter.phase
        /\ p.failed = exporter.failed
    BY <1>2, <2>1, <2>3, <2>4 DEF ExportPages
  <2>6. Fetched(p)
    BY <2>3, <2>4, <2>5 DEF Fetched
  <2>7. /\ asks \in Seq(AsksFor(ExportNames, ExportParams)) /\ DOMAIN asks = 1..first
        /\ \A i \in 1..first : /\ asks[i].op = "exportchat" /\ asks[i].arg.number = p.number /\ asks[i].arg.index = i
                               /\ asks[i].arg.chat = p.list[i] /\ asks[i].arg.list = <<>> /\ i \in DOMAIN p.list
    <3>1. \A i \in 1..first : i \in DOMAIN p.list
      BY <2>3, <2>5
    <3>2. \A i \in 1..first :
            /\ FetchAsk(p, i) \in AsksFor(ExportNames, ExportParams) /\ FetchAsk(p, i).op = "exportchat"
            /\ FetchAsk(p, i).arg.number = p.number /\ FetchAsk(p, i).arg.index = i /\ FetchAsk(p, i).arg.chat = p.list[i]
            /\ FetchAsk(p, i).arg.list = <<>>
      BY <2>5, <3>1, FetchIsAsked
    <3> QED
      BY <2>3, <3>1, <3>2
  <2>8. React({r}, asks) /\ library' = library
    BY <1>1, <1>5 DEF p, first
  <2> HIDE DEF asks
  <2>9. CASE n = 0
    <3>1. exporter' = Packed(p)
      BY <1>1, <1>5, <2>9 DEF p, n
    <3>2. /\ Packed(p) \in ExportPages /\ Fetched(Packed(p)) /\ ArchiveHolds(Packed(p))
          /\ Packed(p).number = p.number
      BY <2>5, <2>6, ExportEnds
    <3>3. \A s \in net \ {r} : Exports(s, Packed(p)) /\ s.op # "exportlist"
      BY <1>3, <2>5, <3>2 DEF Exports
    <3>4. DOMAIN asks = {}
      BY <2>3, <2>7, <2>9
    <3> QED
      BY <1>2, <2>7, <2>8, <3>1, <3>2, <3>3, <3>4, ExportTurns
  <2>10. CASE n # 0
    <3>1. exporter' = p
      BY <1>1, <1>5, <2>10 DEF p, n
    <3>2. \A s \in net \ {r} : Exports(s, p) /\ s.op # "exportlist"
      BY <1>3, <2>5 DEF Exports
    <3>3. ArchiveHolds(p)
      BY <1>2, <2>5 DEF ArchiveHolds
    <3>4. \A i \in DOMAIN asks : /\ p.phase = "busy" /\ asks[i].op = "exportchat" /\ asks[i].arg.number = p.number
                                  /\ asks[i].arg.index \in DOMAIN p.list /\ asks[i].arg.chat = p.list[asks[i].arg.index]
                                  /\ asks[i].arg.list = <<>>
      BY <1>2, <2>5, <2>7
    <3> QED
      BY <1>2, <2>5, <2>6, <2>7, <2>8, <3>1, <3>2, <3>3, <3>4, ExportTurns
  <2> QED
    BY <2>9, <2>10
<1> QED
  BY <1>4, <1>5

LEMMA ChatWasFetched ==
    ASSUME ExportInv, ChatFetched
    PROVE  ExportInv' /\ task' = task
<1> DEFINE Mine(r) == r.arg.number = exporter.number /\ ~exporter.failed
           Page(r) == [exporter EXCEPT !.got[r.arg.index] = [chat |-> r.arg.chat, messages |-> r.got.messages]]
           HasMore(r) == Page(r).next <= Len(Page(r).list)
           Others(r) == {q \in Open("exportchat") : q.arg.number = r.arg.number} \ {r}
<1>1. PICK r \in Back("exportchat") :
         /\ exporter' = CASE ~Mine(r) -> exporter
                          [] Mine(r) /\ r.state = "failed" -> [exporter EXCEPT !.failed = TRUE, !.phase = "idle", !.error = TRUE]
                          [] Mine(r) /\ r.state # "failed" /\ HasMore(r) -> [Page(r) EXCEPT !.next = @ + 1]
                          [] OTHER -> IF Others(r) = {} THEN Packed(Page(r)) ELSE Page(r)
         /\ React({r}, IF Mine(r) /\ r.state = "answered" /\ HasMore(r) THEN <<FetchAsk(Page(r), Page(r).next)>> ELSE <<>>)
         /\ UNCHANGED library
  BY DEF ChatFetched
<1>2. /\ r \in net /\ r.op = "exportchat" /\ r.state # "sent" /\ r.state \in {"sent", "answered", "failed"}
      /\ exporter \in ExportPages /\ r.got.messages \in ChatTexts /\ r.arg.chat \in Nat /\ Exports(r, exporter)
  <2>1. r \in net /\ r.op = "exportchat" /\ r.state # "sent"
    BY <1>1 DEF Back, Open
  <2> QED
    BY <2>1, ExportNow, ExportParamFields, FieldsOfRequests
<1>3. ASSUME Mine(r)
      PROVE  /\ exporter.phase = "busy" /\ r.arg.index \in DOMAIN exporter.list /\ r.arg.chat = exporter.list[r.arg.index]
             /\ \A s \in net : Exports(s, exporter) /\ s.op # "exportlist" /\ s.op = "exportchat"
  <2>1. \A s \in net : s.op \in {"exportlist", "exportchat"} /\ Exports(s, exporter)
    BY ExportNow DEF ExportNames
  <2>2. \A s \in net : s.op # "exportlist"
    BY <1>2, <1>3, ExportNow DEF ListComesFirst
  <2> QED
    BY <1>2, <1>3, <2>1, <2>2 DEF Exports
<1> DEFINE p == Page(r)
           none == <<>>
<1>4. none \in Seq(AsksFor(ExportNames, ExportParams)) /\ DOMAIN none = {}
  OBVIOUS
<1> HIDE DEF none
<1>5. CASE ~Mine(r)
  <2>1. exporter' = exporter /\ React({r}, none) /\ library' = library
    BY <1>1, <1>5 DEF none
  <2> DEFINE done == {r}
  <2>2. React(done, none)
    BY <2>1
  <2> HIDE DEF done
  <2>3. UnderWay(ExportNames, ExportParams)
    BY ExportNow
  <2>4. Exchange(done, none) /\ task' = task /\ clicks' \in 0..task.clicks /\ faults' = faults
    BY <2>2, <2>3, Reacted
  <2>5. UnderWay(ExportNames, ExportParams)' /\ \A s \in net' : s \in net
    BY <1>4, <2>3, <2>4, Exchanged
  <2>6. LibraryIsFine'
    BY <2>1, ExportNow DEF LibraryIsFine
  <2> QED
    BY <2>1, <2>4, <2>5, <2>6, ExportAwaits
<1>6. CASE Mine(r) /\ r.state = "failed"
  <2> DEFINE yes == TRUE
             q == [exporter EXCEPT !.failed = yes, !.phase = "idle", !.error = yes]
  <2>1. exporter' = q /\ React({r}, none) /\ library' = library
    BY <1>1, <1>6 DEF none
  <2>2. yes \in BOOLEAN /\ yes
    OBVIOUS
  <2> HIDE DEF yes, Mine
  <2>3. /\ q \in ExportPages /\ q.error = yes /\ q.failed = yes /\ q.number = exporter.number /\ q.list = exporter.list
        /\ q.got = exporter.got
    BY <1>2, <2>2 DEF ExportPages
  <2> HIDE DEF q
  <2>4. Fetched(q) /\ ArchiveHolds(q)
    BY <2>2, <2>3, ExportNow DEF Fetched, ArchiveHolds
  <2>5. \A s \in net \ {r} : Exports(s, q) /\ s.op # "exportlist"
    BY <1>3, <1>6, <2>2, <2>3 DEF Exports
  <2> QED
    BY <1>2, <1>4, <2>1, <2>3, <2>4, <2>5, ExportTurns
<1>7. CASE Mine(r) /\ r.state = "answered"
  <2> DEFINE chat == [chat |-> r.arg.chat, messages |-> r.got.messages]
             got == [exporter.got EXCEPT ![r.arg.index] = chat]
  <2>1. p = [exporter EXCEPT !.got = got]
    BY <1>2 DEF ExportPages
  <2>2. chat \in FetchedChats /\ chat.chat = r.arg.chat
    BY <1>2 DEF FetchedChats
  <2>3. /\ exporter.got \in Seq(FetchedChats) /\ DOMAIN exporter.got = DOMAIN exporter.list
        /\ exporter.phase = "busy" /\ r.arg.index \in DOMAIN exporter.list /\ r.arg.chat = exporter.list[r.arg.index]
    BY <1>2, <1>3, <1>7, ExportFields, ExportNow DEF Fetched
  <2> HIDE DEF chat
  <2>4. got \in Seq(FetchedChats) /\ DOMAIN got = DOMAIN exporter.list
        /\ \A i \in DOMAIN exporter.list : got[i] = IF i = r.arg.index THEN chat ELSE exporter.got[i]
    BY <2>2, <2>3
  <2> HIDE DEF got, p, Page
  <2>5. /\ p \in ExportPages /\ p.got = got /\ p.list = exporter.list /\ p.number = exporter.number
        /\ p.phase = exporter.phase /\ p.failed = exporter.failed /\ p.next = exporter.next
    BY <1>2, <2>1, <2>4 DEF ExportPages
  <2>6. Fetched(p)
    BY <2>2, <2>3, <2>4, <2>5, ExportNow DEF Fetched
  <2>7. \A s \in net \ {r} : Exports(s, p) /\ s.op # "exportlist"
    BY <1>3, <1>7, <2>5 DEF Exports
  <2>8. p.phase = "busy" /\ ArchiveHolds(p)
    BY <2>3, <2>5 DEF ArchiveHolds
  <2>9. CASE HasMore(r)
    <3> DEFINE next == p.next + 1
               q == [p EXCEPT !.next = next]
               ask == FetchAsk(p, p.next)
               asks == <<ask>>
    <3>1. exporter' = q /\ React({r}, asks) /\ library' = library
      BY <1>1, <1>7, <2>9 DEF p
    <3>2. p.next \in Nat \ {0} /\ p.next <= Len(p.list) /\ p.next \in DOMAIN p.list /\ next \in Nat \ {0}
      <4>1. p.next \in Nat \ {0} /\ p.list \in Seq(ExportChats)
        BY <2>5, ExportFields
      <4>2. p.next <= Len(p.list)
        BY <2>9 DEF p
      <4> QED
        BY <4>1, <4>2
    <3> HIDE DEF next
    <3>3. /\ q \in ExportPages /\ q.got = p.got /\ q.list = p.list /\ q.number = p.number /\ q.phase = p.phase
          /\ q.failed = p.failed
      BY <2>5, <3>2 DEF ExportPages
    <3> HIDE DEF q
    <3>4. /\ ask \in AsksFor(ExportNames, ExportParams) /\ ask.op = "exportchat" /\ ask.arg.number = p.number
          /\ ask.arg.index = p.next /\ ask.arg.chat = p.list[p.next] /\ ask.arg.list = <<>>
      BY <2>5, <3>2, FetchIsAsked
    <3> HIDE DEF ask
    <3>5. asks \in Seq(AsksFor(ExportNames, ExportParams)) /\ DOMAIN asks = {1} /\ asks[1] = ask
      BY <3>4
    <3> HIDE DEF asks
    <3>6. Fetched(q) /\ ArchiveHolds(q)
      BY <2>6, <2>8, <3>3 DEF Fetched, ArchiveHolds
    <3>7. \A s \in net \ {r} : Exports(s, q) /\ s.op # "exportlist"
      BY <2>7, <3>3 DEF Exports
    <3>8. \A i \in DOMAIN asks : /\ q.phase = "busy" /\ asks[i].op = "exportchat" /\ asks[i].arg.number = q.number
                                  /\ asks[i].arg.index \in DOMAIN q.list /\ asks[i].arg.chat = q.list[asks[i].arg.index]
                                  /\ asks[i].arg.list = <<>>
      BY <2>8, <3>2, <3>3, <3>4, <3>5
    <3> QED
      BY <1>2, <3>1, <3>3, <3>5, <3>6, <3>7, <3>8, ExportTurns
  <2>10. CASE ~HasMore(r) /\ Others(r) # {}
    <3>1. exporter' = p /\ React({r}, none) /\ library' = library
      BY <1>1, <1>7, <2>10 DEF p, none
    <3> QED
      BY <1>2, <1>4, <2>5, <2>6, <2>7, <2>8, <3>1, ExportTurns
  <2>11. CASE ~HasMore(r) /\ Others(r) = {}
    <3>1. exporter' = Packed(p) /\ React({r}, none) /\ library' = library
      BY <1>1, <1>7, <2>11 DEF p, none
    <3>2. /\ Packed(p) \in ExportPages /\ Fetched(Packed(p)) /\ ArchiveHolds(Packed(p))
          /\ Packed(p).number = p.number /\ Packed(p).list = p.list
      BY <2>5, <2>6, ExportEnds
    <3>3. \A s \in net \ {r} : s.arg.number # exporter.number
      BY <1>3, <1>7, <2>11 DEF Open
    <3>4. \A s \in net \ {r} : Exports(s, Packed(p)) /\ s.op # "exportlist"
      BY <2>5, <2>7, <3>2, <3>3 DEF Exports
    <3> QED
      BY <1>2, <1>4, <3>1, <3>2, <3>4, ExportTurns
  <2> QED
    BY <2>9, <2>10, <2>11
<1> HIDE DEF Mine
<1> QED
  BY <1>2, <1>5, <1>6, <1>7

LEMMA ExportStarts ==
    ASSUME InitRequests("export"), InitExport
    PROVE  ExportInv
<1>1. task \in Tasks /\ clicks = 0 /\ faults = 0
  BY DEF InitRequests
<1>2. UnderWay(ExportNames, ExportParams) /\ net = {}
  <2>1. IsFiniteSet(net) /\ net = {}
    BY FS_EmptySet DEF InitExport
  <2> QED
    BY <1>1, <2>1, TaskFields DEF UnderWay
<1>3. PICK large \in {0, 1}, day \in {0, 1} :
        library = [c \in ExportChats |-> [i \in 1..(IF c <= large THEN 2 ELSE 1) |-> [n |-> i, day |-> day]]]
  BY DEF InitExport
<1>4. DOMAIN library = ExportChats /\ \A c \in ExportChats : library[c] \in ChatTexts
  <2>1. ASSUME NEW c \in ExportChats PROVE library[c] \in ChatTexts
    <3> DEFINE long == IF c <= large THEN 2 ELSE 1
               text == [i \in 1..long |-> [n |-> i, day |-> day]]
    <3>1. long \in Nat /\ library[c] = text /\ day \in Nat
      BY <1>3
    <3> HIDE DEF long
    <3>2. \A i \in 1..long : [n |-> i, day |-> day] \in [n: Nat, day: Nat]
      BY <3>1
    <3> QED
      BY <3>1, <3>2 DEF ChatTexts
  <2> QED
    BY <1>3, <2>1
<1>5. LibraryIsFine
  BY <1>4 DEF LibraryIsFine
<1>6. PICK side \in {"app", "standalone"}, c \in ExportChats : exporter = OpenedExport(side, c)
  BY DEF InitExport
<1> DEFINE no == FALSE
           none == <<>>
           texts == library[c]
<1>7. /\ no \in BOOLEAN /\ none \in ChatTexts /\ none \in Seq(ExportChats) /\ none \in Seq(FetchedChats) /\ texts \in ChatTexts
      /\ Once(none) /\ DOMAIN none = {} /\ NoArchive \in Archives
  <2>1. NoArchive \in Archives
    <3>1. NoArchive \in [{} -> FetchedChats]
      BY DEF NoArchive
    <3>2. {} \in SUBSET (Nat \X Nat)
      OBVIOUS
    <3> QED
      BY <3>1, <3>2 DEF Archives
  <2> QED
    BY <1>4, <2>1, EmptyLists
<1> DEFINE file == NoFile
<1>8. file \in ExportFiles
  BY <1>7 DEF NoFile, ExportFiles
<1>9. exporter = [side |-> side, format |-> "md", from |-> 0, to |-> 0, selecting |-> no, picked |-> {}, chat |-> c,
                  messages |-> texts, file |-> file, number |-> 0, phase |-> "idle", list |-> none, got |-> none,
                  next |-> 1, failed |-> no, error |-> no, archive |-> NoArchive]
  BY <1>6 DEF OpenedExport
<1> HIDE DEF no, none, texts, file
<1>10. /\ exporter \in ExportPages /\ exporter.list = none /\ exporter.got = none /\ exporter.archive = NoArchive
  BY <1>7, <1>8, <1>9 DEF ExportPages, Formats, Days
<1>11. Fetched(exporter) /\ ArchiveHolds(exporter)
  BY <1>7, <1>10 DEF Fetched, ArchiveHolds
<1> QED
  BY <1>2, <1>5, <1>10, <1>11 DEF ExportInv, ListComesFirst

LEMMA ExportSteps ==
    ASSUME ExportInv, NextExport
    PROVE  ExportInv' /\ task' = task
BY ExportServes, ChatIsGone, OptionsAreChosen, SelectionIsToggled, MessageIsTicked, ChatWentOn, ChatIsOpened,
   ChatIsExported, AllChatsAreExported, ExportListCame, ChatWasFetched DEF NextExport

LEMMA ExportPromises ==
    ASSUME ExportInv
    PROVE  /\ TypeOKRequests /\ TypeOKExport
           /\ exporter.archive # NoArchive /\ exporter.phase = "idle" /\ ~exporter.error =>
                /\ {entry.chat : entry \in Range(exporter.archive)} = ToSet(exporter.list)
                /\ Cardinality(DOMAIN exporter.archive) = Len(exporter.list)
<1>1. TypeOKRequests
  BY FieldsOfRequests DEF ExportInv, UnderWay, TypeOKRequests
<1>2. exporter \in ExportPages /\ LibraryIsFine /\ Fetched(exporter)
  BY ExportNow
<1>3. /\ exporter.list \in Seq(ExportChats) /\ exporter.got \in Seq(FetchedChats) /\ Len(exporter.list) \in Nat
      /\ DOMAIN exporter.list = 1..Len(exporter.list) /\ Len(exporter.got) = Len(exporter.list)
      /\ Once(exporter.list)
  BY <1>2, ExportFields DEF Fetched
<1>4. Len(exporter.list) <= Cardinality(ExportChats)
  <2> DEFINE n == Len(exporter.list)
             S == 1..n
  <2>1. IsFiniteSet(S) /\ Cardinality(S) = n
    <3>1. 1 \in Int /\ n \in Int /\ n \in Nat
      BY <1>3
    <3> HIDE DEF n
    <3>2. IsFiniteSet(S) /\ Cardinality(S) = IF 1 > n THEN 0 ELSE n - 1 + 1
      BY <3>1, FS_Interval
    <3> QED
      BY <3>1, <3>2
  <2>2. exporter.list \in Injection(S, ExportChats)
    BY <1>3 DEF Injection, IsInjective, Once
  <2>3. IsFiniteSet(ExportChats)
    BY ExportAssumption
  <2> HIDE DEF S
  <2>4. Cardinality(S) <= Cardinality(ExportChats)
    BY <2>1, <2>2, <2>3, FS_Injection
  <2> QED
    BY <2>1, <2>4
<1>5. ToSet(exporter.list) \subseteq ExportChats
  BY <1>3 DEF ToSet
<1>6. TypeOKExport
  BY <1>2, <1>3, <1>4, <1>5, ExportFields DEF TypeOKExport, LibraryIsFine
<1> QED
  BY <1>1, <1>6, ExportNow DEF ArchiveHolds

-----------------------------------------------------------------------------
(* The approval of actions.                                                  *)

IsRequest(r) ==
    r = [op |-> r.op, get |-> r.get, arg |-> r.arg, id |-> r.id, tries |-> r.tries, state |-> r.state, got |-> r.got]

IsPanel(c) ==
    c = [side |-> c.side, tool |-> c.tool, preview |-> c.preview, args |-> c.args, shown |-> c.shown, hunks |-> c.hunks,
         listed |-> c.listed, phase |-> c.phase, error |-> c.error, approved |-> c.approved, ticked |-> c.ticked,
         seen |-> c.seen, seenHunks |-> c.seenHunks]

(* What was approved is what was seen. *)
TrueToForm(c, args) ==
    /\ \A k \in DOMAIN c.seen \ TimesOfDay(c.tool) : args[k] = AsShown(c, k)
    /\ DOMAIN args \cap DOMAIN Forms[c.tool] \subseteq DOMAIN c.seen
    /\ \A k \in DOMAIN c.seen : Forms[c.tool][k].must => c.seen[k] # ""

TrueToPanel(c) == c.ticked = c.seenHunks /\ (~c.preview => TrueToForm(c, c.approved))

(* An approval that is on its way is the only one, and the page waits for it. *)
ApprovalInv ==
    /\ \A r \in net : IsRequest(r)
    /\ \A r, q \in Open("confirm") : r = q
    /\ Open("confirm") # {} => confirm.phase = "running"
    /\ IsPanel(confirm) /\ confirm.tool \in Tools
    /\ confirm.side = "app" =>
         /\ confirm.phase \in {"waiting", "running"} => TrueToPanel(confirm)
         /\ \A r \in Open("confirm") : r.arg.args = confirm.approved /\ r.arg.hunks = confirm.ticked

(* The forms: which have a type, and which fields are always shown.          *)
LEMMA FieldsAbove ==
    \A f, g : /\ DOMAIN Above(f, g) = DOMAIN f \cup DOMAIN g
              /\ \A k \in DOMAIN f : Above(f, g)[k] = f[k]
BY DEF Above

LEMMA FieldsKept ==
    \A f, S : /\ DOMAIN Restrict(f, S) = S
              /\ \A k \in S : Restrict(f, S)[k] = f[k]
BY DEF Restrict

LEMMA Identity ==
    \A key, fields : /\ DOMAIN Identified(key) = {key}
                     /\ DOMAIN IdentifiedAnd(key, fields) = {key} \cup DOMAIN fields
<1>1. \A key : DOMAIN Identified(key) = {key}
  BY DEF Identified
<1> QED
  BY <1>1, FieldsAbove DEF IdentifiedAnd

LEMMA OnlySharesHaveTypes ==
    ASSUME NEW tool \in DOMAIN Forms, tool # "create_share"
    PROVE  "type" \notin DOMAIN Forms[tool]
<1> DEFINE S(t) == t # "create_share" => "type" \notin DOMAIN Forms[t]
<1>a. \A key : key # "type" => "type" \notin DOMAIN Identified(key)
  BY DEF Identified
<1>b. \A key, fields : key # "type" /\ "type" \notin DOMAIN fields => "type" \notin DOMAIN IdentifiedAnd(key, fields)
  BY Identity
<1>1. S("run_terminal_command")
  <2>1. Forms["run_terminal_command"] = IdentifiedAnd("command", [rest |-> Rest])
    BY DEF Forms
  <2> QED
    BY <1>a, <1>b, <2>1
<1>2. S("run_terminal_sequence")
  <2>1. Forms["run_terminal_sequence"] = [commands |-> Field("list", TRUE), stdin |-> Field("list", FALSE), rest |-> Rest]
    BY DEF Forms
  <2> QED
    BY <1>a, <1>b, <2>1
<1>3. S("update_share")
  <2>1. Forms["update_share"] = IdentifiedAnd("share_id", [expiration |-> Field("date", FALSE), rest |-> Rest])
    BY DEF Forms
  <2> QED
    BY <1>a, <1>b, <2>1
<1>4. S("delete_share")
  <2>1. Forms["delete_share"] = Identified("share_id")
    BY DEF Forms
  <2> QED
    BY <1>a, <1>b, <2>1
<1>5. S("create_calendar_event")
  <2>1. Forms["create_calendar_event"] = [summary |-> Must, start |-> Field("date", TRUE), start_time |-> Field("time", FALSE),
         end |-> Field("date", FALSE), end_time |-> Field("time", FALSE),
         calendar |-> Field("calendar", FALSE), rest |-> Rest]
    BY DEF Forms
  <2> QED
    BY <1>a, <1>b, <2>1
<1>6. S("update_calendar_event")
  <2>1. Forms["update_calendar_event"] = IdentifiedAnd("event_id", [start |-> Field("datetime", FALSE), end |-> Field("datetime", FALSE), rest |-> Rest])
    BY DEF Forms
  <2> QED
    BY <1>a, <1>b, <2>1
<1>7. S("delete_calendar_event")
  <2>1. Forms["delete_calendar_event"] = Identified("event_id")
    BY DEF Forms
  <2> QED
    BY <1>a, <1>b, <2>1
<1>8. S("create_task")
  <2>1. Forms["create_task"] = IdentifiedAnd("title", [due |-> Field("datetime", FALSE), rest |-> Rest])
    BY DEF Forms
  <2> QED
    BY <1>a, <1>b, <2>1
<1>9. S("update_task")
  <2>1. Forms["update_task"] = IdentifiedAnd("task_id", [status |-> Field("status", FALSE), due |-> Field("datetime", FALSE), rest |-> Rest])
    BY DEF Forms
  <2> QED
    BY <1>a, <1>b, <2>1
<1>10. S("complete_task")
  <2>1. Forms["complete_task"] = Identified("task_id")
    BY DEF Forms
  <2> QED
    BY <1>a, <1>b, <2>1
<1>11. S("delete_task")
  <2>1. Forms["delete_task"] = Identified("task_id")
    BY DEF Forms
  <2> QED
    BY <1>a, <1>b, <2>1
<1>12. S("create_file")
  <2>1. Forms["create_file"] = IdentifiedAnd("path", Identified("content"))
    BY DEF Forms
  <2> QED
    BY <1>a, <1>b, <2>1
<1>13. S("create_note")
  <2>1. Forms["create_note"] = IdentifiedAnd("title", Identified("content"))
    BY DEF Forms
  <2> QED
    BY <1>a, <1>b, <2>1
<1>14. S("create_folder")
  <2>1. Forms["create_folder"] = Identified("path")
    BY DEF Forms
  <2> QED
    BY <1>a, <1>b, <2>1
<1>15. S("rename_file")
  <2>1. Forms["rename_file"] = IdentifiedAnd("path", Identified("new_name"))
    BY DEF Forms
  <2> QED
    BY <1>a, <1>b, <2>1
<1>16. S("delete_file")
  <2>1. Forms["delete_file"] = Identified("path")
    BY DEF Forms
  <2> QED
    BY <1>a, <1>b, <2>1
<1>17. S("update_knowledge")
  <2>1. Forms["update_knowledge"] = Identified("fact")
    BY DEF Forms
  <2> QED
    BY <1>a, <1>b, <2>1
<1>18. S("create_contact")
  <2>1. Forms["create_contact"] = IdentifiedAnd("name", [rest |-> Rest])
    BY DEF Forms
  <2> QED
    BY <1>a, <1>b, <2>1
<1>19. S("update_contact")
  <2>1. Forms["update_contact"] = IdentifiedAnd("query", [rest |-> Rest])
    BY DEF Forms
  <2> QED
    BY <1>a, <1>b, <2>1
<1>20. S("delete_contact")
  <2>1. Forms["delete_contact"] = Identified("query")
    BY DEF Forms
  <2> QED
    BY <1>a, <1>b, <2>1
<1>21. S("update_profile")
  <2>1. Forms["update_profile"] = [rest |-> Rest]
    BY DEF Forms
  <2> QED
    BY <1>a, <1>b, <2>1
<1>22. S("create_share")
  OBVIOUS
<1>23. DOMAIN Forms =
        {"run_terminal_command", "run_terminal_sequence", "create_share", "update_share", "delete_share",
         "create_calendar_event", "update_calendar_event", "delete_calendar_event", "create_task", "update_task",
         "complete_task", "delete_task", "create_file", "create_note", "create_folder", "rename_file", "delete_file",
         "update_knowledge", "create_contact", "update_contact", "delete_contact", "update_profile"}
  BY DEF Forms
<1> HIDE DEF S
<1>24. S(tool)
  BY <1>1, <1>2, <1>3, <1>4, <1>5, <1>6, <1>7, <1>8, <1>9, <1>10, <1>11, <1>12, <1>13, <1>14, <1>15, <1>16, <1>17, <1>18, <1>19, <1>20, <1>21, <1>22, <1>23
<1> QED
  BY <1>24 DEF S

LEMMA FieldsThatStay ==
    /\ DOMAIN Forms["create_calendar_event"] = {"summary", "start", "start_time", "end", "end_time", "calendar", "rest"}
    /\ \A k \in DOMAIN Forms["create_calendar_event"] : Forms["create_calendar_event"][k].kinds = {}
    /\ "type" \in DOMAIN Forms["create_share"] /\ Forms["create_share"]["type"].kinds = {}
<1>1. Must.kinds = {} /\ Rest.kinds = {} /\ \A type, must : Field(type, must).kinds = {}
  BY DEF Must, Rest, Field
<1>2. Forms["create_calendar_event"] =
        [summary |-> Must, start |-> Field("date", TRUE), start_time |-> Field("time", FALSE),
         end |-> Field("date", FALSE), end_time |-> Field("time", FALSE),
         calendar |-> Field("calendar", FALSE), rest |-> Rest]
  BY DEF Forms
<1>3. Forms["create_share"] =
        [path |-> Must, type |-> Field("share", FALSE), target |-> OnlyFor({"user", "group"}, Must),
         write |-> Field("checkbox", FALSE), password |-> OnlyFor({"link"}, Rest),
         expiration |-> OnlyFor({"link"}, Field("date", FALSE)), rest |-> Rest]
  BY DEF Forms
<1>4. DOMAIN Forms["create_calendar_event"] = {"summary", "start", "start_time", "end", "end_time", "calendar", "rest"}
  BY <1>2
<1>5. \A k \in DOMAIN Forms["create_calendar_event"] : Forms["create_calendar_event"][k].kinds = {}
  <2> DEFINE event == Forms["create_calendar_event"]
  <2>1. /\ event["summary"] = Must /\ event["rest"] = Rest
        /\ event["start"] = Field("date", TRUE) /\ event["start_time"] = Field("time", FALSE)
        /\ event["end"] = Field("date", FALSE) /\ event["end_time"] = Field("time", FALSE)
        /\ event["calendar"] = Field("calendar", FALSE)
    BY <1>2
  <2> HIDE DEF event
  <2>2. /\ event["summary"].kinds = {} /\ event["rest"].kinds = {} /\ event["start"].kinds = {} /\ event["start_time"].kinds = {}
        /\ event["end"].kinds = {} /\ event["end_time"].kinds = {} /\ event["calendar"].kinds = {}
    BY <1>1, <2>1
  <2>3. DOMAIN event = {"summary", "start", "start_time", "end", "end_time", "calendar", "rest"}
    BY <1>4 DEF event
  <2>4. \A k \in DOMAIN event : event[k].kinds = {}
    BY <2>2, <2>3
  <2> QED
    BY <2>4 DEF event
<1>6. "type" \in DOMAIN Forms["create_share"] /\ Forms["create_share"]["type"] = Field("share", FALSE)
  BY <1>3
<1> QED
  BY <1>1, <1>4, <1>5, <1>6

(* What the page collects from a form is what the form shows. *)
LEMMA FormIsCollected ==
    ASSUME NEW c, c.side = "app", ~c.preview, c.tool \in Tools, Missing(c) = {},
           NEW d, d.seen = Restrict(c.shown, Visible(c)), d.tool = c.tool
    PROVE  TrueToForm(d, Collected(c))
<1> DEFINE fields == Forms[c.tool]
           V == Visible(c)
           rest == DOMAIN c.args \ DOMAIN fields
           out == Above(Restrict(c.shown, V), Restrict(c.args, rest))
<1>1. FieldsOf(c) = fields
  BY DEF FieldsOf, Fields
<1>2. V \subseteq DOMAIN fields /\ \A k \in DOMAIN fields : fields[k].kinds = {} => k \in V
  BY <1>1 DEF Visible
<1>3. DOMAIN d.seen = V /\ \A k \in V : d.seen[k] = c.shown[k]
  BY FieldsKept
<1>4. DOMAIN out = V \cup rest /\ (\A k \in V : out[k] = c.shown[k])
  BY DEF Above, Restrict
<1>5. \A k \in V : fields[k].must => c.shown[k] # ""
  BY <1>1 DEF Missing
<1>6. Collected(c) = IF DOMAIN fields = {} THEN c.args ELSE Combined(c, out)
  BY <1>1 DEF Collected
<1>7. c.tool # "create_share" => "type" \notin DOMAIN fields
  BY OnlySharesHaveTypes, ToolsAssumption
<1>8. rest \cap DOMAIN fields = {}
  OBVIOUS
<1> HIDE DEF out, rest, V, fields
<1>9. CASE DOMAIN fields = {}
  BY <1>2, <1>3, <1>9 DEF TrueToForm, fields
<1>10. CASE DOMAIN fields # {} /\ c.tool = "create_calendar_event"
  <2> DEFINE start == Together(out["start"], out["start_time"])
             end == Together(out["end"], out["end_time"])
             put == [[out EXCEPT !["start"] = start] EXCEPT !["end"] = end]
             args == Restrict(put, DOMAIN out \ {"start_time", "end_time"})
  <2>1. Collected(c) = args
    BY <1>6, <1>10 DEF Combined
  <2>2. V = {"summary", "start", "start_time", "end", "end_time", "calendar", "rest"}
    BY <1>2, <1>10, FieldsThatStay DEF fields
  <2>3. /\ put["start"] = start /\ put["end"] = end
        /\ \A k \in DOMAIN out : k \notin {"start", "end"} => put[k] = out[k]
    BY <1>4, <2>2
  <2> HIDE DEF put
  <2>4. DOMAIN args = DOMAIN out \ {"start_time", "end_time"} /\ \A k \in DOMAIN args : args[k] = put[k]
    BY FieldsKept
  <2> HIDE DEF args
  <2>5. DOMAIN TimeOf = {"start", "end"} /\ TimeOf["start"] = "start_time" /\ TimeOf["end"] = "end_time"
    BY DEF TimeOf
  <2>6. TimesOfDay(d.tool) = {"start_time", "end_time"}
    BY <1>10, <2>5 DEF TimesOfDay, Range
  <2>7. ASSUME NEW k \in V, k \notin {"start_time", "end_time"}
        PROVE  args[k] = AsShown(d, k)
    <3>1. k \in DOMAIN args /\ args[k] = put[k] /\ k # "type" /\ d.tool = "create_calendar_event"
      BY <1>4, <1>10, <2>2, <2>4, <2>7
    <3>2. CASE k = "start"
      <4>1. AsShown(d, k) = Together(d.seen["start"], d.seen["start_time"])
        BY <2>5, <3>1, <3>2 DEF AsShown
      <4> QED
        BY <1>3, <1>4, <2>2, <2>3, <3>1, <3>2, <4>1
    <3>3. CASE k = "end"
      <4>1. AsShown(d, k) = Together(d.seen["end"], d.seen["end_time"])
        BY <2>5, <3>1, <3>3 DEF AsShown
      <4> QED
        BY <1>3, <1>4, <2>2, <2>3, <3>1, <3>3, <4>1
    <3>4. CASE k \notin {"start", "end"}
      <4>1. AsShown(d, k) = d.seen[k]
        BY <2>5, <3>1, <3>4 DEF AsShown
      <4> QED
        BY <1>3, <1>4, <2>3, <3>1, <3>4, <4>1
    <3> QED
      BY <3>2, <3>3, <3>4
  <2>8. DOMAIN args \cap DOMAIN fields \subseteq V
    BY <1>4, <1>8, <2>4
  <2> QED
    BY <1>3, <1>5, <2>1, <2>6, <2>7, <2>8 DEF TrueToForm, fields
<1>11. CASE DOMAIN fields # {} /\ c.tool # "create_calendar_event"
  <2>1. TimesOfDay(d.tool) = {}
    BY <1>11 DEF TimesOfDay
  <2> DEFINE args == Collected(c)
  <2>2. args = IF c.tool = "create_share" /\ out["type"] = "link" THEN [out EXCEPT !["type"] = "public"] ELSE out
    BY <1>6, <1>11 DEF Combined
  <2>3. \A k : AsShown(d, k) = IF k = "type" /\ d.seen[k] = "link" THEN "public" ELSE d.seen[k]
    BY <1>11 DEF AsShown
  <2> HIDE DEF args
  <2>4. c.tool = "create_share" => "type" \in V
    BY <1>2, FieldsThatStay DEF fields
  <2>5. DOMAIN args = DOMAIN out
    BY <2>2
  <2>6. ASSUME NEW k \in V
        PROVE  args[k] = AsShown(d, k)
    <3>1. CASE k = "type"
      <4>1. c.tool = "create_share"
        BY <1>2, <1>7, <3>1
      <4>2. out[k] = d.seen[k] /\ "type" \in DOMAIN out
        BY <1>3, <1>4, <3>1
      <4> QED
        BY <2>2, <2>3, <3>1, <4>1, <4>2
    <3>2. CASE k # "type"
      <4>1. args[k] = out[k]
        BY <1>4, <2>2, <3>2
      <4> QED
        BY <1>3, <1>4, <2>3, <3>2, <4>1
    <3> QED
      BY <3>1, <3>2
  <2>7. DOMAIN args \cap DOMAIN fields \subseteq V
    BY <1>4, <1>8, <2>5
  <2> QED
    BY <1>3, <1>5, <2>1, <2>6, <2>7 DEF TrueToForm, fields, args
<1> QED
  BY <1>9, <1>10, <1>11

(* What is asked and what is done with a request of the page. *)
LEMMA RequestsEnd ==
    ASSUME \A r \in net : IsRequest(r), NEW done, Exchange(done, <<>>)
    PROVE  (\A r \in net' : IsRequest(r)) /\ net' = net \ done
<1>1. net' = net \ done
  BY DEF Exchange, Sent
<1> QED
  BY <1>1

LEMMA RequestIsSent ==
    ASSUME NEW done, NEW a, Exchange(done, <<a>>)
    PROVE  \E q : net' = (net \ done) \cup {q} /\ IsRequest(q) /\ q.op = a.op /\ q.arg = a.arg
<1> DEFINE asks == <<a>>
           ids == FreeIds(Len(asks))
           q == [op |-> a.op, get |-> a.get, arg |-> a.arg, id |-> ids[1], tries |-> 0, state |-> "sent", got |-> a.arg]
<1>1. DOMAIN asks = {1} /\ asks[1] = a
  OBVIOUS
<1>2. Exchange(done, asks)
  OBVIOUS
<1> HIDE DEF asks, ids
<1>3. net' = (net \ done) \cup {q}
  BY <1>1, <1>2 DEF Exchange, Sent, ids
<1>4. IsRequest(q) /\ q.op = a.op /\ q.arg = a.arg
  BY DEF IsRequest
<1> QED
  BY <1>3, <1>4

RequestNames == {"op", "get", "arg", "id", "tries", "state", "got"}

LEMMA RequestFieldsAre ==
    /\ \A r : IsRequest(r) => DOMAIN r = RequestNames
    /\ \A r : r = [k \in RequestNames |-> r[k]] => IsRequest(r)
BY DEF IsRequest, RequestNames

(* A request that only moves on leaves the approval as it is. *)
LEMMA ApprovalMoves ==
    ASSUME ApprovalInv, UNCHANGED confirm, NEW r \in net, NEW q, IsRequest(q), q.op = r.op, q.arg = r.arg,
           net' = (net \ {r}) \cup {q}
    PROVE  ApprovalInv'
<1>1. \A s \in net' : IsRequest(s) /\ (s = q \/ (s \in net /\ s # r))
  BY DEF ApprovalInv
<1>2. \A s \in Open("confirm")' : (s = q /\ r \in Open("confirm")) \/ (s \in Open("confirm") /\ s # r)
  BY <1>1 DEF Open
<1>3. \A s, t \in Open("confirm")' : s = t
  BY <1>2 DEF ApprovalInv
<1>4. TrueToPanel(confirm) => TrueToPanel(confirm)'
  BY DEF TrueToPanel, TrueToForm, AsShown
<1>5. /\ Open("confirm")' # {} => confirm'.phase = "running"
      /\ confirm.side = "app" => \A s \in Open("confirm")' : s.arg.args = confirm.approved /\ s.arg.hunks = confirm.ticked
  BY <1>2 DEF ApprovalInv
<1> QED
  BY <1>1, <1>3, <1>4, <1>5 DEF ApprovalInv

(* A step that sends no approval and changes nothing of what was approved.   *)
ApprovalOf(c) == <<c.side, c.tool, c.preview, c.phase, c.approved, c.ticked, c.seen, c.seenHunks>>

LEMMA ApprovalStays ==
    ASSUME ApprovalInv, IsPanel(confirm'), UNCHANGED ApprovalOf(confirm), NEW done, Exchange(done, <<>>)
    PROVE  ApprovalInv'
<1>1. (\A r \in net' : IsRequest(r)) /\ net' = net \ done
  BY RequestsEnd DEF ApprovalInv
<1>2. \A r \in Open("confirm")' : r \in Open("confirm")
  BY <1>1 DEF Open
<1>3. TrueToPanel(confirm) => TrueToPanel(confirm)'
  BY DEF ApprovalOf, TrueToPanel, TrueToForm, AsShown
<1> QED
  BY <1>1, <1>2, <1>3 DEF ApprovalInv, ApprovalOf

ConfirmNames ==
    {"side", "tool", "preview", "args", "shown", "hunks", "listed", "phase", "error", "approved", "ticked",
     "seen", "seenHunks"}

LEMMA ConfirmFieldsAre ==
    /\ \A c : IsPanel(c) => DOMAIN c = ConfirmNames
    /\ \A c : c = [k \in ConfirmNames |-> c[k]] => IsPanel(c)
BY DEF IsPanel, ConfirmNames

LEMMA ArgsChange ==
    ASSUME NEW c, IsPanel(c), NEW args, NEW d, d = [c EXCEPT !.args = args]
    PROVE  IsPanel(d) /\ ApprovalOf(d) = ApprovalOf(c)
<1>1. DOMAIN c = ConfirmNames
  BY ConfirmFieldsAre
<1>2. d = [k \in ConfirmNames |-> d[k]]
  BY <1>1
<1> QED
  BY <1>1, <1>2, ConfirmFieldsAre DEF ApprovalOf, ConfirmNames

LEMMA HunksChange ==
    ASSUME NEW c, IsPanel(c), NEW hunks, NEW d, d = [c EXCEPT !.hunks = hunks]
    PROVE  IsPanel(d) /\ ApprovalOf(d) = ApprovalOf(c)
<1>1. DOMAIN c = ConfirmNames
  BY ConfirmFieldsAre
<1>2. d = [k \in ConfirmNames |-> d[k]]
  BY <1>1
<1> QED
  BY <1>1, <1>2, ConfirmFieldsAre DEF ApprovalOf, ConfirmNames

LEMMA ListedChange ==
    ASSUME NEW c, IsPanel(c), NEW listed, NEW shown, NEW d, d = [c EXCEPT !.listed = listed, !.shown = shown]
    PROVE  IsPanel(d) /\ ApprovalOf(d) = ApprovalOf(c)
<1>1. DOMAIN c = ConfirmNames
  BY ConfirmFieldsAre
<1>2. d = [k \in ConfirmNames |-> d[k]]
  BY <1>1
<1> QED
  BY <1>1, <1>2, ConfirmFieldsAre DEF ApprovalOf, ConfirmNames

LEMMA ErrorChange ==
    ASSUME NEW c, IsPanel(c), NEW error, NEW d, d = [c EXCEPT !.error = error]
    PROVE  IsPanel(d) /\ ApprovalOf(d) = ApprovalOf(c)
<1>1. DOMAIN c = ConfirmNames
  BY ConfirmFieldsAre
<1>2. d = [k \in ConfirmNames |-> d[k]]
  BY <1>1
<1> QED
  BY <1>1, <1>2, ConfirmFieldsAre DEF ApprovalOf, ConfirmNames

LEMMA PhaseChange ==
    ASSUME NEW c, IsPanel(c), NEW phase, NEW d, d = [c EXCEPT !.phase = phase]
    PROVE  /\ IsPanel(d) /\ d.phase = phase /\ d.side = c.side /\ d.tool = c.tool /\ d.preview = c.preview
           /\ d.approved = c.approved /\ d.ticked = c.ticked /\ d.seen = c.seen /\ d.seenHunks = c.seenHunks
<1>1. DOMAIN c = ConfirmNames
  BY ConfirmFieldsAre
<1>2. d = [k \in ConfirmNames |-> d[k]]
  BY <1>1
<1> QED
  BY <1>1, <1>2, ConfirmFieldsAre DEF ConfirmNames

LEMMA PanelIsSynced ==
    ASSUME NEW c, IsPanel(c)
    PROVE  IsPanel(Synced(c)) /\ ApprovalOf(Synced(c)) = ApprovalOf(c)
<1>1. Synced(c) = c \/ \E args : Synced(c) = [c EXCEPT !.args = args]
  <2>1. CASE c.tool = "create_share"
    BY <2>1 DEF Synced
  <2>2. CASE c.tool = "create_calendar_event"
    BY <2>2 DEF Synced
  <2>3. CASE c.tool \notin {"create_share", "create_calendar_event"}
    BY <2>3 DEF Synced
  <2> QED
    BY <2>1, <2>2, <2>3
<1> QED
  BY <1>1, ArgsChange

LEMMA PanelIsOpened ==
    ASSUME NEW side, NEW tool, NEW preview, NEW args
    PROVE  LET c == OpenedPanel(side, tool, preview, args)
           IN  IsPanel(c) /\ c.tool = tool /\ c.phase = "open"
<1> DEFINE c == InitialPanel(side, tool, preview, args)
<1>1. IsPanel(c) /\ c.tool = tool /\ c.phase = "open"
  BY DEF InitialPanel, IsPanel
<1> HIDE DEF c
<1> QED
  BY <1>1, PanelIsSynced DEF OpenedPanel, c, ApprovalOf

(* Every step of the page keeps the invariant. *)
LEMMA ApprovalSteps ==
    ASSUME ApprovalInv, NextPanel
    PROVE  ApprovalInv'
<1>0. IsPanel(confirm) /\ \A r \in net : IsRequest(r)
  BY DEF ApprovalInv
<1>1. CASE ServePanel
  <2>1. PICK r \in net : Answered(r, r.arg)
    BY <1>1 DEF ServePanel
  <2> DEFINE q == [r EXCEPT !.state = "answered", !.got = r.arg]
  <2>2. IsRequest(q) /\ q.op = r.op /\ q.arg = r.arg
    <3>1. DOMAIN r = RequestNames
      BY <1>0, RequestFieldsAre
    <3>2. q = [k \in RequestNames |-> q[k]] /\ q.op = r.op /\ q.arg = r.arg
      BY <3>1 DEF RequestNames
    <3> QED
      BY <3>2, RequestFieldsAre
  <2>3. net' = (net \ {r}) \cup {q} /\ UNCHANGED confirm
    BY <1>1, <2>1 DEF Answered, ServePanel
  <2> HIDE DEF q
  <2> QED
    BY <2>2, <2>3, ApprovalMoves
<1>2. CASE EditField
  <2>0. PICK k \in Visible(confirm) : \E v \in EditChoices(confirm, k) \ {confirm.shown[k]} :
          LET c == [confirm EXCEPT !.shown[k] = v]
          IN  confirm' = IF c.side = "app" THEN [c EXCEPT !.args = Above([n \in {k} |-> v], @)]
                         ELSE IF c.tool = "create_share" THEN Synced(c) ELSE c
    BY <1>2 DEF EditField
  <2>1. PICK v :
          LET c == [confirm EXCEPT !.shown[k] = v]
          IN  confirm' = IF c.side = "app" THEN [c EXCEPT !.args = Above([n \in {k} |-> v], @)]
                         ELSE IF c.tool = "create_share" THEN Synced(c) ELSE c
    BY <2>0
  <2> DEFINE c == [confirm EXCEPT !.shown[k] = v]
  <2>2. IsPanel(c) /\ ApprovalOf(c) = ApprovalOf(confirm)
    <3>1. DOMAIN confirm = ConfirmNames
      BY <1>0, ConfirmFieldsAre
    <3>2. c = [n \in ConfirmNames |-> c[n]] /\ ApprovalOf(c) = ApprovalOf(confirm)
      BY <3>1 DEF ConfirmNames, ApprovalOf
    <3> QED
      BY <3>2, ConfirmFieldsAre
  <2>3. \/ \E args : confirm' = [c EXCEPT !.args = args]
        \/ confirm' = Synced(c)
        \/ confirm' = c
    <3>1. confirm' = IF c.side = "app" THEN [c EXCEPT !.args = Above([n \in {k} |-> v], @)]
                     ELSE IF c.tool = "create_share" THEN Synced(c) ELSE c
      BY <2>1
    <3> HIDE DEF c
    <3> QED
      BY <3>1
  <2> HIDE DEF c
  <2>4. IsPanel(confirm') /\ ApprovalOf(confirm)' = ApprovalOf(confirm)
    BY <2>2, <2>3, ArgsChange, PanelIsSynced
  <2>5. Exchange({}, <<>>)
    BY <1>2 DEF EditField, Click
  <2> QED
    BY <2>4, <2>5, ApprovalStays
<1>3. CASE TickHunk
  <2>1. \E hunks : confirm' = [confirm EXCEPT !.hunks = hunks]
    BY <1>3 DEF TickHunk
  <2>2. IsPanel(confirm') /\ ApprovalOf(confirm)' = ApprovalOf(confirm)
    BY <1>0, <2>1, HunksChange
  <2>3. Exchange({}, <<>>)
    BY <1>3 DEF TickHunk, Click
  <2> QED
    BY <2>2, <2>3, ApprovalStays
<1>4. CASE CalendarsBack
  <2>1. PICK r \in Back("calendars"), json \in BOOLEAN :
          LET calendars == IF r.state = "failed" THEN <<>> ELSE Calendars
              wish == Given(confirm.args, "calendar")
              first == IF calendars = <<>> THEN "" ELSE Head(calendars)
              c == [confirm EXCEPT !.listed = Range(calendars),
                       !.shown["calendar"] = IF wish = "" THEN first ELSE IF wish \in Range(calendars) THEN wish ELSE ""]
          IN  /\ confirm' = IF r.state = "failed" /\ ~json THEN confirm
                            ELSE IF c.side = "app" THEN [c EXCEPT !.args = Above([calendar |-> c.shown["calendar"]], @)]
                            ELSE c
              /\ React({r}, <<>>)
    BY <1>4 DEF CalendarsBack
  <2> DEFINE calendars == IF r.state = "failed" THEN <<>> ELSE Calendars
             wish == Given(confirm.args, "calendar")
             first == IF calendars = <<>> THEN "" ELSE Head(calendars)
             v == IF wish = "" THEN first ELSE IF wish \in Range(calendars) THEN wish ELSE ""
             shown == [confirm.shown EXCEPT !["calendar"] = v]
             listed == Range(calendars)
             c == [confirm EXCEPT !.listed = listed, !.shown = shown]
  <2>a. confirm' = IF r.state = "failed" /\ ~json THEN confirm
                   ELSE IF c.side = "app" THEN [c EXCEPT !.args = Above([calendar |-> c.shown["calendar"]], @)]
                   ELSE c
    BY <2>1
  <2>2. \/ confirm' = confirm
        \/ \E args : confirm' = [c EXCEPT !.args = args]
        \/ confirm' = c
    <3> DEFINE args == Above([calendar |-> c.shown["calendar"]], c.args)
    <3> HIDE DEF c
    <3>1. confirm' = IF r.state = "failed" /\ ~json THEN confirm
                     ELSE IF c.side = "app" THEN [c EXCEPT !.args = args] ELSE c
      BY <2>a
    <3> HIDE DEF args
    <3> QED
      BY <3>1
  <2> HIDE DEF calendars, wish, first, v, shown, listed
  <2>c. c = [confirm EXCEPT !.listed = listed, !.shown = shown]
    OBVIOUS
  <2> HIDE DEF c
  <2>3. IsPanel(c) /\ ApprovalOf(c) = ApprovalOf(confirm)
    BY <1>0, <2>c, ListedChange
  <2>4. IsPanel(confirm') /\ ApprovalOf(confirm)' = ApprovalOf(confirm)
    BY <1>0, <2>2, <2>3, ArgsChange
  <2>5. Exchange({r}, <<>>)
    BY <2>1 DEF React
  <2> QED
    BY <2>4, <2>5, ApprovalStays
<1>5. CASE Approve
  <2> DEFINE c == IF confirm.side = "app" \/ Missing(confirm) # {} THEN confirm ELSE Synced(confirm)
  <2>1. /\ confirm.phase = "open"
        /\ confirm' = IF Missing(c) # {} THEN [c EXCEPT !.error = c.side = "app"]
                      ELSE [c EXCEPT !.error = FALSE, !.phase = "waiting", !.approved = Collected(c), !.ticked = c.hunks,
                                     !.seen = Restrict(c.shown, Visible(c)), !.seenHunks = c.hunks]
        /\ Exchange({}, <<>>)
    BY <1>5 DEF Approve, Click
  <2>2. IsPanel(c) /\ ApprovalOf(c) = ApprovalOf(confirm) /\ (confirm.side = "app" => c = confirm)
    BY <1>0, PanelIsSynced
  <2>3. c.side = confirm.side /\ c.tool = confirm.tool
    BY <2>2 DEF ApprovalOf
  <2> HIDE DEF c
  <2>4. CASE Missing(c) # {}
    <3>1. \E error : confirm' = [c EXCEPT !.error = error]
      BY <2>1, <2>4
    <3>2. IsPanel(confirm') /\ ApprovalOf(confirm)' = ApprovalOf(confirm)
      BY <2>2, <3>1, ErrorChange
    <3> QED
      BY <2>1, <3>2, ApprovalStays
  <2>5. CASE Missing(c) = {}
    <3> DEFINE args == Collected(c)
               seen == Restrict(c.shown, Visible(c))
    <3>1. confirm' = [c EXCEPT !.error = FALSE, !.phase = "waiting", !.approved = args, !.ticked = c.hunks,
                               !.seen = seen, !.seenHunks = c.hunks]
      BY <2>1, <2>5
    <3> HIDE DEF args, seen
    <3>2. /\ IsPanel(confirm') /\ confirm'.side = c.side /\ confirm'.tool = c.tool /\ confirm'.preview = c.preview
          /\ confirm'.phase = "waiting" /\ confirm'.approved = args /\ confirm'.ticked = c.hunks
          /\ confirm'.seen = seen /\ confirm'.seenHunks = c.hunks
      BY <2>2, <3>1 DEF IsPanel
    <3>3. confirm'.side = "app" => TrueToPanel(confirm)'
      <4>1. c.side = "app" /\ ~c.preview => TrueToForm(confirm', args)
        BY <2>3, <2>5, <3>2, FormIsCollected DEF args, seen, ApprovalInv
      <4> QED
        BY <3>2, <4>1 DEF TrueToPanel, TrueToForm
    <3>4. Open("confirm") = {} /\ net' = net /\ \A r \in net' : IsRequest(r)
      BY <1>0, <2>1, RequestsEnd DEF ApprovalInv
    <3>5. Open("confirm")' = {}
      BY <3>4 DEF Open
    <3> QED
      BY <2>3, <3>2, <3>3, <3>4, <3>5 DEF ApprovalInv
  <2> QED
    BY <2>4, <2>5
<1>6. CASE PlaceholderStored
  <2>0. confirm.phase = "waiting" /\ Open("confirm") = {} /\ (confirm.side = "app" => TrueToPanel(confirm))
    BY <1>6 DEF PlaceholderStored, ApprovalInv
  <2>1. CASE confirm' = [confirm EXCEPT !.phase = "blocked", !.error = TRUE] /\ React(Open("placeholder"), <<>>)
    <3>1. /\ IsPanel(confirm') /\ confirm'.phase = "blocked" /\ confirm'.side = confirm.side /\ confirm'.tool = confirm.tool
      <4>1. confirm' = [confirm EXCEPT !.phase = "blocked", !.error = TRUE] /\ DOMAIN confirm = ConfirmNames
        BY <1>0, <2>1, ConfirmFieldsAre
      <4> QED
        BY <4>1, ConfirmFieldsAre DEF ConfirmNames
    <3>2. (\A r \in net' : IsRequest(r)) /\ net' \subseteq net
      BY <1>0, <2>1, RequestsEnd DEF React
    <3>3. Open("confirm")' = {}
      BY <2>0, <3>2 DEF Open
    <3> QED
      BY <3>1, <3>2, <3>3 DEF ApprovalInv
  <2>2. CASE /\ confirm' = [confirm EXCEPT !.phase = "running"]
             /\ React(Open("placeholder"), <<Ask("confirm", FALSE, Approval(confirm))>>)
    <3>1. /\ IsPanel(confirm') /\ confirm'.phase = "running" /\ confirm'.side = confirm.side /\ confirm'.tool = confirm.tool
          /\ confirm'.preview = confirm.preview /\ confirm'.approved = confirm.approved /\ confirm'.ticked = confirm.ticked
          /\ confirm'.seen = confirm.seen /\ confirm'.seenHunks = confirm.seenHunks
      BY <1>0, <2>2, PhaseChange
    <3>2. Exchange(Open("placeholder"), <<Ask("confirm", FALSE, Approval(confirm))>>)
      BY <2>2 DEF React
    <3>3. PICK q : net' = (net \ Open("placeholder")) \cup {q} /\ IsRequest(q) /\ q.op = "confirm" /\ q.arg = Approval(confirm)
        <4> DEFINE a == Ask("confirm", FALSE, Approval(confirm))
      <4>1. a.op = "confirm" /\ a.arg = Approval(confirm)
        BY DEF Ask
      <4>2. Exchange(Open("placeholder"), <<a>>)
        BY <3>2
      <4> HIDE DEF a
      <4> QED
        BY <4>1, <4>2, RequestIsSent
    <3>4. Open("confirm")' = {q} /\ \A r \in net' : IsRequest(r)
      BY <1>0, <2>0, <3>3 DEF Open
    <3>5. confirm.side = "app" => q.arg.args = confirm.approved /\ q.arg.hunks = confirm.ticked
      BY <3>3 DEF Approval
    <3>6. TrueToPanel(confirm) => TrueToPanel(confirm)'
      BY <3>1 DEF TrueToPanel, TrueToForm, AsShown
    <3> QED
      BY <2>0, <3>1, <3>4, <3>5, <3>6 DEF ApprovalInv
  <2> QED
    BY <1>6, <2>1, <2>2 DEF PlaceholderStored
<1>7. CASE ConfirmBack
  <2>1. PICK r \in Back("confirm") :
          /\ confirm' = IF confirm.side = "app" /\ r.state = "failed"
                        THEN [confirm EXCEPT !.phase = "open", !.error = TRUE]
                        ELSE [confirm EXCEPT !.phase = "done"]
          /\ React({r}, <<>>)
    BY <1>7 DEF ConfirmBack
  <2>2. /\ IsPanel(confirm') /\ confirm'.phase \in {"open", "done"} /\ confirm'.side = confirm.side /\ confirm'.tool = confirm.tool
    <3>1. CASE confirm' = [confirm EXCEPT !.phase = "open", !.error = TRUE]
      <4>1. DOMAIN confirm = ConfirmNames
        BY <1>0, ConfirmFieldsAre
      <4> QED
        BY <3>1, <4>1, ConfirmFieldsAre DEF ConfirmNames
    <3>2. CASE confirm' = [confirm EXCEPT !.phase = "done"]
      BY <1>0, <3>2, PhaseChange
    <3> QED
      BY <2>1, <3>1, <3>2
  <2>3. (\A s \in net' : IsRequest(s)) /\ net' = net \ {r}
    BY <1>0, <2>1, RequestsEnd DEF React
  <2>4. Open("confirm") \subseteq {r}
    BY <2>1 DEF ApprovalInv, Back
  <2>5. Open("confirm")' = {}
    BY <2>3, <2>4 DEF Open
  <2> QED
    BY <2>2, <2>3, <2>5 DEF ApprovalInv
<1>8. CASE Cancel
  <2>1. /\ confirm.phase \in {"open", "blocked"} /\ confirm' = [confirm EXCEPT !.phase = "done"]
        /\ Exchange({}, <<>>)
    BY <1>8 DEF Cancel, Click
  <2>2. IsPanel(confirm') /\ confirm'.phase = "done" /\ confirm'.side = confirm.side /\ confirm'.tool = confirm.tool
    <3>1. confirm' = [confirm EXCEPT !.phase = "done"]
      BY <2>1
    <3> QED
      BY <1>0, <3>1, PhaseChange
  <2>3. (\A s \in net' : IsRequest(s)) /\ net' = net
    <3>1. Exchange({}, <<>>)
      BY <2>1
    <3>2. (\A s \in net' : IsRequest(s)) /\ net' = net \ {}
      BY <1>0, <3>1, RequestsEnd
    <3> QED
      BY <3>2
  <2>4. Open("confirm")' = {}
    BY <2>1, <2>3 DEF Open, ApprovalInv
  <2> QED
    BY <2>2, <2>3, <2>4 DEF ApprovalInv
<1> QED
  BY <1>1, <1>2, <1>3, <1>4, <1>5, <1>6, <1>7, <1>8 DEF NextPanel

LEMMA ApprovalAttemptFails ==
    ASSUME ApprovalInv, FailAttempt, UNCHANGED confirmVars
    PROVE  ApprovalInv'
<1>1. PICK r \in net, passing \in BOOLEAN :
        net' = (net \ {r}) \cup
                 {IF Retries(r, passing) THEN [r EXCEPT !.tries = @ + 1, !.state = "sent", !.got = r.arg]
                                         ELSE [r EXCEPT !.state = "failed", !.got = r.arg]}
  BY DEF FailAttempt
<1>2. IsRequest(r) /\ UNCHANGED confirm
  BY DEF ApprovalInv, confirmVars
<1>5. DOMAIN r = RequestNames
  BY <1>2, RequestFieldsAre
<1>3. CASE Retries(r, passing)
  <2> DEFINE q == [r EXCEPT !.tries = r.tries + 1, !.state = "sent", !.got = r.arg]
  <2>1. IsRequest(q) /\ q.op = r.op /\ q.arg = r.arg
    <3>1. q = [k \in RequestNames |-> q[k]] /\ q.op = r.op /\ q.arg = r.arg
      BY <1>5 DEF RequestNames
    <3> QED
      BY <3>1, RequestFieldsAre
  <2>2. net' = (net \ {r}) \cup {q}
    BY <1>1, <1>3
  <2> HIDE DEF q
  <2> QED
    BY <1>2, <2>1, <2>2, ApprovalMoves
<1>4. CASE ~Retries(r, passing)
  <2> DEFINE q == [r EXCEPT !.state = "failed", !.got = r.arg]
  <2>1. IsRequest(q) /\ q.op = r.op /\ q.arg = r.arg
    <3>1. q = [k \in RequestNames |-> q[k]] /\ q.op = r.op /\ q.arg = r.arg
      BY <1>5 DEF RequestNames
    <3> QED
      BY <3>1, RequestFieldsAre
  <2>2. net' = (net \ {r}) \cup {q}
    BY <1>1, <1>4
  <2> HIDE DEF q
  <2> QED
    BY <1>2, <2>1, <2>2, ApprovalMoves
<1> QED
  BY <1>3, <1>4

LEMMA ApprovalStarts ==
    ASSUME InitPanel
    PROVE  ApprovalInv
<1>1. PICK side \in {"app", "standalone"}, tool \in Tools, preview \in BOOLEAN, restored \in BOOLEAN :
        \E args :
          /\ confirm = OpenedPanel(side, tool, preview, args)
          /\ LET asks == (IF "calendar" \in DOMAIN confirm.shown THEN <<Ask("calendars", FALSE, NoApproval)>> ELSE <<>>)
                         \o (IF restored THEN <<>> ELSE <<Ask("placeholder", FALSE, NoApproval)>>)
             IN  net = Sent(asks, [i \in DOMAIN asks |-> i])
  BY DEF InitPanel
<1> DEFINE first == IF "calendar" \in DOMAIN confirm.shown THEN <<Ask("calendars", FALSE, NoApproval)>> ELSE <<>>
           second == IF restored THEN <<>> ELSE <<Ask("placeholder", FALSE, NoApproval)>>
           asks == first \o second
           ids == [i \in DOMAIN asks |-> i]
           Begun(i) == [op |-> asks[i].op, get |-> asks[i].get, arg |-> asks[i].arg, id |-> ids[i],
                      tries |-> 0, state |-> "sent", got |-> asks[i].arg]
<1>2. IsPanel(confirm) /\ confirm.tool \in Tools /\ confirm.phase = "open"
  BY <1>1, PanelIsOpened
<1>3. net = {Begun(i) : i \in DOMAIN asks}
  BY <1>1 DEF Sent
<1>4. \A i \in DOMAIN asks : asks[i].op \in {"calendars", "placeholder"}
  <2> DEFINE A == {Ask("calendars", FALSE, NoApproval), Ask("placeholder", FALSE, NoApproval)}
  <2>1. \A a \in A : a.op \in {"calendars", "placeholder"}
    BY DEF Ask
  <2>2. Ask("calendars", FALSE, NoApproval) \in A /\ Ask("placeholder", FALSE, NoApproval) \in A
    OBVIOUS
  <2> HIDE DEF A
  <2>3. first \in Seq(A) /\ second \in Seq(A)
    <3>1. <<>> \in Seq(A) /\ \A a \in A : <<a>> \in Seq(A)
      OBVIOUS
    <3> QED
      BY <2>2, <3>1
  <2> HIDE DEF first, second
  <2>4. asks \in Seq(A)
    BY <2>3
  <2> QED
    BY <2>1, <2>4
<1> HIDE DEF asks, ids
<1>5. \A i : IsRequest(Begun(i)) /\ Begun(i).op = asks[i].op
  BY DEF IsRequest
<1> HIDE DEF Begun
<1>6. (\A r \in net : IsRequest(r)) /\ \A r \in net : r.op # "confirm"
  BY <1>3, <1>4, <1>5
<1>7. Open("confirm") = {}
  BY <1>6 DEF Open
<1> QED
  BY <1>2, <1>6, <1>7 DEF ApprovalInv

(* What the properties say of the page. *)
LEMMA ApprovalPromises ==
    ASSUME ApprovalInv, confirm.side = "app", NEW r \in Open("confirm")
    PROVE  /\ r.arg.hunks = confirm.seenHunks
           /\ ~confirm.preview => TrueToForm(confirm, r.arg.args)
BY DEF ApprovalInv, TrueToPanel

-----------------------------------------------------------------------------
(* No step of a page changes the task of the behaviour. *)

LEMMA AskingKeepsTask ==
    /\ \A act, asks : Click(act, asks) => task' = task
    /\ \A done, asks : React(done, asks) => task' = task
    /\ UNCHANGED requestVars => task' = task
BY DEF Click, React, requestVars

LEMMA AdminKeepsTask ==
    ASSUME NextAdmin
    PROVE  task' = task
<1>a. /\ \A act, p, asks : AdminDoes(act, p, asks) => task' = task
      /\ \A p, r : AdminTurns(p, r) => task' = task
  BY AskingKeepsTask DEF AdminDoes, AdminTurns
<1>1. ServeAdmin => task' = task
  BY AskingKeepsTask, <1>a DEF ServeAdmin
<1>2. TypeAdmin => task' = task
  BY AskingKeepsTask, <1>a DEF TypeAdmin
<1>3. SaveSection => task' = task
  BY AskingKeepsTask, <1>a DEF SaveSection
<1>4. SectionSaved => task' = task
  BY AskingKeepsTask, <1>a DEF SectionSaved
<1>5. TypeQuery => task' = task
  BY AskingKeepsTask, <1>a DEF TypeQuery
<1>6. RunTest => task' = task
  BY AskingKeepsTask, <1>a DEF RunTest
<1>7. TestBack => task' = task
  BY AskingKeepsTask, <1>a DEF TestBack
<1>8. StopBackground => task' = task
  BY AskingKeepsTask, <1>a DEF StopBackground
<1>9. StopAnswer => task' = task
  BY AskingKeepsTask, <1>a DEF StopAnswer
<1>10. ReloadAdmin => task' = task
  BY AskingKeepsTask, <1>a DEF ReloadAdmin
<1>11. ToggleTools => task' = task
  BY AskingKeepsTask, <1>a DEF ToggleTools
<1>12. ToolsLoaded => task' = task
  BY AskingKeepsTask, <1>a DEF ToolsLoaded
<1> QED
  BY <1>1, <1>2, <1>3, <1>4, <1>5, <1>6, <1>7, <1>8, <1>9, <1>10, <1>11, <1>12 DEF NextAdmin

LEMMA MetricsKeepsTask ==
    ASSUME NextMetrics
    PROVE  task' = task
<1>a. \A act, p, asks : MetricsClick(act, p, asks) => task' = task
  BY AskingKeepsTask DEF MetricsClick
<1>1. ServeMetrics => task' = task
  BY AskingKeepsTask, <1>a DEF ServeMetrics
<1>2. ChoosePeriod => task' = task
  BY AskingKeepsTask, <1>a DEF ChoosePeriod
<1>3. ChooseUser => task' = task
  BY AskingKeepsTask, <1>a DEF ChooseUser
<1>4. RefreshMetrics => task' = task
  BY AskingKeepsTask, <1>a DEF RefreshMetrics
<1>5. UserListBack => task' = task
  BY AskingKeepsTask, <1>a DEF UserListBack
<1>6. UsageBack => task' = task
  BY AskingKeepsTask, <1>a DEF UsageBack
<1>7. EditPrice => task' = task
  BY AskingKeepsTask, <1>a DEF EditPrice
<1>8. SavePricing => task' = task
  BY AskingKeepsTask, <1>a DEF SavePricing
<1>9. PricingSaved => task' = task
  BY AskingKeepsTask, <1>a DEF PricingSaved
<1>10. DownloadCsv => task' = task
  BY AskingKeepsTask, <1>a DEF DownloadCsv
<1> QED
  BY <1>1, <1>2, <1>3, <1>4, <1>5, <1>6, <1>7, <1>8, <1>9, <1>10 DEF NextMetrics

LEMMA NavigationKeepsTask ==
    ASSUME NextNavigation
    PROVE  task' = task
<1>1. ServeNavigation => task' = task
  BY AskingKeepsTask DEF ServeNavigation
<1>2. LoadMore => task' = task
  BY AskingKeepsTask DEF LoadMore
<1>3. TryAgain => task' = task
  BY AskingKeepsTask DEF TryAgain
<1>4. TypeFilter => task' = task
  BY AskingKeepsTask DEF TypeFilter
<1>5. NewChat => task' = task
  BY AskingKeepsTask DEF NewChat
<1>6. SelectChat => task' = task
  BY AskingKeepsTask DEF SelectChat
<1>7. Navigate => task' = task
  BY AskingKeepsTask DEF Navigate
<1>8. PopState => task' = task
  BY AskingKeepsTask DEF PopState
<1>9. ChatUpdated => task' = task
  BY AskingKeepsTask DEF ChatUpdated
<1>10. UpdateMeta => task' = task
  BY AskingKeepsTask DEF UpdateMeta
<1>11. OpenDialog => task' = task
  BY AskingKeepsTask DEF OpenDialog
<1>12. CloseDialog => task' = task
  BY AskingKeepsTask DEF CloseDialog
<1>13. ConfirmDialog => task' = task
  BY AskingKeepsTask DEF ConfirmDialog
<1>14. ClearChats => task' = task
  BY AskingKeepsTask DEF ClearChats
<1>15. ListBack => task' = task
  BY AskingKeepsTask DEF ListBack
<1>16. MoreBack => task' = task
  BY AskingKeepsTask DEF MoreBack
<1>17. SearchMessages => task' = task
  BY AskingKeepsTask DEF SearchMessages
<1>18. SearchBack => task' = task
  BY AskingKeepsTask DEF SearchBack
<1>19. CreateBack => task' = task
  BY AskingKeepsTask DEF CreateBack
<1>20. ChangeBack => task' = task
  BY AskingKeepsTask DEF ChangeBack
<1>21. PaneReady => task' = task
  BY AskingKeepsTask DEF PaneReady
<1> QED
  BY <1>1, <1>2, <1>3, <1>4, <1>5, <1>6, <1>7, <1>8, <1>9, <1>10, <1>11, <1>12, <1>13, <1>14, <1>15, <1>16, <1>17, <1>18, <1>19, <1>20, <1>21 DEF NextNavigation, UserNavigates, ShellReacts

LEMMA DocumentsKeepsTask ==
    ASSUME NextDocuments
    PROVE  task' = task
<1>a. \A p, done : GoesOn(p, done) => task' = task
  BY AskingKeepsTask DEF GoesOn
<1>1. ServeDocuments => task' = task
  BY AskingKeepsTask, <1>a DEF ServeDocuments
<1>2. IndexingEnds => task' = task
  BY AskingKeepsTask, <1>a DEF IndexingEnds
<1>3. Load => task' = task
  BY AskingKeepsTask, <1>a DEF Load
<1>4. LoadMoreDocuments => task' = task
  BY AskingKeepsTask, <1>a DEF LoadMoreDocuments
<1>5. TypeSearch => task' = task
  BY AskingKeepsTask, <1>a DEF TypeSearch
<1>6. DocumentsBack => task' = task
  BY AskingKeepsTask, <1>a DEF DocumentsBack
<1>7. ToggleDocument => task' = task
  BY AskingKeepsTask, <1>a DEF ToggleDocument
<1>8. RetryChunks => task' = task
  BY AskingKeepsTask, <1>a DEF RetryChunks
<1>9. LoadMoreChunks => task' = task
  BY AskingKeepsTask, <1>a DEF LoadMoreChunks
<1>10. ChunksBack => task' = task
  BY AskingKeepsTask, <1>a DEF ChunksBack
<1>11. StartIndexing => task' = task
  BY AskingKeepsTask, <1>a DEF StartIndexing
<1>12. StartBack => task' = task
  BY AskingKeepsTask, <1>a DEF StartBack
<1>13. StopIndexing => task' = task
  BY AskingKeepsTask, <1>a DEF StopIndexing
<1>14. StopBack => task' = task
  BY AskingKeepsTask, <1>a DEF StopBack
<1>15. StopTick => task' = task
  BY AskingKeepsTask, <1>a DEF StopTick
<1>16. StatusTick => task' = task
  BY AskingKeepsTask, <1>a DEF StatusTick
<1>17. StatusBack => task' = task
  BY AskingKeepsTask, <1>a DEF StatusBack
<1>18. CloseDocuments => task' = task
  BY AskingKeepsTask, <1>a DEF CloseDocuments
<1> QED
  BY <1>1, <1>2, <1>3, <1>4, <1>5, <1>6, <1>7, <1>8, <1>9, <1>10, <1>11, <1>12, <1>13, <1>14, <1>15, <1>16, <1>17, <1>18 DEF NextDocuments

LEMMA SettingsKeepsTask ==
    ASSUME NextSettings
    PROVE  task' = task
<1>a. /\ \A act, o : Clicked(act, o) => task' = task
      /\ \A o, done : Does(o, done) => task' = task
  BY AskingKeepsTask DEF Clicked, Does
<1>1. ServeSettings => task' = task
  BY AskingKeepsTask, <1>a DEF ServeSettings
<1>2. RunEnds => task' = task
  BY AskingKeepsTask, <1>a DEF RunEnds
<1>3. SaveBack => task' = task
  BY AskingKeepsTask, <1>a DEF SaveBack
<1>4. SaveSkipped => task' = task
  BY AskingKeepsTask, <1>a DEF SaveSkipped
<1>5. TypeField => task' = task
  BY AskingKeepsTask, <1>a DEF TypeField
<1>6. SaveNow => task' = task
  BY AskingKeepsTask, <1>a DEF SaveNow
<1>7. PersistBriefings => task' = task
  BY AskingKeepsTask, <1>a DEF PersistBriefings
<1>8. PersistExcludes => task' = task
  BY AskingKeepsTask, <1>a DEF PersistExcludes
<1>9. PatchProvider => task' = task
  BY AskingKeepsTask, <1>a DEF PatchProvider
<1>10. CheckOllama => task' = task
  BY AskingKeepsTask, <1>a DEF CheckOllama
<1>11. StartIndex => task' = task
  BY AskingKeepsTask, <1>a DEF StartIndex
<1>12. LongAction => task' = task
  BY AskingKeepsTask, <1>a DEF LongAction
<1>13. ActionBack => task' = task
  BY AskingKeepsTask, <1>a DEF ActionBack
<1>14. StopIndex => task' = task
  BY AskingKeepsTask, <1>a DEF StopIndex
<1>15. StopAnswered => task' = task
  BY AskingKeepsTask, <1>a DEF StopAnswered
<1>16. StopPoll => task' = task
  BY AskingKeepsTask, <1>a DEF StopPoll
<1>17. SyncStatus => task' = task
  BY AskingKeepsTask, <1>a DEF SyncStatus
<1>18. RefreshStatus => task' = task
  BY AskingKeepsTask, <1>a DEF RefreshStatus
<1>19. SettingsStatusBack => task' = task
  BY AskingKeepsTask, <1>a DEF SettingsStatusBack
<1>20. ProgressTick => task' = task
  BY AskingKeepsTask, <1>a DEF ProgressTick
<1>21. ProgressBack => task' = task
  BY AskingKeepsTask, <1>a DEF ProgressBack
<1>22. TypeUrl => task' = task
  BY AskingKeepsTask, <1>a DEF TypeUrl
<1>23. DiscoverModels => task' = task
  BY AskingKeepsTask, <1>a DEF DiscoverModels
<1>24. LoadHealth => task' = task
  BY AskingKeepsTask, <1>a DEF LoadHealth
<1>25. ProbeBack => task' = task
  BY AskingKeepsTask, <1>a DEF ProbeBack
<1>26. OpenSection => task' = task
  BY AskingKeepsTask, <1>a DEF OpenSection
<1>27. KnowledgeBack => task' = task
  BY AskingKeepsTask, <1>a DEF KnowledgeBack
<1>28. RetryKnowledge => task' = task
  BY AskingKeepsTask, <1>a DEF RetryKnowledge
<1>29. EditKnowledge => task' = task
  BY AskingKeepsTask, <1>a DEF EditKnowledge
<1>30. SaveKnowledge => task' = task
  BY AskingKeepsTask, <1>a DEF SaveKnowledge
<1>31. KnowledgeSaved => task' = task
  BY AskingKeepsTask, <1>a DEF KnowledgeSaved
<1>32. StartChain => task' = task
  BY AskingKeepsTask, <1>a DEF StartChain
<1>33. ChainBack => task' = task
  BY AskingKeepsTask, <1>a DEF ChainBack
<1>34. ListsBack => task' = task
  BY AskingKeepsTask, <1>a DEF ListsBack
<1> QED
  BY <1>1, <1>2, <1>3, <1>4, <1>5, <1>6, <1>7, <1>8, <1>9, <1>10, <1>11, <1>12, <1>13, <1>14, <1>15, <1>16, <1>17, <1>18, <1>19, <1>20, <1>21, <1>22, <1>23, <1>24, <1>25, <1>26, <1>27, <1>28, <1>29, <1>30, <1>31, <1>32, <1>33, <1>34 DEF NextSettings

LEMMA ApprovalKeepsTask ==
    ASSUME NextPanel
    PROVE  task' = task
<1>1. ServePanel => task' = task
  BY AskingKeepsTask DEF ServePanel
<1>2. EditField => task' = task
  BY AskingKeepsTask DEF EditField
<1>3. TickHunk => task' = task
  BY AskingKeepsTask DEF TickHunk
<1>4. CalendarsBack => task' = task
  BY AskingKeepsTask DEF CalendarsBack
<1>5. Approve => task' = task
  BY AskingKeepsTask DEF Approve
<1>6. PlaceholderStored => task' = task
  BY AskingKeepsTask DEF PlaceholderStored
<1>7. ConfirmBack => task' = task
  BY AskingKeepsTask DEF ConfirmBack
<1>8. Cancel => task' = task
  BY AskingKeepsTask DEF Cancel
<1> QED
  BY <1>1, <1>2, <1>3, <1>4, <1>5, <1>6, <1>7, <1>8 DEF NextPanel

LEMMA FileChatKeepsTask ==
    ASSUME NextFileChat
    PROVE  task' = task
<1>1. ServeFileChat => task' = task
  BY AskingKeepsTask DEF ServeFileChat
<1>2. ReloadFiles => task' = task
  BY AskingKeepsTask DEF ReloadFiles
<1>3. SelectFiles => task' = task
  BY AskingKeepsTask DEF SelectFiles
<1>4. FileStatusBack => task' = task
  BY AskingKeepsTask DEF FileStatusBack
<1>5. TypeFileQuestion => task' = task
  BY AskingKeepsTask DEF TypeFileQuestion
<1>6. AskFiles => task' = task
  BY AskingKeepsTask DEF AskFiles
<1>7. FileAnswerBack => task' = task
  BY AskingKeepsTask DEF FileAnswerBack
<1> QED
  BY <1>1, <1>2, <1>3, <1>4, <1>5, <1>6, <1>7 DEF NextFileChat

LEMMA RunsKeepsTask ==
    ASSUME NextRuns
    PROVE  task' = task
<1>1. ServeRuns => task' = task
  BY AskingKeepsTask DEF ServeRuns
<1>2. WorkMoves => task' = task
  BY AskingKeepsTask DEF WorkMoves
<1>3. RefreshRuns => task' = task
  BY AskingKeepsTask DEF RefreshRuns
<1>4. RunsTick => task' = task
  BY AskingKeepsTask DEF RunsTick
<1>5. MinutePasses => task' = task
  BY AskingKeepsTask DEF MinutePasses
<1>6. RunsBack => task' = task
  BY AskingKeepsTask DEF RunsBack
<1>7. Act => task' = task
  BY AskingKeepsTask DEF Act
<1>8. ActBack => task' = task
  BY AskingKeepsTask DEF ActBack
<1>9. LeaveRuns => task' = task
  BY AskingKeepsTask DEF LeaveRuns
<1> QED
  BY <1>1, <1>2, <1>3, <1>4, <1>5, <1>6, <1>7, <1>8, <1>9 DEF NextRuns

LEMMA ExportKeepsTask ==
    ASSUME NextExport
    PROVE  task' = task
<1>a. \A act, p, asks : ExportClick(act, p, asks) => task' = task
  BY AskingKeepsTask DEF ExportClick
<1>1. ServeExport => task' = task
  BY AskingKeepsTask, <1>a DEF ServeExport
<1>2. ChatsChange => task' = task
  BY AskingKeepsTask, <1>a DEF ChatsChange
<1>3. ChooseOptions => task' = task
  BY AskingKeepsTask, <1>a DEF ChooseOptions
<1>4. ToggleSelection => task' = task
  BY AskingKeepsTask, <1>a DEF ToggleSelection
<1>5. TickMessage => task' = task
  BY AskingKeepsTask, <1>a DEF TickMessage
<1>6. ChatGoesOn => task' = task
  BY AskingKeepsTask, <1>a DEF ChatGoesOn
<1>7. OpenChat => task' = task
  BY AskingKeepsTask, <1>a DEF OpenChat
<1>8. ExportChat => task' = task
  BY AskingKeepsTask, <1>a DEF ExportChat
<1>9. ExportAllChats => task' = task
  BY AskingKeepsTask, <1>a DEF ExportAllChats
<1>10. ExportListBack => task' = task
  BY AskingKeepsTask, <1>a DEF ExportListBack
<1>11. ChatFetched => task' = task
  BY AskingKeepsTask, <1>a DEF ChatFetched
<1> QED
  BY <1>1, <1>2, <1>3, <1>4, <1>5, <1>6, <1>7, <1>8, <1>9, <1>10, <1>11 DEF NextExport

LEMMA TemplatesKeepsTask ==
    ASSUME NextTemplates
    PROVE  task' = task
<1>1. ServeTemplates => task' = task
  BY AskingKeepsTask DEF ServeTemplates
<1>2. ToggleTemplates => task' = task
  BY AskingKeepsTask DEF ToggleTemplates
<1>3. SearchTemplates => task' = task
  BY AskingKeepsTask DEF SearchTemplates
<1>4. TemplatesBack => task' = task
  BY AskingKeepsTask DEF TemplatesBack
<1>5. SaveTemplate => task' = task
  BY AskingKeepsTask DEF SaveTemplate
<1>6. ImportTemplates => task' = task
  BY AskingKeepsTask DEF ImportTemplates
<1>7. EditTemplate => task' = task
  BY AskingKeepsTask DEF EditTemplate
<1>8. RemoveTemplate => task' = task
  BY AskingKeepsTask DEF RemoveTemplate
<1>9. WriteBack => task' = task
  BY AskingKeepsTask DEF WriteBack
<1>10. UseTemplate => task' = task
  BY AskingKeepsTask DEF UseTemplate
<1>11. UseBack => task' = task
  BY AskingKeepsTask DEF UseBack
<1>12. PersonaBack => task' = task
  BY AskingKeepsTask DEF PersonaBack
<1>13. TypeText => task' = task
  BY AskingKeepsTask DEF TypeText
<1>14. SendQuestion => task' = task
  BY AskingKeepsTask DEF SendQuestion
<1>15. ChatMade => task' = task
  BY AskingKeepsTask DEF ChatMade
<1>16. PendingBack => task' = task
  BY AskingKeepsTask DEF PendingBack
<1> QED
  BY <1>1, <1>2, <1>3, <1>4, <1>5, <1>6, <1>7, <1>8, <1>9, <1>10, <1>11, <1>12, <1>13, <1>14, <1>15, <1>16 DEF NextTemplates

LEMMA PromptsKeepsTask ==
    ASSUME NextPrompts
    PROVE  task' = task
<1>a. \A act, tab, pane, new : PaneDoes(act, tab, pane, new) => task' = task
  BY AskingKeepsTask DEF PaneDoes
<1>1. TypePrompt => task' = task
  BY AskingKeepsTask, <1>a DEF TypePrompt
<1>2. RecordPrompt => task' = task
  BY AskingKeepsTask, <1>a DEF RecordPrompt
<1>3. OpenPrompts => task' = task
  BY AskingKeepsTask, <1>a DEF OpenPrompts
<1>4. SearchPrompts => task' = task
  BY AskingKeepsTask, <1>a DEF SearchPrompts
<1>5. ReusePrompt => task' = task
  BY AskingKeepsTask, <1>a DEF ReusePrompt
<1>6. MarkPrompt => task' = task
  BY AskingKeepsTask, <1>a DEF MarkPrompt
<1> QED
  BY <1>1, <1>2, <1>3, <1>4, <1>5, <1>6 DEF NextPrompts

-----------------------------------------------------------------------------
(* All pages. *)

(* A step is one of the page of the task, which leaves the other pages       *)
(* alone, or an attempt that fails.                                          *)
LEMMA OnePageMoves ==
    ASSUME Next
    PROVE  /\ task' = task
           /\ \/ task.view = "chats" /\ NextNavigation
              \/ FailAttempt /\ UNCHANGED navVars
              \/ task.view # "chats" /\ UNCHANGED navVars
           /\ \/ task.view = "panels" /\ NextPanels
              \/ FailAttempt /\ UNCHANGED panelVars
              \/ task.view # "panels" /\ UNCHANGED panelVars
           /\ \/ task.view = "admin" /\ NextAdmin
              \/ FailAttempt /\ UNCHANGED adminVars
              \/ task.view # "admin" /\ UNCHANGED adminVars
           /\ \/ task.view = "metrics" /\ NextMetrics
              \/ FailAttempt /\ UNCHANGED metricsVars
              \/ task.view # "metrics" /\ UNCHANGED metricsVars
           /\ \/ task.view = "filechat" /\ NextFileChat
              \/ FailAttempt /\ UNCHANGED fileChatVars
              \/ task.view # "filechat" /\ UNCHANGED fileChatVars
           /\ \/ task.view = "export" /\ NextExport
              \/ FailAttempt /\ UNCHANGED exportVars
              \/ task.view # "export" /\ UNCHANGED exportVars
           /\ \/ task.view = "prompts" /\ NextPrompts
              \/ FailAttempt /\ UNCHANGED promptVars
              \/ task.view # "prompts" /\ UNCHANGED promptVars
<1>1. CASE /\ task.view = "chats" /\ NextNavigation
           /\ UNCHANGED <<panelVars, adminVars, metricsVars, fileChatVars, exportVars, promptVars>>
  BY <1>1, NavigationKeepsTask
<1>2. CASE /\ task.view = "panels" /\ NextPanels
           /\ UNCHANGED <<navVars, adminVars, metricsVars, fileChatVars, exportVars, promptVars>>
  BY <1>2, PanelsKeepTask
<1>3. CASE /\ task.view = "admin" /\ NextAdmin
           /\ UNCHANGED <<navVars, panelVars, metricsVars, fileChatVars, exportVars, promptVars>>
  BY <1>3, AdminKeepsTask
<1>4. CASE /\ task.view = "metrics" /\ NextMetrics
           /\ UNCHANGED <<navVars, panelVars, adminVars, fileChatVars, exportVars, promptVars>>
  BY <1>4, MetricsKeepsTask
<1>5. CASE /\ task.view = "filechat" /\ NextFileChat
           /\ UNCHANGED <<navVars, panelVars, adminVars, metricsVars, exportVars, promptVars>>
  BY <1>5, FileChatKeepsTask
<1>6. CASE /\ task.view = "export" /\ NextExport
           /\ UNCHANGED <<navVars, panelVars, adminVars, metricsVars, fileChatVars, promptVars>>
  BY <1>6, ExportKeepsTask
<1>7. CASE /\ task.view = "prompts" /\ NextPrompts
           /\ UNCHANGED <<navVars, panelVars, adminVars, metricsVars, fileChatVars, exportVars>>
  BY <1>7, PromptsKeepsTask
<1>8. CASE /\ \/ task.view = "documents" /\ NextDocuments
              \/ task.view = "settings" /\ NextSettings
              \/ task.view = "approval" /\ NextPanel
              \/ task.view = "runs" /\ NextRuns
              \/ task.view = "templates" /\ NextTemplates
           /\ UNCHANGED <<navVars, panelVars, adminVars, metricsVars, fileChatVars, exportVars, promptVars>>
  BY <1>8, DocumentsKeepsTask, SettingsKeepsTask, ApprovalKeepsTask, RunsKeepsTask, TemplatesKeepsTask
<1>9. CASE /\ FailAttempt
           /\ UNCHANGED <<navVars, panelVars, adminVars, metricsVars, fileChatVars, exportVars, promptVars>>
  BY <1>9 DEF FailAttempt
<1> QED
  BY <1>1, <1>2, <1>3, <1>4, <1>5, <1>6, <1>7, <1>8, <1>9 DEF Next, pageVars

LEMMA OtherPageMoves ==
    ASSUME Next
    PROVE  /\ \/ task.view = "documents" /\ NextDocuments
              \/ FailAttempt /\ UNCHANGED documentVars
              \/ task.view # "documents" /\ UNCHANGED documentVars
           /\ \/ task.view = "settings" /\ NextSettings
              \/ FailAttempt /\ UNCHANGED settingsVars
              \/ task.view # "settings" /\ UNCHANGED settingsVars
           /\ \/ task.view = "runs" /\ NextRuns
              \/ FailAttempt /\ UNCHANGED runsVars
              \/ task.view # "runs" /\ UNCHANGED runsVars
           /\ \/ task.view = "templates" /\ NextTemplates
              \/ FailAttempt /\ UNCHANGED templateVars
              \/ task.view # "templates" /\ UNCHANGED templateVars
           /\ \/ task.view = "approval" /\ NextPanel
              \/ FailAttempt /\ UNCHANGED confirmVars
              \/ task.view # "approval" /\ UNCHANGED confirmVars
<1>1. CASE /\ task.view = "documents" /\ NextDocuments
           /\ UNCHANGED <<settingsVars, runsVars, templateVars, confirmVars>>
  BY <1>1
<1>2. CASE /\ task.view = "settings" /\ NextSettings
           /\ UNCHANGED <<documentVars, runsVars, templateVars, confirmVars>>
  BY <1>2
<1>3. CASE /\ task.view = "runs" /\ NextRuns
           /\ UNCHANGED <<documentVars, settingsVars, templateVars, confirmVars>>
  BY <1>3
<1>4. CASE /\ task.view = "templates" /\ NextTemplates
           /\ UNCHANGED <<documentVars, settingsVars, runsVars, confirmVars>>
  BY <1>4
<1>5. CASE /\ task.view = "approval" /\ NextPanel
           /\ UNCHANGED <<documentVars, settingsVars, runsVars, templateVars>>
  BY <1>5
<1>6. CASE /\ task.view \in {"chats", "panels", "admin", "metrics", "filechat", "export", "prompts"}
           /\ UNCHANGED <<documentVars, settingsVars, runsVars, templateVars, confirmVars>>
  BY <1>6
<1>7. CASE /\ FailAttempt
           /\ UNCHANGED <<documentVars, settingsVars, runsVars, templateVars, confirmVars>>
  BY <1>7
<1> QED
  BY <1>1, <1>2, <1>3, <1>4, <1>5, <1>6, <1>7 DEF Next, pageVars

(* A page that is open keeps its invariant, and one that is not stays closed. *)
NavPart == IF task.view = "chats" THEN NavInv ELSE NoNavigation
PanelsPart == IF task.view = "panels" THEN PanelsInv ELSE NoPanels
AdminPart == IF task.view = "admin" THEN AdminInv ELSE NoAdmin
MetricsPart == IF task.view = "metrics" THEN MetricsInv ELSE NoMetrics
FilePart == IF task.view = "filechat" THEN FileInv ELSE NoFileChat
ExportPart == IF task.view = "export" THEN ExportInv ELSE NoExport
PromptsPart == IF task.view = "prompts" THEN PromptsInv ELSE NoPrompts
DocumentsPart == IF task.view = "documents" THEN DocumentsInv ELSE NoDocuments

LEMMA PartsStart ==
    ASSUME Init
    PROVE  /\ NavPart
           /\ PanelsPart
           /\ AdminPart
           /\ MetricsPart
           /\ FilePart
           /\ ExportPart
           /\ PromptsPart
<1>0. \A view : InitRequests(view) => task.view = view
  BY DEF InitRequests
<1>1. CASE /\ InitRequests("chats") /\ InitNavigation
           /\ NoPanels /\ NoAdmin /\ NoMetrics /\ NoFileChat /\ NoExport /\ NoPrompts
  BY <1>0, <1>1, NavStarts
         DEF NavPart, PanelsPart, AdminPart, MetricsPart, FilePart, ExportPart, PromptsPart
<1>2. CASE /\ InitRequests("panels") /\ InitPanels
           /\ NoNavigation /\ NoAdmin /\ NoMetrics /\ NoFileChat /\ NoExport /\ NoPrompts
  BY <1>0, <1>2, PanelsStart
         DEF NavPart, PanelsPart, AdminPart, MetricsPart, FilePart, ExportPart, PromptsPart
<1>3. CASE /\ InitRequests("admin") /\ InitAdmin
           /\ NoNavigation /\ NoPanels /\ NoMetrics /\ NoFileChat /\ NoExport /\ NoPrompts
  BY <1>0, <1>3, AdminStarts
         DEF NavPart, PanelsPart, AdminPart, MetricsPart, FilePart, ExportPart, PromptsPart
<1>4. CASE /\ InitRequests("metrics") /\ InitMetrics
           /\ NoNavigation /\ NoPanels /\ NoAdmin /\ NoFileChat /\ NoExport /\ NoPrompts
  BY <1>0, <1>4, MetricsStart
         DEF NavPart, PanelsPart, AdminPart, MetricsPart, FilePart, ExportPart, PromptsPart
<1>5. CASE /\ InitRequests("filechat") /\ InitFileChat
           /\ NoNavigation /\ NoPanels /\ NoAdmin /\ NoMetrics /\ NoExport /\ NoPrompts
  BY <1>0, <1>5, FileStarts
         DEF NavPart, PanelsPart, AdminPart, MetricsPart, FilePart, ExportPart, PromptsPart
<1>6. CASE /\ InitRequests("export") /\ InitExport
           /\ NoNavigation /\ NoPanels /\ NoAdmin /\ NoMetrics /\ NoFileChat /\ NoPrompts
  BY <1>0, <1>6, ExportStarts
         DEF NavPart, PanelsPart, AdminPart, MetricsPart, FilePart, ExportPart, PromptsPart
<1>7. CASE /\ InitRequests("prompts") /\ InitPrompts
           /\ NoNavigation /\ NoPanels /\ NoAdmin /\ NoMetrics /\ NoFileChat /\ NoExport
  BY <1>0, <1>7, PromptsStart
         DEF NavPart, PanelsPart, AdminPart, MetricsPart, FilePart, ExportPart, PromptsPart
<1>8. CASE /\ InitRequests("documents") \/ InitRequests("settings") \/ InitRequests("approval") \/ InitRequests("runs") \/ InitRequests("templates")
           /\ NoNavigation /\ NoPanels /\ NoAdmin /\ NoMetrics /\ NoFileChat /\ NoExport /\ NoPrompts
  BY <1>0, <1>8
         DEF NavPart, PanelsPart, AdminPart, MetricsPart, FilePart, ExportPart, PromptsPart
<1> QED
  BY <1>1, <1>2, <1>3, <1>4, <1>5, <1>6, <1>7, <1>8 DEF Init

LEMMA NavPartSteps ==
    ASSUME NavPart, [Next]_vars
    PROVE  NavPart'
<1>1. CASE UNCHANGED vars
  BY <1>1 DEF vars, requestVars, pageVars, navVars, NavPart, NavInv, UnderWay, NavServerOK, StoredOK, TimesDiffer,
              NoNavigation
<1>2. CASE Next
  <2>1. task' = task
    BY <1>2, OnePageMoves
  <2>2. CASE task.view = "chats"
    BY <1>2, <2>1, <2>2, OnePageMoves, NavSteps, NavAttemptFails DEF NavPart
  <2>3. CASE task.view # "chats"
    <3>1. UNCHANGED navVars
      BY <1>2, <2>3, OnePageMoves
    <3> QED
      BY <2>1, <2>3, <3>1 DEF NavPart, NoNavigation, navVars
  <2> QED
    BY <2>2, <2>3
<1> QED
  BY <1>1, <1>2

LEMMA PanelsPartSteps ==
    ASSUME PanelsPart, [Next]_vars
    PROVE  PanelsPart'
<1>1. CASE UNCHANGED vars
  BY <1>1 DEF vars, requestVars, pageVars, panelVars, PanelsPart, PanelsInv, UnderWay, Belongs, AnswerBelongs,
              NewestCheck, PageBelongs, NoPanels
<1>2. CASE Next
  <2>1. task' = task
    BY <1>2, OnePageMoves
  <2>2. CASE task.view = "panels"
    BY <1>2, <2>1, <2>2, OnePageMoves, PanelsSteps, PanelsAttemptFails DEF PanelsPart
  <2>3. CASE task.view # "panels"
    <3>1. UNCHANGED panelVars
      BY <1>2, <2>3, OnePageMoves
    <3> QED
      BY <2>1, <2>3, <3>1 DEF PanelsPart, NoPanels, panelVars
  <2> QED
    BY <2>2, <2>3
<1> QED
  BY <1>1, <1>2

LEMMA AdminPartSteps ==
    ASSUME AdminPart, [Next]_vars
    PROVE  AdminPart'
<1>1. CASE UNCHANGED vars
  BY <1>1 DEF vars, requestVars, pageVars, adminVars, AdminPart, AdminInv, UnderWay, OfSearch, KeysOnce, KeyStored,
              NoAdmin
<1>2. CASE Next
  <2>1. task' = task
    BY <1>2, OnePageMoves
  <2>2. CASE task.view = "admin"
    BY <1>2, <2>1, <2>2, OnePageMoves, AdminSteps, AdminAttemptFails DEF AdminPart
  <2>3. CASE task.view # "admin"
    <3>1. UNCHANGED adminVars
      BY <1>2, <2>3, OnePageMoves
    <3> QED
      BY <2>1, <2>3, <3>1 DEF AdminPart, NoAdmin, adminVars
  <2> QED
    BY <2>2, <2>3
<1> QED
  BY <1>1, <1>2

LEMMA MetricsPartSteps ==
    ASSUME MetricsPart, [Next]_vars
    PROVE  MetricsPart' /\ (faults' = 0 => \A m \in Models : rates'[m] # rates[m] => m \in metrics.edited)
<1>1. CASE UNCHANGED vars
  BY <1>1 DEF vars, requestVars, pageVars, metricsVars, MetricsPart, MetricsInv, UnderWay, PagePrices, SentPrices,
              Agree, NoMetrics
<1>2. CASE Next
  <2>1. task' = task
    BY <1>2, OnePageMoves
  <2>2. CASE task.view = "metrics"
    BY <1>2, <2>1, <2>2, OnePageMoves, MetricsSteps, MetricsAttemptFails DEF MetricsPart
  <2>3. CASE task.view # "metrics"
    <3>1. UNCHANGED metricsVars
      BY <1>2, <2>3, OnePageMoves
    <3> QED
      BY <2>1, <2>3, <3>1 DEF MetricsPart, NoMetrics, metricsVars
  <2> QED
    BY <2>2, <2>3
<1> QED
  BY <1>1, <1>2

LEMMA FilePartSteps ==
    ASSUME FilePart, [Next]_vars
    PROVE  FilePart'
<1>1. CASE UNCHANGED vars
  BY <1>1 DEF vars, requestVars, pageVars, fileChatVars, FilePart, FileInv, UnderWay, StatusOf, NoFileChat
<1>2. CASE Next
  <2>1. task' = task
    BY <1>2, OnePageMoves
  <2>2. CASE task.view = "filechat"
    BY <1>2, <2>1, <2>2, OnePageMoves, FileSteps, FileAttemptFails DEF FilePart
  <2>3. CASE task.view # "filechat"
    <3>1. UNCHANGED fileChatVars
      BY <1>2, <2>3, OnePageMoves
    <3> QED
      BY <2>1, <2>3, <3>1 DEF FilePart, NoFileChat, fileChatVars
  <2> QED
    BY <2>2, <2>3
<1> QED
  BY <1>1, <1>2

LEMMA ExportPartSteps ==
    ASSUME ExportPart, [Next]_vars
    PROVE  ExportPart'
<1>1. CASE UNCHANGED vars
  BY <1>1 DEF vars, requestVars, pageVars, exportVars, ExportPart, ExportInv, UnderWay, LibraryIsFine, Exports,
              ListComesFirst, Fetched, ArchiveHolds, NoExport, OpenedExport
<1>2. CASE Next
  <2>1. task' = task
    BY <1>2, OnePageMoves
  <2>2. CASE task.view = "export"
    BY <1>2, <2>1, <2>2, OnePageMoves, ExportSteps, ExportAttemptFails DEF ExportPart
  <2>3. CASE task.view # "export"
    <3>1. UNCHANGED exportVars
      BY <1>2, <2>3, OnePageMoves
    <3> QED
      BY <2>1, <2>3, <3>1 DEF ExportPart, NoExport, OpenedExport, exportVars
  <2> QED
    BY <2>2, <2>3
<1> QED
  BY <1>1, <1>2

LEMMA PromptsPartSteps ==
    ASSUME PromptsPart, [Next]_vars
    PROVE  PromptsPart'
<1>1. CASE UNCHANGED vars
  BY <1>1 DEF vars, requestVars, pageVars, promptVars, PromptsPart, PromptsInv, UnderWay, NoPrompts
<1>2. CASE Next
  <2>1. task' = task
    BY <1>2, OnePageMoves
  <2>2. CASE task.view = "prompts"
    BY <1>2, <2>1, <2>2, OnePageMoves, PromptsSteps, PromptsAttemptFails DEF PromptsPart
  <2>3. CASE task.view # "prompts"
    <3>1. UNCHANGED promptVars
      BY <1>2, <2>3, OnePageMoves
    <3> QED
      BY <2>1, <2>3, <3>1 DEF PromptsPart, NoPrompts, promptVars
  <2> QED
    BY <2>2, <2>3
<1> QED
  BY <1>1, <1>2

ApprovalPart == task.view = "approval" => ApprovalInv

LEMMA ApprovalPartSteps ==
    ASSUME ApprovalPart, [Next]_vars
    PROVE  ApprovalPart'
<1>1. CASE UNCHANGED vars
  BY <1>1 DEF vars, requestVars, pageVars, confirmVars, ApprovalPart, ApprovalInv, TrueToPanel, TrueToForm, AsShown, Open
<1>2. CASE Next
  <2>1. task' = task
    BY <1>2, OnePageMoves
  <2>2. task.view = "approval" => NextPanel \/ (FailAttempt /\ UNCHANGED confirmVars)
    BY <1>2 DEF Next, pageVars
  <2> QED
    BY <2>1, <2>2, ApprovalSteps, ApprovalAttemptFails DEF ApprovalPart
<1> QED
  BY <1>1, <1>2

LEMMA DocumentsPartStarts ==
    ASSUME Init
    PROVE  DocumentsPart
<1>0. \A view : InitRequests(view) => task.view = view
  BY DEF InitRequests
<1>1. CASE InitRequests("documents") /\ InitDocuments
  BY <1>0, <1>1, DocumentsStart DEF DocumentsPart
<1>2. CASE /\ \E view \in {"chats", "settings", "panels", "approval", "admin", "metrics", "filechat", "runs", "export",
                          "templates", "prompts"} : InitRequests(view)
           /\ NoDocuments
  BY <1>0, <1>2 DEF DocumentsPart
<1> QED
  BY <1>1, <1>2 DEF Init

LEMMA DocumentsPartSteps ==
    ASSUME DocumentsPart, [Next]_vars
    PROVE  DocumentsPart' /\ DocumentsStep
<1>0. UNCHANGED page => DocumentsStep
  BY DEF DocumentsStep, ChunksGrow
<1>1. CASE UNCHANGED vars
  <2>1. UNCHANGED <<requestVars, documentVars>>
    BY <1>1 DEF vars, pageVars
  <2>2. CASE task.view = "documents"
    <3>1. DocumentsInv /\ task'.view = "documents"
      BY <2>1, <2>2 DEF DocumentsPart, requestVars
    <3>2. DocumentsInv'
      BY <2>1, <3>1 DEF requestVars, documentVars, DocumentsInv, UnderWay, MountOK, StopOK, ChunkFits, ChunksOnce, ChunksCome
    <3> QED
      BY <1>0, <2>1, <3>1, <3>2 DEF DocumentsPart, documentVars
  <2>3. CASE task.view # "documents"
    BY <1>0, <2>1, <2>3 DEF DocumentsPart, NoDocuments, documentVars, requestVars
  <2> QED
    BY <2>2, <2>3
<1>2. CASE Next
  <2>1. task' = task
    BY <1>2, OnePageMoves
  <2>2. CASE task.view = "documents"
    BY <1>2, <2>1, <2>2, OtherPageMoves, DocumentsSteps, DocumentsAttemptFails DEF DocumentsPart
  <2>3. CASE task.view # "documents"
    <3>1. UNCHANGED documentVars
      BY <1>2, <2>3, OtherPageMoves
    <3> QED
      BY <1>0, <2>1, <2>3, <3>1 DEF DocumentsPart, NoDocuments, documentVars
  <2> QED
    BY <2>2, <2>3
<1> QED
  BY <1>1, <1>2

(* A prompt that was typed is sent once, and so is a key while no attempt    *)
(* fails (onInitialPromptConsumed(), bindSave()).                            *)
THEOREM PromptsAndKeysAreSentOnce ==
    Spec => []SentOnce
<1>1. Init => NavPart /\ AdminPart
  BY PartsStart
<1>2. NavPart /\ AdminPart /\ [Next]_vars => (NavPart /\ AdminPart)'
  BY NavPartSteps, AdminPartSteps
<1>3. NavPart /\ AdminPart => SentOnce
  <2>1. NavPart => \A i, j \in DOMAIN nav.sent : nav.sent[i] = nav.sent[j] => i = j
    <3>1. NoNavigation => nav.sent = <<>>
      BY DEF NoNavigation, FirstNav
    <3>2. NoNavigation => \A i, j \in DOMAIN nav.sent : nav.sent[i] = nav.sent[j] => i = j
      BY <3>1
    <3> QED
      BY <3>2, NavPromises DEF NavPart
  <2>2. AdminPart => (faults = 0 => \A i, j \in DOMAIN instance.keys : instance.keys[i] = instance.keys[j] => i = j)
    <3>1. NoAdmin => instance.keys = <<>>
      BY DEF NoAdmin, NoInstance
    <3>2. NoAdmin => \A i, j \in DOMAIN instance.keys : instance.keys[i] = instance.keys[j] => i = j
      BY <3>1
    <3> QED
      BY <3>2, AdminPromises DEF AdminPart
  <2> QED
    BY <2>1, <2>2 DEF SentOnce
<1> QED
  BY <1>1, <1>2, <1>3, PTL DEF Spec

(* What is shown belongs to what is chosen (searchMessages(), load(),        *)
(* check() and request() of the storage, load() of the usage, loadStatus()). *)
THEOREM OldAnswersAreIgnored ==
    Spec => []LateAnswersAreIgnored
<1>1. Init => NavPart /\ FilePart /\ MetricsPart /\ PanelsPart
  BY PartsStart
<1>2. NavPart /\ FilePart /\ MetricsPart /\ PanelsPart /\ [Next]_vars => (NavPart /\ FilePart /\ MetricsPart /\ PanelsPart)'
  BY NavPartSteps, FilePartSteps, MetricsPartSteps, PanelsPartSteps
<1>3. NavPart /\ FilePart /\ MetricsPart /\ PanelsPart => LateAnswersAreIgnored
  <2>1. NavPart => (nav.results.query # NoQuery => nav.results.query = nav.filter \/ nav.timer)
    <3>1. NoNavigation => nav.results.query = NoQuery
      BY DEF NoNavigation, FirstNav, NoResults
    <3> QED
      BY <3>1, NavPromises DEF NavPart
  <2>2. PanelsPart => /\ \A row \in panel.rows : row.by = "load" => row.gen[1] = panel.owner
                      /\ panel.notice \in {NoGeneration, panel.selected}
                      /\ \A j \in Jobs : /\ panel.watch[j].of \in {NoGeneration, panel.selected}
                                         /\ panel.watch[j].from \in {NoGeneration, panel.watch[j].of}
    <3>1. NoPanels => /\ panel.rows = {} /\ panel.notice = NoGeneration
                      /\ \A j \in Jobs : panel.watch[j].of = NoGeneration /\ panel.watch[j].from = NoGeneration
      BY DEF NoPanels, OpenedPanels, NoWatch
    <3> QED
      BY <3>1, PanelsPromises DEF PanelsPart
  <2>3. MetricsPart => (~metrics.loading /\ ~metrics.error => metrics.of = [user |-> metrics.user, days |-> metrics.days])
    <3>1. NoMetrics => metrics.loading
      BY DEF NoMetrics, OpenedMetrics
    <3> QED
      BY <3>1, MetricsPromises DEF MetricsPart
  <2>4. FilePart => fileChat.files \in {NoFiles, fileChat.ids}
    <3>1. NoFileChat => fileChat.files = NoFiles
      BY DEF NoFileChat, EmptyFileChat
    <3> QED
      BY <3>1, FilePromises DEF FilePart
  <2> QED
    BY <2>1, <2>2, <2>3, <2>4 DEF LateAnswersAreIgnored
<1> QED
  BY <1>1, <1>2, <1>3, PTL DEF Spec

(* A stored price changes only for a model whose price was edited, while no  *)
(* attempt fails (load() and savePricing()).                                 *)
THEOREM OtherPricesAreKept ==
    Spec => PricesAreKept
<1> DEFINE Kept == faults' = 0 => \A m \in Models : rates'[m] # rates[m] => m \in metrics.edited
<1>1. Init => MetricsPart
  BY PartsStart
<1>2. MetricsPart /\ [Next]_vars => MetricsPart' /\ Kept
  BY MetricsPartSteps
<1>3. MetricsPart /\ [Next]_vars => [Kept]_vars
  BY <1>2
<1> HIDE DEF Kept
<1>4. MetricsPart /\ [Next]_vars => MetricsPart'
  BY <1>2
<1>5. Spec => [][Kept]_vars
  BY <1>1, <1>3, <1>4, PTL DEF Spec
<1> QED
  BY <1>5 DEF PricesAreKept, Kept

(* The list names a chat once, a question stands in the history once, and an *)
(* archive holds every chat of its list once (loadMoreChats(), record(),     *)
(* createChatArchive()).                                                     *)
THEOREM ChatsAndQuestionsAreListedOnce ==
    Spec => []ListedOnce
<1>1. Init => NavPart /\ PromptsPart /\ ExportPart
  BY PartsStart
<1>2. NavPart /\ PromptsPart /\ ExportPart /\ [Next]_vars => (NavPart /\ PromptsPart /\ ExportPart)'
  BY NavPartSteps, PromptsPartSteps, ExportPartSteps
<1>3. NavPart /\ PromptsPart /\ ExportPart => ListedOnce
  <2>1. NavPart => \A i, j \in DOMAIN nav.list : nav.list[i] = nav.list[j] => i = j
    <3>1. NoNavigation => nav.list = <<>>
      BY DEF NoNavigation, FirstNav
    <3>2. NoNavigation => \A i, j \in DOMAIN nav.list : nav.list[i] = nav.list[j] => i = j
      BY <3>1
    <3> QED
      BY <3>2, NavPromises DEF NavPart
  <2>2. PromptsPart => \A i, j \in DOMAIN remembered.items : remembered.items[i].text = remembered.items[j].text => i = j
    <3>1. NoPrompts => remembered.items = <<>>
      BY DEF NoPrompts, EmptyStore
    <3>2. NoPrompts => \A i, j \in DOMAIN remembered.items : remembered.items[i].text = remembered.items[j].text => i = j
      BY <3>1
    <3> QED
      BY <3>2, PromptsPromise DEF PromptsPart
  <2>3. ExportPart => (exporter.archive # NoArchive /\ exporter.phase = "idle" /\ ~exporter.error =>
                         /\ {entry.chat : entry \in Range(exporter.archive)} = ToSet(exporter.list)
                         /\ Cardinality(DOMAIN exporter.archive) = Len(exporter.list))
    <3>1. NoExport => exporter.archive = NoArchive
      BY DEF NoExport, OpenedExport
    <3> QED
      BY <3>1, ExportPromises DEF ExportPart
  <2> QED
    BY <2>1, <2>2, <2>3 DEF ListedOnce
<1> QED
  BY <1>1, <1>2, <1>3, PTL DEF Spec

(* The app sends what its panel showed when the user approved: every visible *)
(* field and ticked block, nothing that was hidden, and no required field    *)
(* empty (getArguments() and the approval of renderMsg()).                   *)
THEOREM ApprovalsAreAsShown ==
    Spec => []ApprovedAsShown
<1>1. Init => ApprovalPart
  <2>1. Init /\ task.view = "approval" => InitPanel
    BY DEF Init, InitRequests
  <2> QED
    BY <2>1, ApprovalStarts DEF ApprovalPart
<1>2. ApprovalPart /\ [Next]_vars => ApprovalPart'
  BY ApprovalPartSteps
<1>3. ApprovalPart => ApprovedAsShown
  BY ApprovalPromises DEF ApprovalPart, ApprovedAsShown, TrueToForm
<1> QED
  BY <1>1, <1>2, <1>3, PTL DEF Spec

(* The chunks a document waits for are asked for in the list that is shown,  *)
(* and they come in their order, none twice, whatever lists were asked for   *)
(* meanwhile (loadChunks(), ensureLoaded(), loadMoreChunks()).               *)
THEOREM ChunksBelongToTheList ==
    Spec => ChunksFollowTheList
<1> DEFINE Waits == \A d \in 1..MaxListed : page.cache[d].status = "loading" =>
                       page.disposed \/ \E r \in net : r.op = "chunks" /\ r.arg.doc = d /\ r.arg.epoch = page.epoch
           Grows == \A d \in 1..MaxListed :
                       LET old == page.cache[d]
                           new == page'.cache[d]
                       IN  /\ new.status = "ready" => old.status \in {"loading", "ready"}
                           /\ new.pages # old.pages => new.pages = <<>> \/ new.pages = Append(old.pages, Len(old.pages))
<1>1. Init => DocumentsPart
  BY DocumentsPartStarts
<1>2. DocumentsPart /\ [Next]_vars => DocumentsPart'
  BY DocumentsPartSteps
<1>3. DocumentsPart => Waits
  <2>1. NoDocuments => Waits
    BY DEF NoDocuments, OpenedPage, NoChunks
  <2> QED
    BY <2>1, DocumentsPromise DEF DocumentsPart
<1>4. DocumentsPart /\ [Next]_vars => [Grows]_vars
  <2>1. DocumentsStep => Grows
    BY DEF DocumentsStep, ChunksGrow, DocumentNumbers
  <2> QED
    BY <2>1, DocumentsPartSteps
<1> HIDE DEF Waits, Grows
<1>5. Spec => []Waits /\ [][Grows]_vars
  BY <1>1, <1>2, <1>3, <1>4, PTL DEF Spec
<1> QED
  BY <1>5 DEF ChunksFollowTheList, Waits, Grows

=============================================================================
