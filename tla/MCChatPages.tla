---------------------------- MODULE MCChatPages ----------------------------
EXTENDS ChatPages, TLC
CONSTANTS p1, p2, s1, c1, c2

Session(opened, used, lost, edited) == [pages |-> opened, chats |-> used, losses |-> lost, edits |-> edited]

\* One page with a loss and an edit, a standalone page with two chats, and two
\* pages side by side.
MCSessions == {Session({p1}, {c1}, 1, 1), Session({s1}, {c1}, 1, 1), Session({s1}, {c1, c2}, 0, 1),
               Session({p1, p2}, {c1}, 1, 0), Session({p1, s1}, {c1}, 0, 0)}
MCTwoTabs == {Session({p1, p2}, {c1}, 0, 1)}

=============================================================================
