SPECIFICATION Spec
CONSTANTS
  p1 = p1
  p2 = p2
  s1 = s1
  c1 = c1
  c2 = c2
  AppPages = {p1, p2}
  StandalonePages = {s1}
  Chats = {c1, c2}
  NoChat = NoChat
  MaxTurns = 3
  MaxLosses = 0
  MaxEdits = 1
  Sessions <- MCTwoTabs
PROPERTY OnlySeenIsTruncated
CHECK_DEADLOCK FALSE
