SPECIFICATION LiveSpec
CONSTANTS
  p1 = p1
  p2 = p2
  s1 = s1
  c1 = c1
  c2 = c2
  AppPages = {p1, p2}
  StandalonePages = {s1}
  Chats = {c1, c2}
  NoChat = NoChat
  MaxTurns = 2
  MaxLosses = 1
  MaxEdits = 1
  Sessions <- MCSessions
INVARIANTS TypeOK OneRunPerToken NoSilentLoss
PROPERTIES LateAnswerKeepsNewer QuestionFirst ComposerComesBack
CHECK_DEADLOCK FALSE
