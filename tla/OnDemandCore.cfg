SPECIFICATION FairSpec
CONSTANTS
  Requests = {r1}
  Chats = {c1, c2}
  PageCap = 2
INVARIANTS AloneIsReachable AnswerNotLost JobHonest
PROPERTIES EverythingReturns
CHECK_DEADLOCK FALSE
