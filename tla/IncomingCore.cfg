SPECIFICATION Spec
CONSTANTS
  Senders = {s1, s2}
  Nameless = {s2}
  Contents = {hi}
  Cap = 2
  MaxEvents = 3
  MaxOld = 1
  MaxImports = 1
  MaxConvs = 2
  MaxAgent = 1
  MaxFailures = 1
INVARIANTS LostOnlyWithCause BareFollowsItsSender OnlyReadIsMarked NoTextForgotten ImportHonest
PROPERTIES SecondConversationRaced
VIEW WhatMatters
CHECK_DEADLOCK FALSE
