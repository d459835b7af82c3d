SPECIFICATION DSpec
CONSTANTS
  i1 = i1
  m1 = m1
  m2 = m2
  m3 = m3
  hello = hello
  bye = bye
  Instances = {i1}
  Enqueuers = {h1}
  Keys = {}
  NoKey = NoKey
  NoInstance = NoInstance
  MaxQueueDepth = 2
  MaxAttempts = 1
  DrainLimit = 2
  ExpireLimit = 1
  MaxRows = 1
  MaxFaults = 0
  Messages = {m1, m2, m3}
  Home <- OneInstance
  Content <- Echo
  NoText = NoText
  Media = {m3}
  SpamguardOn = TRUE
  Drainer = Drainer
  NoMessage = NoMessage
  MaxPosts = 3
  MaxDbErrors = 1
  MaxToggles = 1
VIEW WithoutHistory
INVARIANTS OneTextPerContact
