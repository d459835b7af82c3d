SPECIFICATION DSpec
CONSTANTS
  i1 = i1
  m1 = m1
  m2 = m2
  m3 = m3
  hello = hello
  bye = bye
  Instances = {i1}
  Enqueuers = {h1, h2}
  Keys = {}
  NoKey = NoKey
  NoInstance = NoInstance
  MaxQueueDepth = 1
  MaxAttempts = 2
  DrainLimit = 2
  ExpireLimit = 1
  MaxRows = 2
  MaxFaults = 1
  Messages = {m1}
  Home <- OneInstance
  Content <- SameText
  NoText = NoText
  Media = {}
  SpamguardOn = FALSE
  Drainer = Drainer
  NoMessage = NoMessage
  MaxPosts = 2
  MaxDbErrors = 1
  MaxToggles = 0
SYMMETRY Symmetry
INVARIANTS ClaimAccountedFor OneCopyUnlessExcused
