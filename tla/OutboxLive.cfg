SPECIFICATION FairSpec
CONSTANTS
  Instances = {i1}
  Enqueuers = {e1}
  Keys = {k1}
  NoKey = NoKey
  NoInstance = NoInstance
  MaxQueueDepth = 2
  MaxAttempts = 2
  DrainLimit = 2
  ExpireLimit = 1
  MaxRows = 2
  MaxFaults = 1
PROPERTIES EventuallySettled ExpiryIsAnnounced KeepsFairPromise
