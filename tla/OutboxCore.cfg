SPECIFICATION Spec
CONSTANTS
  Instances = {i1}
  Enqueuers = {e1, e2}
  Keys = {}
  NoKey = NoKey
  NoInstance = NoInstance
  MaxQueueDepth = 1
  MaxAttempts = 2
  DrainLimit = 2
  ExpireLimit = 1
  MaxRows = 3
  MaxFaults = 1
SYMMETRY Symmetry
INVARIANTS StatusIsEarned ConfirmedOncePerFault ErrorsAreCounted OvershootBounded
