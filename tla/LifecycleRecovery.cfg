SPECIFICATION FairSpec
CONSTANTS
  Grace = 2
  LongGrace = 3
  Stabilize = 1
  Subscribed <- Everything
  MaxEvents = 5
  MaxDbErrors = 0
PROPERTIES RecoveryIsAnnounced
CHECK_DEADLOCK FALSE
