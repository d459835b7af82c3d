SPECIFICATION FairSpec
CONSTANTS
  Grace = 2
  LongGrace = 3
  Stabilize = 1
  Subscribed <- Everything
  MaxEvents = 5
  MaxDbErrors = 1
INVARIANTS RecoveryAnswersAlarm OutageIsNoticed
PROPERTIES NoSpuriousConnected OutageIsAnnounced
CHECK_DEADLOCK FALSE
