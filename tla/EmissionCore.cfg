SPECIFICATION Spec
CONSTANTS
  JIDs = {j1, j2}
  VelocityThreshold = 1
  DiversityThreshold = 1
  DeliveryMinSamples = 1
  Retries = 1
  MaxSends = 2
  MaxEvents = 2
  MaxFailures = 2
SYMMETRY Symmetry
INVARIANTS CountsConserved LastFlushTakesAll AlertOncePerRise CriticalIsDelivered RestartIsAnnounced
CHECK_DEADLOCK FALSE
