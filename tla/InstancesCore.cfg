SPECIFICATION Spec
CONSTANTS
  Callers = {w1, w2}
  MaxConns = 3
  MaxPairings = 2
  MaxEvents = 4
  MaxFailures = 1
SYMMETRY Symmetry
INVARIANTS AtMostOneSession SessionRemembered ServedUnlessMissed
PROPERTIES StaysDeleted
CHECK_DEADLOCK FALSE
