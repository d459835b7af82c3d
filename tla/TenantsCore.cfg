SPECIFICATION Spec
CONSTANTS
  Tags = {t1, t2}
  Readers = {r1, r2}
  Admins = {a1, a2}
  MaxChanges = 3
  MaxOwners = 1
  MaxFailures = 1
SYMMETRY Symmetry
INVARIANTS StaleOnlyIfCrossed ServedByCurrent GlobalOnlyIfBare
CHECK_DEADLOCK FALSE
