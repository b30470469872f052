SPECIFICATION Spec
CONSTANTS
  Parts = {p1}
  Data = {d1, d2}
  Fits = {d1, d2}
  Requests = {r1, r2}
  Workers = {w1}
  MaxLate = 1
  MaxReads = 1
  Nothing = Nothing
CHECK_DEADLOCK FALSE
SYMMETRY Symmetry
INVARIANTS TypeOK DeletesOnlyCondemned MultipartIsFaithful AlwaysScannable
PROPERTIES FollowsLifecycle ImplementsWriteOnce
