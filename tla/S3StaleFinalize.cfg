SPECIFICATION Spec
CONSTANTS
  f1 = f1
  f2 = f2
  f3 = f3
  k1 = k1
  NoFile = NoFile
  Nothing = Nothing
  Files = {f1}
  Multiparts = {f1}
  Conditional = {}
  Keys = {k1}
  KeyOf <- OneKey
  Parts = {p1, p2}
  Data = {d1}
  Requests = {r1, r2}
  Workers = {w1}
  MaxLate = 0
CHECK_DEADLOCK FALSE
SYMMETRY Symmetry
INVARIANTS ActiveIsFaithful
