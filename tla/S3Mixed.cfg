SPECIFICATION Spec
CONSTANTS
  f1 = f1
  f2 = f2
  f3 = f3
  k1 = k1
  NoFile = NoFile
  Nothing = Nothing
  Files = {f1, f2}
  Multiparts = {f1}
  Conditional = {f2}
  Keys = {k1}
  KeyOf <- OneKey
  Parts = {p1}
  Data = {d1}
  Requests = {r1, r2}
  Workers = {w1}
  MaxLate = 1
CHECK_DEADLOCK FALSE
SYMMETRY Symmetry
INVARIANTS DeletesOnlyCondemned
PROPERTIES ImplementsKeyedStore
