SPECIFICATION FairSpec
CONSTANTS
  Parts = {p1}
  Data = {d1, d2}
  Fits = {d1, d2}
  Requests = {r1}
  Workers = {w1}
  MaxLate = 0
  MaxReads = 0
  Nothing = Nothing
CHECK_DEADLOCK FALSE
INVARIANTS RecordedIsStored
PROPERTIES CompletionConcludes AbandonedFileSettles CondemnedIsReleased
