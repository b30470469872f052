SPECIFICATION Spec
CONSTANTS
  c1 = c1
  c2 = c2
  t1 = t1
  t2 = t2
  Transfers <- TwoUploads
  Candidates <- TwoFiles
  Requests <- Uploads
  Unit = 2
  Budget = 9
  SlotLimit = 2
  ClaimLimit = 2
  MaxClaims = 2
  Nothing = Nothing
  Connections = 3
  Jobs <- TwoJobs
  JobOf <- Observed
  Batch = 1
  MaxCrashes = 1
CHECK_DEADLOCK FALSE
INVARIANTS SpoolWithinBudget
PROPERTIES EveryJobRuns EveryCandidateTried
