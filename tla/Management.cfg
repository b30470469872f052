SPECIFICATION StartedSpec
CONSTANTS
  ann = ann
  bob = bob
  t1 = t1
  s1 = s1
  c1 = c1
  k1 = k1
  x = x
  y = y
  u = u
  v = v
  f1 = f1
  m1 = m1
  w1 = w1
  w2 = w2
  Accounts <- Pair
  Roles <- TwoRoles
  MaxSessions = 1
  SessionLimit = 1
  Tokens <- OneToken
  TokenLimit = 1
  MaxPasswords = 1
  MaxLinks = 0
  Public <- NoRequests
  Console <- NoRequests
  Nobody = Nobody
  Storages <- OneStorage
  Clients <- OneClient
  Keys <- OneKey
  Addresses <- TwoAddresses
  Secrets <- TwoSecrets
  Files <- OneFile
  Operators <- OneOperator
  Workers <- TwoWorkers
CHECK_DEADLOCK FALSE
SYMMETRY Alike
INVARIANTS RegistryTypeOK ObjectsStayAddressed TransfersReachTheirObject
PROPERTIES WritesAreAuthorised
