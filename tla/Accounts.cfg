CONSTANTS
  ann = ann
  bob = bob
  t1 = t1
  t2 = t2
  form = form
  console = console
  Accounts <- Everyone
  Roles <- TwoRoles
  MaxSessions = 2
  SessionLimit = 1
  Tokens <- OneToken
  TokenLimit = 1
  MaxPasswords = 3
  MaxLinks = 2
  Public <- OneForm
  Console <- OneUser
  Nobody = Nobody
SYMMETRY Same
SPECIFICATION Spec
INVARIANTS TypeOK AdminRemains WithinLimits
PROPERTIES SessionsStayEnded PasswordsAreProven IssuanceIsAuthorised
