CONSTANTS
  Workers = {w1, w2}
  MaxTime = 2
  Commands = {"c1"}
  actionKind <- MCKinds
  Size = 2
  RiskInputs <- MCRiskInputs
  MaxRiskChanges = 1
  Controls = {k1}
  MAX_POLL_ATTEMPTS = 1
  CIRCUIT_BREAKER_FAILURE_THRESHOLD = 2
  MaxVersion = 2
  Actors = {"ada", "rod", "rex", "oda", "expiryWorker"}
  roleBundle <- MCRoles
  requesterActor = "ada"
  custodianActorIds = {"rod", "oda"}
  reviewOwnerActorId = "rex"
  MAX_APPROVAL_WINDOW = 2
  MAX_MFA_AGE = 0
  MAX_BREAK_GLASS_WINDOW = 1
  BREAK_GLASS_ACTIVATION_WINDOW = 2
  BREAK_GLASS_REVIEW_WINDOW = 1
  CommandActors = {"rod"}
  MaxAuthority = 2
  Requests <- MCRequests
  policies <- MCPolicies
  RateLimits <- MCRateLimits
  Dimensions <- MCDimensions
  WINDOW = 2
  CONCURRENCY = 2
  RESOURCES = 1
  LEASE = 1
  COMMAND_RETENTION = 2
  MaxAdmissions = 2
  MaxChanges = 1
  Subjects = {"hal", "amy"}
  subjectType <- MCSubjectTypes
  Accounts = {"a1"}
  Terms = {2}
  CHALLENGE_TTL = 1
  REFERENCE_TTL = 2
  AuthorityLimit = 3
  MaxLag = 1
  Intents = {"i1"}
  Principals = {2, 3}
  PartnerPrincipals = {1}
  maxPrincipal = 2
  OFFER_VALIDITY = 2
  PASSPORT_LIFETIME = 2
  CONFIRMATION_TTL = 1
  MaxPassportVersion = 2
  Loans = {"a1", "a2", "h1"}
  AgentLoans = {"a1", "a2"}
  terms <- MCTerms
  DAY = 2
  rateBps = 1
  DENOMINATOR = 3
  GRACE_DAYS = 0
  DEFAULT_DPD = 2
  MAX_SEQUENCE = 2
  Providers = {"p1", "p2"}
  facilityProviders = {"p1"}
  Payments = {1, 3}
  MaxClock = 5
  Lag = 1
  Grants = {g1, g2}
  TransferIntents = {"t1", "t2"}
  intentAmount <- MCIntentAmounts
  limits <- MCLimits
  MAX_GRANT_LIFETIME = 2
  MAX_RESERVATION_LIFETIME = 1
  MaxReservations = 2
  RepositoryTicks = 1
  RequestedLifetimes = {2}
  RepositoryIntents = {"t1"}
  RepositoryGrants = 1
  ReleaseReasons = {"reservation_expired"}
  Parts = {"guardian", "reconciliation", "approval", "breakGlass", "gateway"}
SYMMETRY Interchangeable
SPECIFICATION PlatformSpec
INVARIANTS SentOnce ReconciledIsFinal TwoPersonRule CapacityAccounted
  CommandsRunOnce
CHECK_DEADLOCK FALSE
