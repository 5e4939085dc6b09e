CONSTANTS
  Workers = {w1, w2}
  MaxTime = 2
  LOGIN_TTL = 1
  LOGIN_CAPACITY = 1
  IDLE_TIMEOUT = 1
  ABSOLUTE_TIMEOUT = 2
  SESSION_CAPACITY = 2
  STEP_UP_TTL = 2
  PASSKEY_CHALLENGE_TTL = 1
  MAX_PASSKEYS = 2
  MAX_CHALLENGES = 3
  JWKS_TTL = 1
  PROOF_AGE = 1
  CLOCK_TOLERANCE = 0
  REPLAY_CAPACITY = 2
  MaxLogins = 2
  MaxWalletLogins = 1
  MaxSessions = 2
  MaxCredentialVersion = 2
  MaxAdministered = 1
  LoginTicks = 1
  Proofs = {"d1", "d2"}
  issuedAt <- MCIssuedAt
  Addresses = {k1, k2}
  DelegateLifetime = 2
  PROOF_WINDOW = 1
  REQUEST_EXPIRY = 1
  MAX_SUBMISSIONS = 2
  EconomicActions = {"e1", "e2"}
  actionKind <- MCActionKind
  MaxDelegates = 2
  MaxSigners = 1
  MaxAttempts = 2
  SubmissionTicks = 1
  MaxIntents = 3
  MaxResourceVersion = 2
  Roots = {r1, r2}
  MaxCommits = 3
  MaxState = 2
  MaxDiscrepancies = 2
  DemoProviders = {p1, p2}
  MaxSpends = 2
  MaxCaptured = 130
  MaxEvents = 1
  TransferIntents = {"t1"}
  QUOTE_TTL = 1
  MaxVersion = 6
  SandboxSessions = {"s1", "s2"}
  SANDBOX_SESSION_LIMIT = 1
  SANDBOX_SESSION_TTL = 1
  MAX_SANDBOX_MUTATIONS = 1
  MAX_CONCURRENT_REQUESTS = 2
  REQUESTS_PER_WINDOW = 2
  MaxEntries = 2
  Parts = {"walletLogin", "oidcLogin", "passkeys", "machine", "delegates", "submission", "composition", "projection", "reconciliation", "repair", "demo", "rail", "api"}
SYMMETRY Interchangeable
SPECIFICATION ServicesSpec
INVARIANTS  SigningAuthorityOnce
    ReportsTrue
  SandboxBooksAgree  ApiRequestsAccounted
PROPERTIES RevocationEndsStepUp
CHECK_DEADLOCK FALSE
