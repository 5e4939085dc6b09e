CONSTANTS
  w1 = w1
  w2 = w2
  m1 = m1
  d1 = d1
  d2 = d2
  Mandates = {m1}
  Suitable = {m1}
  Principal = 10
  Orders = {}
  Notionals = {6}
  MAX_OPEN_ORDERS = 1
  MaxReviews = 0
  MaxLedger = 1
  Workers = {w1, w2}
  Receipts <- MCReceipts
  Template = "hybrid"
  FixedReturnBps = 500
  PerformanceParticipationBps = 5000
  DurationDays = 365
  IpoOneFeeBps = 1000
  Observations <- MCObservations
  MAX_EVIDENCE_VERSION = 2
SPECIFICATION Spec
SYMMETRY Symmetry

    
PROPERTIES
    KeepsPromise
    ActivationIsFunded
CHECK_DEADLOCK FALSE
