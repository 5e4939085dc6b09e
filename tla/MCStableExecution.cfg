SPECIFICATION Spec
CONSTANTS
    k1 = k1
    k2 = k2
    k3 = k3
    o1 = o1
    o2 = o2
    r1 = r1
    r2 = r2
    Keys = {k1, k2, k3}
    Orders = {o1, o2}
    Runners = {r1, r2}
    Times = {1, 2}
SYMMETRY Symmetry
INVARIANTS
    OrderSentOnce
    CancelSentOnce
    RecordedTruth
PROPERTIES
    NotRevived
CHECK_DEADLOCK FALSE
