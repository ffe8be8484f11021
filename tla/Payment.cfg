SPECIFICATION Spec
CONSTANTS
    Purchases = {p1, p2}
    Users = {u1, u2}
    Referred = {u1, u2}
    References = {ref1}
    CouponOrders = {p1, p2}
    FreeOrders = {p2}
    MaxUses = 1
    MaxUsesPerUser = 1
    Workers = {w1, w2}
    NoWorker = NoWorker
    NoPurchase = NoPurchase
    NoReference = NoReference
    Window = 0
    MaxTime = 1
SYMMETRY ThreadsAndStudents
INVARIANTS CouponCap CouponPerUser
PROPERTIES DecidedOnce
CHECK_DEADLOCK FALSE
