\* Two requests of one client over two seconds of a day and its midnight.
SPECIFICATION MCSpec
CONSTANTS
    Requests = {q1, q2}
    IPs = {ip1}
    Global = global
    Elements = {1, 2, 3}
    MaxElements = 2
    PerSec = 1
    PerDay = 2
    GlobalPerDay = 2
    SecPerDay = 2
    MaxTime = 2
INVARIANTS
    TypeOK
    OvershootBounded
    CountersMatchCharges
    RejectedPayNothing
    ServedPay
PROPERTIES
    RejectionsJustified
    GlobalChargeAfterIpGate
    ImplementsBudget
    EveryRequestAnswered
CHECK_DEADLOCK FALSE
