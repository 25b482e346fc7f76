\* Two overlapping workers, a staff request and top-ups, on one server.
SPECIFICATION Spec
CONSTANTS
    Servers = {s1}
    Workers = {w1, w2}
    Staff = {a1}
    Price = 1
    MaxCredits = 1
    MaxPeriods = 2
INVARIANTS
    OneChargePerPeriod
PROPERTIES
    RenewalsKeepLedger
    DueIsSettled
    StopIsRetried
