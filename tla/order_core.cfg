\* One order, two requests, a staff retry, a crash: every race on one order.
SPECIFICATION Spec
CONSTANTS
    Orders = {o1}
    Requests = {r1, r2}
    Servers = {s1, s2}
    None = None
    Price = 1
    MaxCredits = 1
    MaxRestarts = 1
    FailureReasonNullable = TRUE
SYMMETRY Symmetry
INVARIANTS
    LedgerMatchesInvoice
    StatusMatchesInvoice
    OneReservationPerOrder
    ServersArePaidFor
PROPERTIES
    RefundIsFinal
    ImplementsLedger
