SPECIFICATION Spec
CONSTANTS
    Orders = {o1}
    Requests = {r1, r2}
    Servers = {s1, s2}
    None = None
    Price = 1
    MaxCredits = 1
    MaxRestarts = 1
    FailureReasonNullable = TRUE
SYMMETRY Symmetry
INVARIANTS
    OneServerPerPayment
