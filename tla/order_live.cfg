\* Liveness needs fairness and no symmetry.
SPECIFICATION FairSpec
CONSTANTS
    Orders = {o1}
    Requests = {r1, r2}
    Servers = {s1}
    None = None
    Price = 1
    MaxCredits = 1
    MaxRestarts = 1
    FailureReasonNullable = FALSE
PROPERTIES
    ProvisioningSettles
