\* Two nodes, two reservations and one staff session at a time.
SPECIFICATION Spec
CONSTANTS
    Nodes = {n1, n2}
    Requests = {r1, r2}
    Admins = {a1}
    Servers = {s1, s2, s3}
    MaxCapacity = 2
    None = None
    Machines <- MCMachines
    Plans <- MCPlans
    Policies <- MCPolicies
    Ages <- MCAges
    Fleets <- MCFleets
    Pages <- MCPages
    Incidents <- MCIncidents
SYMMETRY Symmetry
INVARIANTS
    DisabledNodeIsEmpty
    ChoiceIsSafeAndMonotone
    ReportsAgree
PROPERTIES
    PlacementIsSafe
