\* Two overlapping requests, users who register or administer, two codes.
SPECIFICATION Spec
CONSTANTS
    Users = {u1, u2}
    Requests = {r1, r2}
    Codes = {c1, c2}
    MaxAttempts = 1
    MaxResets = 1
    Budgets <- MCBudgets
    None = None
SYMMETRY Symmetry
INVARIANTS
    CodeUsedOnce
    SessionsFollowPassword
    BanEndsSessions
    AdminRemains
PROPERTIES
    NewestReplaces
CHECK_DEADLOCK FALSE
