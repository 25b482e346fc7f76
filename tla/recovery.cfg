\* Two overlapping recovery runs, one request, a crash of the panel.
SPECIFICATION Spec
CONSTANTS
    Workers = {w1, w2}
    Requests = {r1}
    Guard = 1
    Window = 2
    Cooldown = 3
    MaxAttempts = 2
    None = None
INVARIANTS
    RateLimit
    ActsOnFreshWish
    CooldownIsKept
    PauseIsServed
PROPERTIES
    IsRecovered
