SPECIFICATION Spec
CONSTANTS
    Users = {u1, u2}
    Claims = {c1, c2, c3}
    Requests = {r1, r2}
    NoValue = NoValue
    Cap = 2
    Window = 3
    Cooldown = 2
    StaleAfter = 1
    MaxLatency = 1
    MaxTime = 3
SYMMETRY Symmetry
CHECK_DEADLOCK FALSE
INVARIANTS CapKept CooldownKept PaidIsRecorded
PROPERTIES ResolvedOnce
