SPECIFICATION Spec
CONSTANTS
    Users = {u1}
    Machines = {m1}
    Members = {u1}
    Tokens = {t1, t2}
    Requests = {r1, r2}
    NoValue = NoValue
    Duration = 3
    Idle = 2
    MaxTime = 4
SYMMETRY Symmetry
CHECK_DEADLOCK FALSE
INVARIANTS IdleAndCap DeletedOrgLockedOut
PROPERTIES EndedForGood
