SPECIFICATION Spec
CONSTANTS
    Users = {u1, u2}
    Members = {u1}
    TenantUsers = {u2}
    Addresses = {a1, a2}
    Requests = {r1, r2}
    NoValue = NoValue
    MultiOrg = TRUE
    Limit = 1
SYMMETRY Symmetry
CHECK_DEADLOCK FALSE
INVARIANTS EntitledOwner
PROPERTIES NoTakeover
