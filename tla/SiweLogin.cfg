SPECIFICATION Spec
CONSTANTS
    Users = {u1,u2}
    InitialUsers = {u2}
    OidcUsers = {u1}
    Addresses = {a1}
    AdminWallets = {a1}
    MachineTypes = {"tenant"}
    Nonces = {n1}
    Challenges = {c1}
    SessionIds = {s1, s2}
    Requests = {r1, r2}
    NoValue = NoValue
    Expiration = 1
    NonceTtl = 1
    PkExpiration = 1
    MaxLatency = 1
    MaxTime = 2
    MaxChanges = 2
SYMMETRY Symmetry
CHECK_DEADLOCK FALSE
INVARIANTS OneSessionPerNonce SessionOfBoundUser OneSessionPerChallenge
PROPERTIES SingleUse NoLoginAroundMfa
