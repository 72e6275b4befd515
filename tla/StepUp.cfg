SPECIFICATION Spec
CONSTANTS
    Users = {u1}
    Admins = {u1}
    MfaUsers = {u1}
    SessionNos = {1}
    Keys = {k1, k2}
    Challenges = {c1, c2}
    Proofs = {p1, p2}
    Requests = {r1, r2}
    NoValue = NoValue
    Deleted = Deleted
    ChallengeTtl = 1
    ProofTtl = 1
    Grace = 0
    MaxTime = 2
SYMMETRY Symmetry
CHECK_DEADLOCK FALSE
INVARIANTS OnePassPerAssertion OneEnrolmentPerRound
PROPERTIES LastPasskeyKept
