SPECIFICATION Spec
CONSTANTS
    router = router foreign = foreign token = token account = account unlisted = unlisted
    s1 = s1 bare = bare o1 = o1 o2 = o2 k1 = k1 t1 = t1
    Addresses = {router, foreign, token, account, unlisted}
    Reserved = {unlisted}
    Selectors = {s1, bare}
    Bare = bare
    SystemContracts = {unlisted}
    Inheritable <- SystemOnes
    Roles = {k1}
    Zone = Zone
    NoRow = NoRow
    MultiOrg = TRUE
    Requests = {r1}
    Inputs <- SomeInputs
    Policies <- SomePolicies
    Edits <- Edits4
    CodeAt = {router, foreign, token, unlisted}
    Deployers = {k1}
    Versions = {1}
    Overlays = TRUE
    MaxEntries = 1
    Ttl = 1
    MaxLatency = 1
    MaxTime = 2
CHECK_DEADLOCK FALSE
INVARIANTS ConvergesAfterTtl VetoBindsAtOnce UmbrellaKeepsToItsOwn
