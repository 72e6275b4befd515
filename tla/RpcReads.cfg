SPECIFICATION Spec
CONSTANTS
    ann = ann bo = bo cy = cy o1 = o1 o2 = o2 wa = wa wb = wb wc = wc
    router = router foreign = foreign token = token sys = sys vacant = vacant
    member = member reader = reader byHash = byHash logs = logs deployer = deployer
    zoneReader = zoneReader zoneLogs = zoneLogs operator = operator
    Users = {ann, bo, cy}
    Orgs = {o1, o2}
    Roles = {member, reader, byHash, logs, deployer, zoneReader, zoneLogs, operator}
    Wallets = {wa, wb, wc}
    Topics = {wa, wb, wc}
    Contracts = {router, foreign, token, sys, vacant}
    Reserved = {sys}
    Zone = Zone
    NoOne = NoOne
    Any = Any
    RoleOrg <- RoleOrgs
    Permissions <- SomePermissions
    MultiOrg = TRUE
    Txs = {1, 2, 3, 4, 5, 6}
    TxOf <- SomeTxs
    NextOf <- SomeNext
    SmartAccounts = {wa, wb}
    PublicCode = {sys}
    Policies <- SomePolicies
    Edits <- SomeEdits
    Items <- SomeItems
    MinedFirst <- SomeMined
    MaxWindow = 2
CHECK_DEADLOCK FALSE
INVARIANTS NothingUnseen SentByOwn PrefilterLosesNothing ListingsAgree
