CONSTANTS
    Zone = Zone
    NoTemplate = NoTemplate
    orgA = orgA
    orgB = orgB
    op = op
    alice = alice
    bob = bob
    carol = carol
    ZA = ZA
    ZR = ZR
    AA = AA
    BA = BA
    AR = AR
    AX = AX
    NR = NR
    ownApp = ownApp
    zoneApp = zoneApp
    addr1 = addr1
    addr2 = addr2
    fn1 = fn1
    ev1 = ev1
    tpl1 = tpl1
    s1 = s1
    s2 = s2
    Orgs <- MCOrgs
    Users <- MCUsers
    Roles <- MCRoles
    Apps <- MCApps
    Addrs <- MCAddrs
    FnPerms <- MCFnPerms
    EvPerms <- MCEvPerms
    Templates <- MCTemplates
    Slots <- MCSlots
    AdminRole = ZA
    DeployerOf <- MCDeployerOf
    MaxRequests = 3
    MaxRoles = 1
    Starts <- MCStarts
SPECIFICATION Spec
SYMMETRY Symmetry
INVARIANTS RoleScope OnlyApproved TellsOnlyOwn TrailTellsVisible DeletedOrgInert
PROPERTIES GrantsWithinReach OwnRowsOnly
CHECK_DEADLOCK FALSE
