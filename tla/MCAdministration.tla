-------------------------- MODULE MCAdministration --------------------------
(***************************************************************************)
(* Two organizations.  op operates the zone, alice is the admin of orgA,   *)
(* bob is what each start makes of him, carol is not known yet.  Every     *)
(* start brings the requests that may disturb one another there.           *)
(***************************************************************************)
EXTENDS Administration, TLC

CONSTANTS
    orgA, orgB, op, alice, bob, carol,
    ZA, ZR,      \* the zone's ADMIN_ROLE_ID, and a plain role
    AA, BA,      \* the admin roles of the organizations; orgB's is not created yet
    AR, AX, NR,  \* orgA's plain role, a role above the ceiling an operator gave it, a role to create
    ownApp, zoneApp, addr1, addr2, fn1, ev1, tpl1, s1, s2

MCOrgs == {orgA, orgB}
MCUsers == {op, alice, bob, carol}
MCRoles == {ZA, ZR, AA, BA, AR, AX, NR}
MCApps == {ownApp, zoneApp}
MCAddrs == {addr1, addr2}
MCFnPerms == {fn1}
MCEvPerms == {ev1}
MCTemplates == {tpl1}
MCSlots == {s1, s2}
MCDeployerOf == addr1 :> bob @@ addr2 :> alice

role(state, o, admin, system) == [state |-> state, org |-> o, admin |-> admin, system |-> system]
user(o, w) == [live |-> TRUE, org |-> o, wallet |-> w]

\* Several organizations, orgA's contract with its flags set by an operator, bob in the zone.
Many ==
    [multi |-> TRUE, quota |-> 2,
     org |-> orgA :> "live" @@ orgB :> "live",
     user |-> op :> user(Zone, FALSE) @@ alice :> user(orgA, FALSE) @@ bob :> user(Zone, FALSE)
              @@ carol :> [user(Zone, FALSE) EXCEPT !.live = FALSE],
     holds |-> {<<op, ZA>>, <<alice, AA>>},
     role |-> ZA :> role("live", Zone, TRUE, TRUE) @@ ZR :> role("live", Zone, FALSE, FALSE)
              @@ AA :> role("live", orgA, TRUE, TRUE) @@ BA :> role("none", orgB, TRUE, TRUE)
              @@ AR :> role("live", orgA, FALSE, FALSE) @@ AX :> role("live", orgA, TRUE, FALSE)
              @@ NR :> role("none", Zone, FALSE, FALSE),
     defaults |-> orgA :> {AR} @@ orgB :> {}, tenant |-> {ZR},
     pending |-> {<<orgB, carol>>}, idp |-> {orgB},
     app |-> ownApp :> [state |-> "live", owner |-> orgA, roles |-> {AR}, links |-> {}]
             @@ zoneApp :> [state |-> "live", owner |-> Zone, roles |-> {AR}, links |-> {orgA}],
     keys |-> {ownApp, zoneApp}, ips |-> {ownApp, zoneApp},
     contract |-> addr1 :> [live |-> TRUE, owner |-> orgA, template |-> NoTemplate, disclose |-> TRUE]
                  @@ addr2 :> NotRegistered,
     fn |-> fn1 :> [live |-> TRUE, addr |-> addr1, orgOnly |-> TRUE, umbrella |-> TRUE, roles |-> {AR}],
     ev |-> ev1 :> [live |-> TRUE, addr |-> addr1, orgOnly |-> TRUE, roles |-> {AR}],
     umbrella |-> {}]

BobIn(d, o, R) == [d EXCEPT !.user[bob].org = o, !.user[bob].wallet = TRUE, !.holds = @ \cup ({bob} \X R)]
OnlyOne == [Many EXCEPT !.multi = FALSE, !.org[orgB] = "none"]
ZoneDefault == [OnlyOne EXCEPT !.defaults[orgA] = {ZR}]

\* The zone's credential is yet to be created.
NoZoneApp == [Many EXCEPT !.app[zoneApp] = [state |-> "none", owner |-> Zone, roles |-> {}, links |-> {}],
                          !.keys = {ownApp}, !.ips = {ownApp}]
PeersApp == [Many EXCEPT !.app[ownApp].owner = orgB, !.app[ownApp].roles = {}]

\* The template is an umbrella one and no contract is linked; addr1 is the zone's.
UmbrellaTemplate == [Many EXCEPT !.umbrella = {tpl1}]
ZoneContract == [Many EXCEPT !.contract[addr1].owner = Zone]

From(d, kinds) == [db |-> d, menu |-> kinds]

MCStarts ==
    {From(Many, {"addUser", "updateUser", "updateRole"}),
     From(BobIn(Many, Zone, {ZR}), {"addUser", "updateUser", "elevate", "deleteRole"}),
     From(BobIn(Many, orgA, {AR}), {"addUser", "removeUser", "setRoles", "deleteRole"}),
     From(BobIn(OnlyOne, orgA, {ZR}), {"removeUser", "updateUser", "deleteOrg", "deleteUser"}),
     From(OnlyOne, {"addUser", "updateUser", "createOrg", "updateOrg", "tenantUser"}),
     From(Many, {"firstLogin", "setIdp", "invite", "seedAdmin", "withdrawAdmin", "createUser", "deleteOrg"}),
     From(BobIn(Many, orgA, {}), {"deleteOrg", "appUser", "appWallet", "access"}),
     From(Many, {"appUser", "updateOrg", "updateRole", "updateTenant", "tenantUser"}),
     From(ZoneDefault, {"appUser", "appWallet", "updateOrg"}),
     From(Many, {"createRole", "updateRole", "deleteRole", "setRoles"}),
     From(NoZoneApp, {"createApp", "updateApp", "deleteApp", "linkApp"}),
     From(Many, {"updateApp", "deleteApp", "linkApp"}),
     From(Many, {"access", "linkApp", "read"}),
     From(Many, {"deleteOrg", "linkApp", "updateApp"}),
     From(PeersApp, {"access", "linkApp", "read"}),
     From(Many, {"putContract", "putFn", "template"}),
     From(UmbrellaTemplate, {"putContract", "template", "postContract"}),
     From(Many, {"postContract", "deleteContract", "putFn", "deleteFn", "postFn"}),
     From(Many, {"postContract", "deleteContract", "putEv", "deleteEv", "postEv"}),
     From(ZoneContract, {"read", "postFn"}),
     From(Many, {"read", "deleteContract", "postContract"})}

MembershipStarts == {From(Many, {"addUser", "updateUser"})}

Symmetry == Permutations(MCSlots)
=============================================================================
