----------------------------- MODULE Directory -----------------------------
(***************************************************************************)
(* Organizations, users, roles, machine credentials and tenants: what a    *)
(* zone operator does to them on the zone's routes, an organization's      *)
(* admin on /organizations/:id, a machine credential for an organization   *)
(* it is linked to, and a first login.                                     *)
(***************************************************************************)
EXTENDS AuditTrail

MayHold(u, R) == \A r \in R : Assignable(r, db.user[u].org)
Grant(u, R) == {u} \X R
Without(u) == {h \in db.holds : h[1] # u}
NewUser(u, o, R, wallet) ==
    [db EXCEPT !.user[u] = [live |-> TRUE, org |-> o, wallet |-> wallet],
               !.holds = Without(u) \cup Grant(u, R)]

-----------------------------------------------------------------------------
(* Organizations                                                           *)

NonDeleted == Cardinality({o \in Orgs : Live(o)})

\* A default role is stamped on members: never a system role.
MayDefault(R, o) == \A r \in R : Assignable(r, o) /\ ~db.role[r].system

\* The count is read before the transaction of the insertion.
OrgInserted(q) ==
    IF db.org[q.org] = "none" /\ AllLive(q.roles)
    THEN [db EXCEPT !.org[q.org] = "live", !.defaults[q.org] = q.roles] ELSE db
CreateOrg(s) ==
    \/ Due(s, "createOrg") /\ \E u \in Users, o \in Orgs, R \in RoleSets :
         /\ ZoneAdmin(u) /\ db.org[o] = "none" /\ NonDeleted < db.quota /\ MayDefault(R, o)
         /\ Arrive(s, [kind |-> "createOrg", by |-> u, zone |-> TRUE, org |-> o, roles |-> R])
    \/ Serving(s, "createOrg") /\ Land(s, {req[s].org}, NonDeleted < db.quota, OrgInserted(req[s]))

OrgUpdated(q) == IF AllLive(q.roles) THEN [db EXCEPT !.defaults[q.org] = q.roles] ELSE db
UpdateOrg(s) ==
    \/ Due(s, "updateOrg") /\ \E u \in Users, o \in Orgs, R \in RoleSets :
         /\ ZoneAdmin(u) /\ Live(o) /\ MayDefault(R \ db.defaults[o], o)
         /\ Arrive(s, [kind |-> "updateOrg", by |-> u, zone |-> TRUE, org |-> o, roles |-> R])
    \/ Serving(s, "updateOrg") /\ Land(s, {req[s].org}, Live(req[s].org), OrgUpdated(req[s]))

\* Mutant of Released: members keep their wallets.
ReleasesNone(o) == {}

\* deleteOrganizationAndRevokeAccess, one transaction: besides the row, the API keys of the
\* credentials it owns and the wallets of its members.
Released(o) == {u \in Users : db.user[u].org = o}
OrgRevoked(o, released) ==
    [db EXCEPT !.org[o] = "deleted",
               !.keys = {p \in @ : db.app[p].owner # o},
               !.user = [u \in Users |-> IF u \in released THEN [@[u] EXCEPT !.wallet = FALSE] ELSE @[u]]]
DeleteOrg(s) ==
    \/ Due(s, "deleteOrg") /\ \E u \in Users, o \in Orgs :
         ZoneAdmin(u) /\ Live(o) /\ Arrive(s, [kind |-> "deleteOrg", by |-> u, zone |-> TRUE, org |-> o])
    \/ LET o == req[s].org IN
         Serving(s, "deleteOrg") /\ Land(s, {o}, Live(o), OrgRevoked(o, Released(o)))

\* Pending admins: seeded and withdrawn by an operator.
SeedAdmin(s) ==
    \/ Due(s, "seedAdmin") /\ \E u, v \in Users, o \in Orgs :
         /\ ZoneAdmin(u) /\ Live(o) /\ <<o, v>> \notin db.pending
         /\ Arrive(s, [kind |-> "seedAdmin", by |-> u, zone |-> TRUE, org |-> o, user |-> v])
    \/ /\ Serving(s, "seedAdmin")
       /\ Land(s, {}, TRUE, [db EXCEPT !.pending = @ \cup {<<req[s].org, req[s].user>>}])

WithdrawAdmin(s) ==
    \/ Due(s, "withdrawAdmin") /\ \E u \in Users, x \in db.pending :
         ZoneAdmin(u) /\ Arrive(s, [kind |-> "withdrawAdmin", by |-> u, zone |-> TRUE, org |-> x[1], user |-> x[2]])
    \/ /\ Serving(s, "withdrawAdmin")
       /\ Land(s, {}, TRUE, [db EXCEPT !.pending = @ \ {<<req[s].org, req[s].user>>}])

\* The identity provider of an organization: its row outlives the organization.
IdpSet(q) == [db EXCEPT !.idp = IF q.on THEN @ \cup {q.org} ELSE @ \ {q.org}]
SetIdp(s) ==
    \/ Due(s, "setIdp") /\ \E u \in Users, o \in Orgs, on \in BOOLEAN :
         /\ ZoneAdmin(u) /\ (IF on THEN Live(o) ELSE o \in db.idp)
         /\ Arrive(s, [kind |-> "setIdp", by |-> u, zone |-> TRUE, org |-> o, on |-> on])
    \/ Serving(s, "setIdp") /\ Land(s, {}, TRUE, IdpSet(req[s]))

\* resolveProvider: the issuer is the zone's, or a live organization's where there are several.
Issues(o) == o = Zone \/ (db.multi /\ o \in db.idp /\ Live(o))

\* A first login, through the identity provider of an organization or of the zone: a pending
\* admin of the organization becomes its admin, once; the admin role is created when it is
\* first needed (orgAdminRole).  The slot is read at the start of the
\* transaction and must still be there at its end.
OrgAdminRole(o) == CHOOSE r \in Roles : db.role[r].system /\ db.role[r].org = o
FirstRoles(o, u) == IF <<o, u>> \in db.pending THEN {OrgAdminRole(o)} ELSE {}
Bootstrapped(q) ==
    IF db.user[q.by].live \/ (q.roles # {} /\ <<q.org, q.by>> \notin db.pending) THEN db
    ELSE [NewUser(q.by, q.org, q.roles, FALSE) EXCEPT
            !.pending = IF q.roles = {} THEN @ ELSE @ \ {<<q.org, q.by>>},
            !.role = [r \in Roles |-> IF r \in q.roles THEN [@[r] EXCEPT !.state = "live"] ELSE @[r]]]
FirstLogin(s) ==
    \/ Due(s, "firstLogin") /\ \E u \in Users, o \in Scopes :
         /\ ~db.user[u].live /\ Issues(o)
         /\ Arrive(s, [kind |-> "firstLogin", by |-> u, zone |-> FALSE, org |-> o, roles |-> FirstRoles(o, u)])
    \/ LET q == req[s] IN
         Serving(s, "firstLogin") /\ Land(s, {q.by}, q.org # Zone => Live(q.org), Bootstrapped(q))

\* autoAssignAdminRole: a zone user whose subject is configured as an admin; the whole list of
\* roles read at the login is written back.
Elevate(s) ==
    \/ Due(s, "elevate") /\ \E u \in Users :
         /\ SignedIn(u) /\ db.user[u].org = Zone /\ AdminRole \notin RolesOf(u)
         /\ Arrive(s, [kind |-> "elevate", by |-> u, zone |-> TRUE, org |-> Zone, roles |-> RolesOf(u) \cup {AdminRole}])
    \/ LET u == req[s].by IN
         /\ Serving(s, "elevate")
         /\ Land(s, {u}, db.user[u].org = Zone /\ RolesOf(u) \subseteq req[s].roles,
                 IF db.user[u].live /\ MayHold(u, req[s].roles)
                 THEN [db EXCEPT !.holds = Without(u) \cup Grant(u, req[s].roles)] ELSE db)

-----------------------------------------------------------------------------
(* Members                                                                 *)

\* Mutant of MayJoin: the roles the user holds do not matter.
MayJoinWithRoles(u, o) == Live(o) /\ db.user[u].live /\ db.user[u].org = Zone

\* addUser; where there are several organizations a user must hold no zone role.
MayJoin(u, o) ==
    /\ Live(o) /\ db.user[u].live /\ db.user[u].org = Zone
    /\ db.multi => RolesOf(u) = {}

Joined(q) ==
    IF db.user[q.user].live /\ db.user[q.user].org = Zone THEN [db EXCEPT !.user[q.user].org = q.org] ELSE db
AddUser(s) ==
    \/ Due(s, "addUser") /\ \E u, v \in Users, o \in Orgs :
         /\ ZoneAdmin(u) /\ MayJoin(v, o)
         /\ Arrive(s, [kind |-> "addUser", by |-> u, zone |-> TRUE, org |-> o, user |-> v])
    \/ LET q == req[s] IN
         Serving(s, "addUser") /\ Land(s, {q.user}, MayJoin(q.user, q.org), Joined(q))

\* inviteMemberByOidcSub: an account before its first login.
Invited(q) == IF db.user[q.user].live THEN db ELSE NewUser(q.user, q.org, {}, FALSE)
InviteMember(s) ==
    \/ Due(s, "invite") /\ \E u, v \in Users, o \in Orgs :
         /\ db.multi /\ OrgAdmin(u, o) /\ Live(o) /\ ~db.user[v].live
         /\ Arrive(s, [kind |-> "invite", by |-> u, zone |-> ZoneAdmin(u), org |-> o, user |-> v])
    \/ Serving(s, "invite") /\ Land(s, {req[s].user}, Live(req[s].org), Invited(req[s]))

\* removeUser: the rows of the organization's roles, then the membership.  Another
\* transaction's rows are seen once they are committed.
RoleOwnedBy(o, r) == db.role[r].org = o
Removed(q) ==
    IF ~db.user[q.user].live THEN db
    ELSE [db EXCEPT !.user[q.user].org = Zone,
                    !.holds = {h \in @ : h[1] # q.user \/ ~RoleOwnedBy(q.org, h[2])}]
RemoveUser(s) ==
    \/ Due(s, "removeUser") /\ \E u, v \in Users, o \in Orgs :
         /\ OrgAdmin(u, o) /\ Live(o) /\ db.user[v].live /\ db.user[v].org = o
         /\ Arrive(s, [kind |-> "removeUser", by |-> u, zone |-> ZoneAdmin(u), org |-> o, user |-> v])
    \/ LET q == req[s] IN
         Serving(s, "removeUser") /\ Land(s, {q.user}, db.user[q.user].org = q.org, Removed(q))

\* Mutant of WithinReach: the ceiling is left out.
OwnRoles(R, held, o, zone) == \A r \in R : LiveRole(r) /\ RoleOwnedBy(o, r)

\* The roles an organization's admin may give a member: its own, and of those the member
\* does not hold yet only what is within the ceiling, or the admin role of the organization.
WithinReach(R, held, o, zone) ==
    /\ \A r \in R : LiveRole(r) /\ RoleOwnedBy(o, r)
    /\ zone \/ \A r \in R \ held : db.role[r].system \/ ~db.role[r].admin

Member(u, o) == db.user[u].live /\ db.user[u].org = o

\* setMemberRoles reads, writes, reads the member once more and commits.
RolesSet(q) ==
    LET rows == {h \in Grant(q.user, q.add) : LiveRole(h[2])} IN
    IF db.user[q.user].live THEN [db EXCEPT !.holds = (@ \ Grant(q.user, q.del)) \cup rows] ELSE db
SetMemberRoles(s) ==
    \/ Due(s, "setRoles") /\ \E u, v \in Users, o \in Orgs, R \in RoleSets :
         LET held == {r \in RolesOf(v) : RoleOwnedBy(o, r)} IN
         /\ db.multi /\ OrgAdmin(u, o) /\ Live(o) /\ Member(v, o)
         /\ WithinReach(R, held, o, ZoneAdmin(u))
         /\ Arrive(s, [kind |-> "setRoles", by |-> u, zone |-> ZoneAdmin(u), org |-> o, user |-> v,
                       add |-> R \ held, del |-> held \ R])
    \/ /\ Serving(s, "setRoles")
       /\ req' = [req EXCEPT ![s] = IF Live(@.org) /\ Member(@.user, @.org)
                                    THEN [@ EXCEPT !.kind = "commitRoles"] ELSE Idle]
       /\ UNCHANGED <<db, issued, menu, events, trail, raced, approved>>
    \/ LET q == req[s] IN
         Serving(s, "commitRoles") /\ Land(s, {q.user}, Member(q.user, q.org), RolesSet(q))

-----------------------------------------------------------------------------
(* Users, on the zone's routes                                             *)

\* assertManagedHere
ManagedHere(u) == db.user[u].live /\ (db.multi => db.user[u].org = Zone)

\* users.create
MemberCreated(q) ==
    IF ~db.user[q.user].live /\ RolesMatch(q.roles, q.org) THEN NewUser(q.user, q.org, q.roles, q.wallet) ELSE db
CreateUser(s) ==
    \/ Due(s, "createUser") /\ \E u, v \in Users, R \in RoleSets, w \in BOOLEAN :
         /\ ZoneAdmin(u)
         /\ Arrive(s, [kind |-> "createUser", by |-> u, zone |-> TRUE, org |-> Zone, user |-> v, roles |-> R, wallet |-> w])
    \/ LET q == req[s] IN
         /\ Serving(s, "createUser")
         /\ Land(s, {}, TRUE, MemberCreated(q))

\* The user's organization is read outside the transaction, and the roles are held against that.
UserUpdated(q) ==
    IF db.user[q.user].live /\ AllLive(q.roles)
    THEN [db EXCEPT !.user[q.user].wallet = q.wallet,
                    !.holds = Without(q.user) \cup Grant(q.user, q.roles)] ELSE db
UpdateUser(s) ==
    \/ Due(s, "updateUser") /\ \E u, v \in Users, R \in RoleSets, w \in BOOLEAN :
         /\ ZoneAdmin(u) /\ ManagedHere(v) /\ RolesMatch(R, db.user[v].org)
         /\ Arrive(s, [kind |-> "updateUser", by |-> u, zone |-> TRUE, org |-> db.user[v].org, user |-> v,
                       roles |-> R, wallet |-> w])
    \/ LET q == req[s] IN
         /\ Serving(s, "updateUser")
         /\ Land(s, {q.user}, db.user[q.user].org = q.org /\ RolesMatch(q.roles, q.org) /\ (q.org # Zone => Live(q.org)),
                 UserUpdated(q))

UserDeleted(v) == [db EXCEPT !.user[v] = [live |-> FALSE, org |-> Zone, wallet |-> FALSE], !.holds = Without(v)]
DeleteUser(s) ==
    \/ Due(s, "deleteUser") /\ \E u, v \in Users :
         /\ ZoneAdmin(u) /\ ManagedHere(v)
         /\ Arrive(s, [kind |-> "deleteUser", by |-> u, zone |-> TRUE, org |-> Zone, user |-> v])
    \/ LET v == req[s].user IN
         /\ Serving(s, "deleteUser")
         /\ Land(s, {v}, ManagedHere(v), UserDeleted(v))

-----------------------------------------------------------------------------
(* Roles                                                                   *)

\* A zone operator creates a role in the zone or, by the body, in an organization, and may give
\* it any permission; an organization's admin creates its own, within the ceiling.
MayCreateRole(u, o, admin) == ZoneAdmin(u) \/ (AdminsOwn(u, o) /\ ~admin)
RoleInserted(q) ==
    IF db.role[q.role].state # "none" THEN db
    ELSE [db EXCEPT !.role[q.role] = [state |-> "live", org |-> q.org, admin |-> q.admin, system |-> FALSE]]
CreateRole(s) ==
    \/ Due(s, "createRole") /\ \E u \in Users, r \in Roles, o \in Scopes, admin \in BOOLEAN :
         /\ db.role[r].state = "none" /\ ~db.role[r].system /\ MayCreateRole(u, o, admin)
         /\ Arrive(s, [kind |-> "createRole", by |-> u, zone |-> ZoneAdmin(u), org |-> o, role |-> r,
                       admin |-> admin])
    \/ Serving(s, "createRole") /\ Land(s, {req[s].role}, TRUE, RoleInserted(req[s]))

\* A role is looked up and written in one scope.  On the zone's routes the body says whose role
\* it becomes, and who holds it is not asked.
Scoped(r, o) == LiveRole(r) /\ db.role[r].org = o /\ ~db.role[r].system
OnRoles(u, o) == IF o = Zone THEN ZoneAdmin(u) ELSE db.multi /\ OrgAdmin(u, o)
RoleUpdated(q) ==
    IF Scoped(q.role, q.org) THEN [db EXCEPT !.role[q.role].org = q.moved, !.role[q.role].admin = q.admin] ELSE db
UpdateRole(s) ==
    \/ Due(s, "updateRole") /\ \E u \in Users, r \in Roles, o, to \in Scopes, admin \in BOOLEAN :
         /\ Scoped(r, o)
         /\ OnRoles(u, o) /\ (o # Zone => ~admin /\ to = o)
         /\ Arrive(s, [kind |-> "updateRole", by |-> u, zone |-> ZoneAdmin(u), org |-> o, role |-> r,
                       admin |-> admin, moved |-> to])
    \/ LET q == req[s] IN
         Serving(s, "updateRole") /\ Land(s, {q.role}, q.moved = q.org, RoleUpdated(q))

\* Everything that refers to a role goes with it (ON DELETE CASCADE).
DropRole(r) ==
    [db EXCEPT !.role = [@ EXCEPT ![r].state = "gone"],
               !.holds = {h \in @ : h[2] # r},
               !.defaults = [o \in Orgs |-> @[o] \ {r}], !.tenant = @ \ {r},
               !.app = [p \in Apps |-> [db.app[p] EXCEPT !.roles = @ \ {r}]],
               !.fn = [p \in FnPerms |-> [db.fn[p] EXCEPT !.roles = @ \ {r}]],
               !.ev = [p \in EvPerms |-> [db.ev[p] EXCEPT !.roles = @ \ {r}]]]

DeleteRole(s) ==
    \/ Due(s, "deleteRole") /\ \E u \in Users, r \in Roles, o \in Scopes :
         /\ Scoped(r, o) /\ OnRoles(u, o)
         /\ Arrive(s, [kind |-> "deleteRole", by |-> u, zone |-> ZoneAdmin(u), org |-> o, role |-> r])
    \/ LET q == req[s] IN
         /\ Serving(s, "deleteRole")
         /\ Land(s, {q.role}, TRUE, IF Scoped(q.role, q.org) THEN DropRole(q.role) ELSE db)

-----------------------------------------------------------------------------
(* Machine credentials                                                     *)

Owns(o, p) == LiveApp(p) /\ db.app[p].owner = o

\* associateOrgRoles: no system role is within the ceiling either.
MayAttach(R, o) == \A r \in R : LiveRole(r) /\ RoleOwnedBy(o, r) /\ ~db.role[r].admin

\* An operator's credentials belong to the zone and take any role; an organization's take its
\* own, and are linked to none.  The operator may edit an organization's too.
AppInserted(q) ==
    IF db.app[q.app].state # "none" \/ ~AllLive(q.roles) THEN db
    ELSE [db EXCEPT !.app[q.app] = [state |-> "live", owner |-> q.org, links |-> q.links, roles |-> q.roles]]
ZoneCreatesApp(u, R, L) == ZoneAdmin(u) /\ AllLive(R) /\ \A l \in L : Live(l)
CreateApp(s) ==
    \/ Due(s, "createApp") /\ \E u \in Users, p \in Apps, o \in Scopes, R \in RoleSets, L \in SUBSET Orgs :
         /\ db.app[p].state = "none"
         /\ IF o = Zone THEN ZoneCreatesApp(u, R, L) ELSE AdminsOwn(u, o) /\ MayAttach(R, o) /\ L = {}
         /\ Arrive(s, [kind |-> "createApp", by |-> u, zone |-> ZoneAdmin(u), org |-> o, app |-> p, roles |-> R, links |-> L])
    \/ Serving(s, "createApp") /\ Land(s, {req[s].app}, TRUE, AppInserted(req[s]))

\* The row is locked before it is read, so an update checks what it writes over.  onZone is the
\* operator's route, which looks the credential up by its id alone.
AppUpdated(q) ==
    LET added == q.roles \ db.app[q.app].roles IN
    IF LiveApp(q.app) /\ (IF q.org = Zone THEN AllLive(added) ELSE Owns(q.org, q.app) /\ MayAttach(added, q.org))
    THEN [db EXCEPT !.app[q.app].roles = q.roles] ELSE db
OnApps(u, o) == IF o = Zone THEN ZoneAdmin(u) ELSE AdminsOwn(u, o)
UpdateApp(s) ==
    \/ Due(s, "updateApp") /\ \E u \in Users, p \in Apps, o \in Scopes, R \in RoleSets :
         /\ OnApps(u, o)
         /\ Arrive(s, [kind |-> "updateApp", by |-> u, zone |-> ZoneAdmin(u), org |-> o, app |-> p, roles |-> R])
    \/ Serving(s, "updateApp") /\ Land(s, {req[s].app}, TRUE, AppUpdated(req[s]))

AppDeleted(q) ==
    IF LiveApp(q.app) /\ (q.org = Zone \/ Owns(q.org, q.app))
    THEN [db EXCEPT !.app[q.app] = [state |-> "gone", owner |-> Zone, roles |-> {}, links |-> {}],
                    !.keys = @ \ {q.app}, !.ips = @ \ {q.app}]
    ELSE db
DeleteApp(s) ==
    \/ Due(s, "deleteApp") /\ \E u \in Users, p \in Apps, o \in Scopes :
         /\ OnApps(u, o)
         /\ Arrive(s, [kind |-> "deleteApp", by |-> u, zone |-> ZoneAdmin(u), org |-> o, app |-> p])
    \/ Serving(s, "deleteApp") /\ Land(s, {req[s].app}, TRUE, AppDeleted(req[s]))

\* PUT /m2m-applications/:id/organizations, for any credential.
Relinked(q) ==
    IF LiveApp(q.app) /\ \A l \in q.links : Live(l) THEN [db EXCEPT !.app[q.app].links = q.links] ELSE db
LinkApp(s) ==
    \/ Due(s, "linkApp") /\ \E u \in Users, p \in Apps, L \in SUBSET Orgs :
         ZoneAdmin(u) /\ Arrive(s, [kind |-> "linkApp", by |-> u, zone |-> TRUE, org |-> Zone, app |-> p, links |-> L])
    \/ Serving(s, "linkApp") /\ Land(s, {req[s].app}, TRUE, Relinked(req[s]))

\* Mutant of OwnsCredential: a credential that is linked to the organization will do.
SeesCredential(o, p) == Owns(o, p) \/ o \in db.app[p].links

\* assertOrgOwnsM2mApp
OwnsCredential(o, p) == Live(o) /\ Owns(o, p)

\* An API key and an address on the allow-list: made, and taken away.
KeysChanged(q) == [db EXCEPT !.keys = IF q.on THEN @ \cup {q.app} ELSE @ \ {q.app}]
IpsChanged(q) == [db EXCEPT !.ips = IF q.on THEN @ \cup {q.app} ELSE @ \ {q.app}]
ZoneSetsAccess(u, p) == ZoneAdmin(u) /\ LiveApp(p)
SetAccess(s) ==
    \/ Due(s, "access") /\ \E u \in Users, p \in Apps, o \in Scopes, what \in {"key", "ip"}, on \in BOOLEAN :
         /\ IF o = Zone THEN ZoneSetsAccess(u, p) ELSE AdminsOwn(u, o) /\ OwnsCredential(o, p)
         /\ Arrive(s, [kind |-> "access", by |-> u, zone |-> ZoneAdmin(u), org |-> o, app |-> p, what |-> what, on |-> on])
    \/ LET q == req[s] IN
         /\ Serving(s, "access")
         /\ Land(s, {q.app}, TRUE,
                 IF ~LiveApp(q.app) THEN db ELSE IF q.what = "key" THEN KeysChanged(q) ELSE IpsChanged(q))

\* POST /organizations/:id/users/create: the default roles are read first.
AppCreatesUser(s) ==
    \/ Due(s, "appUser") /\ \E p \in Apps, o \in Orgs, v \in Users, w \in BOOLEAN :
         /\ ActsFor(p, o) /\ ~db.user[v].live
         /\ Arrive(s, [kind |-> "appUser", zone |-> FALSE, org |-> o, user |-> v, roles |-> db.defaults[o], wallet |-> w])
    \/ LET q == req[s] IN
         /\ Serving(s, "appUser")
         /\ Land(s, {q.user}, Live(q.org), MemberCreated(q))

WalletAdded(v) == IF db.user[v].live THEN [db EXCEPT !.user[v].wallet = TRUE] ELSE db
AppAddsWallet(s) ==
    \/ Due(s, "appWallet") /\ \E p \in Apps, o \in Orgs, v \in Users :
         /\ ActsFor(p, o) /\ Member(v, o) /\ ~db.user[v].wallet
         /\ Arrive(s, [kind |-> "appWallet", zone |-> FALSE, org |-> o, user |-> v])
    \/ LET v == req[s].user IN
         /\ Serving(s, "appWallet")
         /\ Land(s, {v}, Member(v, req[s].org) /\ Live(req[s].org), WalletAdded(v))

-----------------------------------------------------------------------------
(* Tenants                                                                 *)

TenantUpdated(q) == IF AllLive(q.roles) THEN [db EXCEPT !.tenant = q.roles] ELSE db
UpdateTenant(s) ==
    \/ Due(s, "updateTenant") /\ \E u \in Users, R \in RoleSets :
         /\ ZoneAdmin(u) /\ AdminRole \notin R \ db.tenant /\ AllLive(R)
         /\ Arrive(s, [kind |-> "updateTenant", by |-> u, zone |-> TRUE, org |-> Zone, roles |-> R])
    \/ Serving(s, "updateTenant") /\ Land(s, {}, TRUE, TenantUpdated(req[s]))

\* A tenant's user is a zone user; a default of another scope makes the insertion fail.
TenantCreatesUser(s) ==
    \/ Due(s, "tenantUser") /\ \E v \in Users :
         /\ ~db.user[v].live
         /\ Arrive(s, [kind |-> "tenantUser", zone |-> TRUE, org |-> Zone, user |-> v, roles |-> db.tenant, wallet |-> TRUE])
    \/ Serving(s, "tenantUser") /\ Land(s, {req[s].user}, TRUE, MemberCreated(req[s]))

-----------------------------------------------------------------------------
DirectoryNext(s) ==
    \/ CreateOrg(s) \/ UpdateOrg(s) \/ DeleteOrg(s) \/ SeedAdmin(s) \/ WithdrawAdmin(s) \/ SetIdp(s)
    \/ FirstLogin(s) \/ Elevate(s)
    \/ AddUser(s) \/ InviteMember(s) \/ RemoveUser(s) \/ SetMemberRoles(s)
    \/ CreateUser(s) \/ UpdateUser(s) \/ DeleteUser(s)
    \/ CreateRole(s) \/ UpdateRole(s) \/ DeleteRole(s)
    \/ CreateApp(s) \/ UpdateApp(s) \/ DeleteApp(s) \/ LinkApp(s) \/ SetAccess(s)
    \/ AppCreatesUser(s) \/ AppAddsWallet(s) \/ UpdateTenant(s) \/ TenantCreatesUser(s)
=============================================================================
