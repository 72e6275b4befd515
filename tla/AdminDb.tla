------------------------------ MODULE AdminDb ------------------------------
(***************************************************************************)
(* The tables that the administration of a zone and of its organizations   *)
(* writes, who may write them, and how a request meets the others.         *)
(*                                                                         *)
(* A request is two steps or more.  It arrives: the session hook, the      *)
(* pre-handler and the handler read the tables and check them, and what    *)
(* they read is kept with the request.  Then it lands: its last            *)
(* transaction writes, and checks only what its WHERE clauses, its row     *)
(* locks and the constraints of the tables check.  Every other request may *)
(* land in between.  A request that is refused changes nothing and is no   *)
(* step.  Zone stands for a null organization_id.                          *)
(***************************************************************************)
EXTENDS Naturals, FiniteSets

CONSTANTS
    Zone, Orgs, Users, Roles, Apps, Addrs, FnPerms, EvPerms, Templates, NoTemplate,
    AdminRole,    \* ADMIN_ROLE_ID
    DeployerOf,   \* the user whose deployment claims an address
    Slots, MaxRequests,
    MaxRoles,     \* bound on the roles that a request names
    Starts        \* where a behaviour may start: tables, and the requests that then come

VARIABLES
    db,        \* the tables
    req,       \* the requests in flight
    issued,    \* how many there were
    menu,      \* the kinds of requests that come
    raced,     \* history: subjects of a request that landed when what it had checked no
               \* longer held, and roles that changed hands
    events,    \* audit events of requests that have answered, not written yet
    trail,     \* the audit rows of machine credentials, as they were written
    approved   \* history: the flags in force that a zone operator put there, last of all

vars == <<db, req, issued, menu, events, trail, raced, approved>>

Scopes == Orgs \cup {Zone}
\* A role is an admin role when its permissions exceed what an organization may grant.
RoleRows == [state : {"none", "live", "gone"}, org : Scopes, admin : BOOLEAN, system : BOOLEAN]
UserRows == [live : BOOLEAN, org : Scopes, wallet : BOOLEAN]

\* links are the organizations a credential acts for.  An id is used once.
AppRows == [state : {"none", "live", "gone"}, owner : Scopes, roles : SUBSET Roles, links : SUBSET Orgs]
Deployed == [live : BOOLEAN, owner : Scopes, template : Templates \cup {NoTemplate}, disclose : BOOLEAN]
FnRows == [live : BOOLEAN, addr : Addrs, orgOnly : BOOLEAN, umbrella : BOOLEAN, roles : SUBSET Roles]
EvRows == [live : BOOLEAN, addr : Addrs, orgOnly : BOOLEAN, roles : SUBSET Roles]

\* holds is user_roles, defaults and tenant the roles stamped on new members and tenant
\* users, idp the organizations with an identity provider, keys the credentials with an
\* active API key, umbrella the templates that carry an umbrella permission.
Tables ==
    [multi : BOOLEAN, quota : Nat,
     org : [Orgs -> {"none", "live", "deleted"}], user : [Users -> UserRows],
     holds : SUBSET (Users \X Roles), role : [Roles -> RoleRows],
     defaults : [Orgs -> SUBSET Roles], tenant : SUBSET Roles, pending : SUBSET (Orgs \X Users),
     idp : SUBSET Orgs,
     app : [Apps -> AppRows], keys : SUBSET Apps, ips : SUBSET Apps,
     contract : [Addrs -> Deployed], fn : [FnPerms -> FnRows], ev : [EvPerms -> EvRows],
     umbrella : SUBSET Templates]

ASSUME AdminAssumption ==
    /\ Zone \notin Orgs /\ NoTemplate \notin Templates
    /\ AdminRole \in Roles /\ DeployerOf \in [Addrs -> Users]
    /\ MaxRequests \in Nat /\ MaxRoles \in Nat

\* A behaviour starts where nothing has been deleted yet.  Every organization has the id of its
\* admin role set aside, every user that is there holds roles of its organization, or of the
\* zone in the only organization, and what refers to a row refers to one that is there.
Orderly(d) ==
    /\ \A o \in Orgs : d.org[o] # "deleted" /\ \E r \in Roles : d.role[r].system /\ d.role[r].org = o
    /\ \A r \in Roles : d.role[r].state # "gone"
    /\ \A h \in d.holds :
         /\ d.user[h[1]].live /\ d.role[h[2]].state = "live"
         /\ d.role[h[2]].org = d.user[h[1]].org \/ (~d.multi /\ d.role[h[2]].org = Zone)
    /\ \A p \in Apps : \A o \in d.app[p].links \cup ({d.app[p].owner} \ {Zone}) : d.org[o] = "live"
    /\ \A p \in d.keys \cup d.ips : d.app[p].state = "live"
    /\ \A p \in FnPerms : d.fn[p].live => d.contract[d.fn[p].addr].live
    /\ \A p \in EvPerms : d.ev[p].live => d.contract[d.ev[p].addr].live
ASSUME StartsOrderly == \A start \in Starts : start.db \in Tables /\ Orderly(start.db)

-----------------------------------------------------------------------------
(* Who may                                                                 *)

RolesOf(u) == {r \in Roles : <<u, r>> \in db.holds}
LiveRole(r) == db.role[r].state = "live"
LiveApp(p) == db.app[p].state = "live"
AllLive(R) == \A r \in R : LiveRole(r)
Live(o) == db.org[o] = "live"

\* A user with a session: a member of a deleted organization has none.
SignedIn(u) == db.user[u].live /\ (db.user[u].org # Zone => Live(db.user[u].org))

\* hasZoneSystemPermission, hasSystemPermission (admin_write)
ZoneAdmin(u) == SignedIn(u) /\ \E r \in RolesOf(u) : db.role[r].admin /\ db.role[r].org = Zone

OrgAdmin(u, o) == SignedIn(u) /\ \E r \in RolesOf(u) : db.role[r].admin /\ db.role[r].org \in {Zone, o}

\* The routes of /organizations/:id that look the organization up.
AdminsOwn(u, o) == db.multi /\ o # Zone /\ OrgAdmin(u, o) /\ Live(o)

\* requireM2mAppOrgAssociation, on a credential that authenticates: its own organization and the one
\* it is linked to are live.  A role of the organization must grant what it does.
Authenticates(p) ==
    /\ LiveApp(p) /\ p \in db.keys /\ p \in db.ips
    /\ db.app[p].owner # Zone => Live(db.app[p].owner)
ActsFor(p, o) ==
    /\ Authenticates(p) /\ o \in db.app[p].links /\ Live(o)
    /\ \E r \in db.app[p].roles : db.role[r].org \in {Zone, o}

\* Users are given roles of their organization, zone users those of the zone; where there is
\* one organization only, members may hold zone roles too (allowZoneRoles).
Assignable(r, o) == LiveRole(r) /\ (db.role[r].org = o \/ (~db.multi /\ db.role[r].org = Zone))

\* assertRolesMatchOrganization
RolesMatch(R, o) == \A r \in R : Assignable(r, o)

-----------------------------------------------------------------------------
(* Flags only a zone operator may set, on contracts of organizations       *)

Owned(d, a) == d.contract[a].live /\ d.contract[a].owner # Zone
Umbrellas(d) == {p \in FnPerms : d.fn[p].live /\ d.fn[p].umbrella /\ Owned(d, d.fn[p].addr)}
Disclosed(d) == {a \in Addrs : Owned(d, a) /\ d.contract[a].disclose}
FromTemplate(d) == {a \in Addrs : Owned(d, a) /\ d.contract[a].template \in d.umbrella}
InForce(d) ==
    {<<"umbrella", p, d.fn[p].addr>> : p \in Umbrellas(d)}
    \cup {<<"disclose", a, a>> : a \in Disclosed(d)}
    \cup {<<"template", d.contract[a].template, a>> : a \in FromTemplate(d)}

-----------------------------------------------------------------------------
(* Requests                                                                *)

RoleSets == {R \in SUBSET Roles : Cardinality(R) <= MaxRoles}
Idle == [kind |-> "idle"]
Serving(s, kind) == req[s].kind = kind

Due(s, kind) == req[s] = Idle /\ issued < MaxRequests /\ kind \in menu

\* q.zone: it comes from a zone operator, or from the system itself.
Arrive(s, q) ==
    /\ req' = [req EXCEPT ![s] = q] /\ issued' = issued + 1
    /\ UNCHANGED <<db, menu, events, trail, raced, approved>>
=============================================================================
