------------------------ MODULE AdministrationProofs ------------------------
(***************************************************************************)
(* Theorems about Administration, for any organizations, users, roles,     *)
(* credentials, contracts and permissions, any number of requests at once  *)
(* and any orderly start; and about the pinned connections they write      *)
(* through (ConnectionSlots), for any pool, any reserve and any requests.  *)
(*                                                                         *)
(* Administration has some forty kinds of requests, which the proofs take  *)
(* one at a time only once: every handler is shown to be the Arrival of a  *)
(* request that is well formed, or its Landing, which changes the tables   *)
(* by the Effect of its kind; and every Effect to edit the rows of the     *)
(* tables in one of few ways (RoleEdit ... RegistryEdited).  The           *)
(* invariants and the properties follow from the edits.                    *)
(***************************************************************************)
EXTENDS Administration, ConnectionSlots, FiniteSetTheorems, TLAPS

-----------------------------------------------------------------------------
(* The inductive invariant of Administration                               *)

\* The fields of a request, by its kind.
Shape(q) ==
    q # Idle =>
        /\ q.org \in Scopes /\ q.zone \in BOOLEAN
        /\ q.kind \in {"createOrg", "updateOrg", "deleteOrg", "seedAdmin", "withdrawAdmin", "setIdp", "addUser",
                       "invite", "removeUser", "setRoles", "commitRoles", "appUser", "appWallet", "list", "readFns",
                       "readEvs", "readRole", "readKeys"} => q.org \in Orgs
        /\ q.kind \in {"seedAdmin", "withdrawAdmin", "addUser", "invite", "removeUser", "setRoles", "commitRoles",
                       "createUser", "appUser", "tenantUser", "updateUser", "deleteUser", "appWallet"} =>
             q.user \in Users
        /\ q.kind \in {"firstLogin", "elevate"} => q.by \in Users
        /\ q.kind \in {"createOrg", "updateOrg", "firstLogin", "elevate", "createUser", "appUser", "tenantUser",
                       "updateUser", "createApp", "updateApp", "updateTenant", "postFn", "putFn", "postEv", "putEv"} =>
             q.roles \in SUBSET Roles
        /\ q.kind \in {"setRoles", "commitRoles"} => q.add \in SUBSET Roles /\ q.del \in SUBSET Roles
        /\ q.kind = "list" => q.what \in Lists
        /\ q.kind = "setRoles" =>
             q = [kind |-> q.kind, by |-> q.by, zone |-> q.zone, org |-> q.org, user |-> q.user,
                  add |-> q.add, del |-> q.del]
        /\ q.kind = "clearUmbrella" =>
             q = [kind |-> q.kind, by |-> q.by, zone |-> q.zone, org |-> q.org, addr |-> q.addr, to |-> q.to,
                  template |-> q.template, disclose |-> q.disclose, read |-> q.read]
        /\ q.kind \in {"createRole", "updateRole", "deleteRole", "readRole"} => q.role \in Roles
        /\ q.kind \in {"createRole", "updateRole"} => q.admin \in BOOLEAN
        /\ q.kind = "updateRole" => q.moved \in Scopes
        /\ q.kind \in {"createApp", "updateApp", "deleteApp", "linkApp", "access", "readKeys"} => q.app \in Apps
        /\ q.kind \in {"createApp", "linkApp"} => q.links \in SUBSET Orgs
        /\ q.kind \in {"createUser", "appUser", "tenantUser", "updateUser"} => q.wallet \in BOOLEAN
        /\ q.kind \in {"postContract", "putContract", "clearUmbrella", "deleteContract", "postFn", "putFn",
                       "deleteFn", "postEv", "putEv", "deleteEv", "readFns", "readEvs"} => q.addr \in Addrs
        /\ q.kind \in {"postContract", "putContract", "clearUmbrella"} =>
             q.template \in Templates \cup {NoTemplate} /\ q.disclose \in BOOLEAN
        /\ q.kind \in {"putContract", "clearUmbrella"} => q.to \in Addrs
        /\ q.kind \in {"template", "noTemplate"} => q.template \in Templates
        /\ q.kind \in {"postFn", "putFn", "deleteFn"} => q.fn \in FnPerms
        /\ q.kind \in {"postEv", "putEv", "deleteEv"} => q.ev \in EvPerms
        /\ q.kind \in {"postFn", "putFn"} => q.umbrella \in BOOLEAN
        /\ q.kind \in {"postFn", "putFn", "postEv", "putEv"} => q.orgOnly \in BOOLEAN

\* What only an operator may ask for, and what an organization's admin may not ask for.
Scope(q) ==
    /\ q.kind \in {"createOrg", "updateOrg", "deleteOrg", "seedAdmin", "withdrawAdmin", "setIdp", "elevate",
                   "addUser", "createUser", "updateUser", "deleteUser", "linkApp", "updateTenant", "tenantUser",
                   "template", "noTemplate"} => q.zone
    /\ q.kind \in {"elevate", "createUser", "deleteUser", "linkApp", "updateTenant", "tenantUser", "template",
                   "noTemplate"} => q.org = Zone
    /\ ~q.zone => (q.org # Zone \/ q.kind = "firstLogin")
    /\ (q.kind = "updateRole" /\ q.org # Zone) => ~q.admin /\ q.moved = q.org
    /\ (~q.zone /\ q.kind = "createRole") => ~q.admin
    /\ (~q.zone /\ q.kind \in {"postContract"}) => ~q.disclose
    /\ (~q.zone /\ q.kind \in {"putContract", "clearUmbrella"}) => q.disclose = (q.addr = q.to /\ q.read)
    /\ (~q.zone /\ q.kind = "postFn") => ~q.umbrella
    /\ (~q.zone /\ q.kind = "putFn") => q.umbrella = q.read

\* A role that an organization has, or had: it never leaves the organization.
OrgRole(r, o) == db.role[r].org = o /\ (db.role[r].state # "none" \/ db.role[r].system)

\* What a request has checked that no other request can undo before it lands.
Granted(q) ==
    /\ q.kind = "firstLogin" => \A r \in q.roles : q.org \in Orgs /\ OrgRole(r, q.org) /\ db.role[r].system
    /\ q.kind = "createRole" => ~db.role[q.role].system
    /\ q.kind \in {"setRoles", "commitRoles"} =>
         /\ \A r \in q.add \cup q.del : OrgRole(r, q.org)
         /\ ~q.zone => \A r \in q.add : db.role[r].system \/ ~db.role[r].admin
    /\ (~q.zone /\ q.kind = "createApp") => \A r \in q.roles : OrgRole(r, q.org) /\ ~db.role[r].admin
    /\ (~q.zone /\ q.kind \in {"postFn", "putFn", "postEv", "putEv"}) =>
         q.org # Zone /\ \A r \in q.roles : OrgRole(r, q.org)
    /\ (q.kind = "readKeys" \/ (q.kind = "access" /\ q.org # Zone)) =>
         (db.app[q.app].state # "none" /\ (LiveApp(q.app) => db.app[q.app].owner = q.org))
    /\ q.kind \in {"readFns", "readEvs"} =>
         (db.contract[q.addr].live => (OwnerOf(q.addr) = q.org \/ q.addr \in raced))
    /\ q.kind \in {"createApp", "updateApp", "deleteApp"} => (q.org \in Orgs => db.org[q.org] # "none")
    /\ q.kind = "createApp" => \A l \in q.links : db.org[l] # "none"

\* Every request in flight was admitted.
Outstanding ==
    /\ DOMAIN req = Slots /\ req = [s \in Slots |-> req[s]]
    /\ \A s \in Slots : Shape(req[s]) /\ (req[s] # Idle => Scope(req[s]) /\ Granted(req[s]))

\* Every organization has the admin role it was created with, ready or to be created again.
AdminRoles == \A o \in Orgs : \E r \in Roles : db.role[r].system /\ db.role[r].org = o

\* The foreign keys of user_roles.
HeldRows == \A h \in db.holds : db.user[h[1]].live /\ LiveRole(h[2])

\* Nothing is attached to a role that was deleted.
Attached ==
    /\ \A p \in Apps : \A r \in db.app[p].roles : db.role[r].state # "gone"
    /\ \A p \in FnPerms : \A r \in db.fn[p].roles : db.role[r].state # "gone"
    /\ \A p \in EvPerms : \A r \in db.ev[p].roles : db.role[r].state # "gone"

\* A permission is one of a contract that is registered.
Anchored ==
    /\ \A p \in FnPerms : db.fn[p].live => db.contract[db.fn[p].addr].live
    /\ \A p \in EvPerms : db.ev[p].live => db.contract[db.ev[p].addr].live

\* An API key is one of a credential that is there.
KeysLive == \A p \in db.keys : LiveApp(p)

-----------------------------------------------------------------------------
(* Every Effect leaves well-typed tables                                   *)

\* What a new state of the tables d leaves alone.
SameMembers(d) == d.multi = db.multi /\ d.user = db.user /\ d.holds = db.holds /\ d.role = db.role

SameRegistry(d) == d.contract = db.contract /\ d.fn = db.fn /\ d.ev = db.ev /\ d.umbrella = db.umbrella

SameApps(d) == d.app = db.app /\ d.keys = db.keys /\ d.ips = db.ips

SameOrgs(d) == d.org = db.org

LEMMA RowsTyped ==
    ASSUME db \in Tables
    PROVE  /\ db.multi \in BOOLEAN /\ db.org \in [Orgs -> {"none", "live", "deleted"}]
           /\ db.user \in [Users -> UserRows] /\ db.holds \in SUBSET (Users \X Roles)
           /\ db.role \in [Roles -> RoleRows] /\ db.defaults \in [Orgs -> SUBSET Roles]
           /\ db.tenant \in SUBSET Roles /\ db.pending \in SUBSET (Orgs \X Users)
           /\ db.app \in [Apps -> AppRows] /\ db.keys \in SUBSET Apps /\ db.ips \in SUBSET Apps
           /\ db.contract \in [Addrs -> Deployed] /\ db.fn \in [FnPerms -> FnRows] /\ db.ev \in [EvPerms -> EvRows]
           /\ db.umbrella \in SUBSET Templates
BY DEF Tables

LEMMA Unwritten ==
    ASSUME db \in Tables
    PROVE  SameMembers(db) /\ SameRegistry(db) /\ SameApps(db) /\ SameOrgs(db)
BY DEF SameMembers, SameRegistry, SameApps, SameOrgs

LEMMA UserRowEdits ==
    ASSUME NEW x \in UserRows
    PROVE  /\ \A w \in BOOLEAN : [x EXCEPT !.wallet = w] \in UserRows
           /\ \A o \in Scopes : [x EXCEPT !.org = o] \in UserRows
BY DEF UserRows

LEMMA RoleRowEdits ==
    ASSUME NEW x \in RoleRows
    PROVE  /\ \A t \in {"none", "live", "gone"} : [x EXCEPT !.state = t] \in RoleRows
           /\ \A o \in Scopes, w \in BOOLEAN : [[x EXCEPT !.org = o] EXCEPT !.admin = w] \in RoleRows
BY DEF RoleRows

LEMMA AppRowEdits ==
    ASSUME NEW x \in AppRows
    PROVE  /\ \A R \in SUBSET Roles : [x EXCEPT !.roles = R] \in AppRows
           /\ \A L \in SUBSET Orgs : [x EXCEPT !.links = L] \in AppRows
BY DEF AppRows

LEMMA FnRowEdits ==
    ASSUME NEW x \in FnRows
    PROVE  /\ \A R \in SUBSET Roles : [x EXCEPT !.roles = R] \in FnRows
           /\ \A b \in BOOLEAN : [x EXCEPT !.live = b] \in FnRows /\ [x EXCEPT !.umbrella = b] \in FnRows
           /\ \A a \in Addrs : [x EXCEPT !.addr = a] \in FnRows
           /\ \A b, c \in BOOLEAN, R \in SUBSET Roles : [x EXCEPT !.orgOnly = b, !.umbrella = c, !.roles = R] \in FnRows
BY DEF FnRows

LEMMA EvRowEdits ==
    ASSUME NEW x \in EvRows
    PROVE  /\ \A R \in SUBSET Roles : [x EXCEPT !.roles = R] \in EvRows
           /\ \A b \in BOOLEAN : [x EXCEPT !.live = b] \in EvRows
           /\ \A a \in Addrs : [x EXCEPT !.addr = a] \in EvRows
BY DEF EvRows

LEMMA DeployedEdits ==
    ASSUME NEW x \in Deployed
    PROVE  /\ \A t \in Templates \cup {NoTemplate}, b \in BOOLEAN : [x EXCEPT !.template = t, !.disclose = b] \in Deployed
           /\ [x EXCEPT !.template = NoTemplate] \in Deployed
           /\ NotRegistered \in Deployed
BY DEF Deployed, NotRegistered, Scopes

LEMMA OrgInsertedWrites ==
    ASSUME db \in Tables, NEW q, q.org \in Orgs, q.roles \in SUBSET Roles
    PROVE  LET d == OrgInserted(q) IN
           /\ d \in Tables /\ SameMembers(d) /\ SameRegistry(d) /\ SameApps(d)
           /\ d = db \/ (db.org[q.org] = "none" /\ d.org = [db.org EXCEPT ![q.org] = "live"])
BY DEF Tables, SameMembers, SameRegistry, SameApps, SameOrgs, OrgInserted

LEMMA OrgUpdatedWrites ==
    ASSUME db \in Tables, NEW q, q.org \in Orgs, q.roles \in SUBSET Roles
    PROVE  LET d == OrgUpdated(q) IN
           d \in Tables /\ SameMembers(d) /\ SameRegistry(d) /\ SameApps(d) /\ SameOrgs(d)
BY DEF Tables, SameMembers, SameRegistry, SameApps, SameOrgs, OrgUpdated

LEMMA OrgRevokedWrites ==
    ASSUME db \in Tables, NEW o \in Orgs, NEW R
    PROVE  LET d == OrgRevoked(o, R) IN
           /\ d \in Tables /\ SameRegistry(d) /\ d.app = db.app
           /\ d.multi = db.multi /\ d.holds = db.holds /\ d.role = db.role
           /\ d.org = [db.org EXCEPT ![o] = "deleted"]
           /\ d.user = [u \in Users |-> IF u \in R THEN [db.user[u] EXCEPT !.wallet = FALSE] ELSE db.user[u]]
<1> DEFINE users == [u \in Users |-> IF u \in R THEN [db.user[u] EXCEPT !.wallet = FALSE] ELSE db.user[u]]
           keys == {p \in db.keys : db.app[p].owner # o}
           orgs == [db.org EXCEPT ![o] = "deleted"]
<1>1. users \in [Users -> UserRows]
    <2> SUFFICES \A u \in Users : users[u] \in UserRows
        OBVIOUS
    <2> QED BY RowsTyped, UserRowEdits
<1>2. keys \in SUBSET Apps /\ orgs \in [Orgs -> {"none", "live", "deleted"}]
    BY RowsTyped
<1>3. OrgRevoked(o, R) = [db EXCEPT !.org = orgs, !.keys = keys, !.user = users]
    BY DEF OrgRevoked
<1> HIDE DEF users, keys, orgs
<1>4. LET d == OrgRevoked(o, R) IN
      /\ d \in Tables /\ SameRegistry(d) /\ d.app = db.app
      /\ d.multi = db.multi /\ d.holds = db.holds /\ d.role = db.role
      /\ d.org = orgs /\ d.user = users
    BY <1>1, <1>2, <1>3, ZenonT(60) DEF Tables, SameMembers, SameRegistry, SameApps, SameOrgs
<1> QED BY <1>4 DEF orgs, users

LEMMA PendingWrites ==
    ASSUME db \in Tables, NEW q, q.org \in Orgs, q.user \in Users
    PROVE  \A d \in {[db EXCEPT !.pending = @ \cup {<<q.org, q.user>>}], [db EXCEPT !.pending = @ \ {<<q.org, q.user>>}]} :
           d \in Tables /\ SameMembers(d) /\ SameRegistry(d) /\ SameApps(d) /\ SameOrgs(d)
BY DEF Tables, SameMembers, SameRegistry, SameApps, SameOrgs

LEMMA IdpSetWrites ==
    ASSUME db \in Tables, NEW q, q.org \in Orgs
    PROVE  LET d == IdpSet(q) IN
           d \in Tables /\ SameMembers(d) /\ SameRegistry(d) /\ SameApps(d) /\ SameOrgs(d)
BY DEF Tables, SameMembers, SameRegistry, SameApps, SameOrgs, IdpSet

LEMMA NewUserWrites ==
    ASSUME db \in Tables, NEW u \in Users, NEW R \in SUBSET Roles, NEW row \in UserRows
    PROVE  /\ [db.user EXCEPT ![u] = row] \in [Users -> UserRows]
           /\ Without(u) \cup Grant(u, R) \in SUBSET (Users \X Roles)
<1>1. Without(u) \cup Grant(u, R) \in SUBSET (Users \X Roles)
    BY RowsTyped DEF Without, Grant
<1> QED BY <1>1, RowsTyped

LEMMA BootstrappedWrites ==
    ASSUME db \in Tables, NEW q, q.by \in Users, q.org \in Scopes, q.roles \in SUBSET Roles
    PROVE  LET d == Bootstrapped(q) IN
           /\ d \in Tables /\ SameRegistry(d) /\ SameApps(d) /\ SameOrgs(d)
           /\ d = db \/
              /\ ~db.user[q.by].live
              /\ d.multi = db.multi
              /\ d.role = [r \in Roles |-> IF r \in q.roles THEN [db.role[r] EXCEPT !.state = "live"] ELSE db.role[r]]
              /\ d.user = [db.user EXCEPT ![q.by] = [live |-> TRUE, org |-> q.org, wallet |-> FALSE]]
              /\ d.holds = Without(q.by) \cup Grant(q.by, q.roles)
<1>1. CASE Bootstrapped(q) = db
    BY <1>1, Unwritten
<1>2. CASE Bootstrapped(q) # db
    <2> DEFINE n == NewUser(q.by, q.org, q.roles, FALSE)
               roles == [r \in Roles |-> IF r \in q.roles THEN [n.role[r] EXCEPT !.state = "live"] ELSE n.role[r]]
               pending == IF q.roles = {} THEN n.pending ELSE n.pending \ {<<q.org, q.by>>}
    <2>1. /\ n \in Tables /\ SameRegistry(n) /\ SameApps(n) /\ SameOrgs(n)
          /\ n.multi = db.multi /\ n.role = db.role /\ n.pending = db.pending
          /\ n.user = [db.user EXCEPT ![q.by] = [live |-> TRUE, org |-> q.org, wallet |-> FALSE]]
          /\ n.holds = Without(q.by) \cup Grant(q.by, q.roles)
        <3> DEFINE row == [live |-> TRUE, org |-> q.org, wallet |-> FALSE]
        <3>1. row \in UserRows
            BY DEF UserRows
        <3>2. n = [db EXCEPT !.user = [db.user EXCEPT ![q.by] = row], !.holds = Without(q.by) \cup Grant(q.by, q.roles)]
            BY DEF NewUser, Tables
        <3> DEFINE users == [db.user EXCEPT ![q.by] = row]
                   holds == Without(q.by) \cup Grant(q.by, q.roles)
        <3>3. users \in [Users -> UserRows] /\ holds \in SUBSET (Users \X Roles)
            <4> HIDE DEF row
            <4> QED BY <3>1, NewUserWrites
        <3> HIDE DEF n, row, users, holds
        <3>4. n = [db EXCEPT !.user = users, !.holds = holds]
            BY <3>2 DEF users, holds
        <3>5. /\ n \in Tables /\ SameRegistry(n) /\ SameApps(n) /\ SameOrgs(n)
              /\ n.multi = db.multi /\ n.role = db.role /\ n.pending = db.pending
              /\ n.user = users /\ n.holds = holds
            BY <3>3, <3>4 DEF Tables, SameMembers, SameRegistry, SameApps, SameOrgs
        <3> QED BY <3>5 DEF row, users, holds
    <2>2. /\ ~db.user[q.by].live
          /\ Bootstrapped(q) = [n EXCEPT !.pending = pending, !.role = roles]
        BY <1>2 DEF Bootstrapped
    <2> HIDE DEF n
    <2>3. roles \in [Roles -> RoleRows]
        <3> SUFFICES \A r \in Roles : roles[r] \in RoleRows
            OBVIOUS
        <3> QED BY <2>1, RowsTyped, RoleRowEdits
    <2>4. pending \in SUBSET (Orgs \X Users)
        BY <2>1, RowsTyped
    <2> HIDE DEF roles, pending
    <2>5. LET d == Bootstrapped(q) IN
          /\ d \in Tables /\ SameRegistry(d) /\ SameApps(d) /\ SameOrgs(d)
          /\ d.multi = n.multi /\ d.role = roles /\ d.user = n.user /\ d.holds = n.holds
        BY <2>1, <2>2, <2>3, <2>4, ZenonT(60) DEF Tables, SameMembers, SameRegistry, SameApps, SameOrgs
    <2>6. roles = [r \in Roles |-> IF r \in q.roles THEN [db.role[r] EXCEPT !.state = "live"] ELSE db.role[r]]
        BY <2>1 DEF roles
    <2> QED BY <2>1, <2>2, <2>5, <2>6
<1> QED BY <1>1, <1>2

LEMMA JoinedWrites ==
    ASSUME db \in Tables, NEW q, q.org \in Orgs, q.user \in Users
    PROVE  LET d == Joined(q) IN
           /\ d \in Tables /\ SameRegistry(d) /\ SameApps(d) /\ SameOrgs(d)
           /\ d.multi = db.multi /\ d.role = db.role /\ d.holds = db.holds
           /\ d = db \/
              /\ db.user[q.user].live /\ db.user[q.user].org = Zone
              /\ d.user = [db.user EXCEPT ![q.user].org = q.org]
<1> DEFINE users == [db.user EXCEPT ![q.user].org = q.org]
<1>1. users \in [Users -> UserRows]
    BY RowsTyped, UserRowEdits DEF Scopes
<1>2. CASE Joined(q) = db
    BY <1>2, Unwritten
<1>3. CASE Joined(q) # db
    <2>1. /\ db.user[q.user].live /\ db.user[q.user].org = Zone
          /\ Joined(q) = [db EXCEPT !.user = users]
        BY <1>3 DEF Joined, Tables
    <2> HIDE DEF users
    <2>2. LET d == Joined(q) IN
          /\ d \in Tables /\ SameRegistry(d) /\ SameApps(d) /\ SameOrgs(d)
          /\ d.multi = db.multi /\ d.role = db.role /\ d.holds = db.holds /\ d.user = users
        BY <1>1, <2>1 DEF Tables, SameMembers, SameRegistry, SameApps, SameOrgs
    <2> QED BY <2>1, <2>2 DEF users
<1> QED BY <1>2, <1>3

LEMMA InvitedWrites ==
    ASSUME db \in Tables, NEW q, q.org \in Orgs, q.user \in Users
    PROVE  LET d == Invited(q) IN
           /\ d \in Tables /\ SameRegistry(d) /\ SameApps(d) /\ SameOrgs(d)
           /\ d.multi = db.multi /\ d.role = db.role
           /\ d = db \/
              /\ ~db.user[q.user].live
              /\ d.user = [db.user EXCEPT ![q.user] = [live |-> TRUE, org |-> q.org, wallet |-> FALSE]]
              /\ d.holds = Without(q.user)
<1>1. CASE db.user[q.user].live
    BY <1>1, Unwritten DEF Invited, SameMembers
<1>2. CASE ~db.user[q.user].live
    <2> DEFINE row == [live |-> TRUE, org |-> q.org, wallet |-> FALSE]
    <2>1. row \in UserRows
        BY DEF UserRows, Scopes
    <2>2. Invited(q) = [db EXCEPT !.user = [db.user EXCEPT ![q.user] = row], !.holds = Without(q.user) \cup Grant(q.user, {})]
        BY <1>2 DEF Invited, NewUser, Tables
    <2> DEFINE users == [db.user EXCEPT ![q.user] = row]
               holds == Without(q.user) \cup Grant(q.user, {})
    <2>3. users \in [Users -> UserRows] /\ holds \in SUBSET (Users \X Roles)
        <3> HIDE DEF row
        <3> QED BY <2>1, NewUserWrites
    <2> HIDE DEF row, users, holds
    <2>4. Invited(q) = [db EXCEPT !.user = users, !.holds = holds]
        BY <2>2 DEF users, holds
    <2>5. LET d == Invited(q) IN
          /\ d \in Tables /\ SameRegistry(d) /\ SameApps(d) /\ SameOrgs(d)
          /\ d.multi = db.multi /\ d.role = db.role
          /\ d.user = users /\ d.holds = holds
        BY <2>3, <2>4 DEF Tables, SameMembers, SameRegistry, SameApps, SameOrgs
    <2>6. Without(q.user) \cup Grant(q.user, {}) = Without(q.user)
        BY DEF Grant
    <2> QED BY <1>2, <2>5, <2>6 DEF row, users, holds
<1> QED BY <1>1, <1>2

LEMMA RemovedWrites ==
    ASSUME db \in Tables, NEW q, q.org \in Orgs, q.user \in Users
    PROVE  LET d == Removed(q) IN
           /\ d \in Tables /\ SameRegistry(d) /\ SameApps(d) /\ SameOrgs(d)
           /\ d.multi = db.multi /\ d.role = db.role
           /\ d = db \/
              /\ db.user[q.user].live
              /\ d.user = [db.user EXCEPT ![q.user].org = Zone]
              /\ d.holds = {h \in db.holds : h[1] # q.user \/ ~RoleOwnedBy(q.org, h[2])}
<1> DEFINE users == [db.user EXCEPT ![q.user].org = Zone]
           holds == {h \in db.holds : h[1] # q.user \/ ~RoleOwnedBy(q.org, h[2])}
<1>1. users \in [Users -> UserRows] /\ holds \in SUBSET (Users \X Roles)
    BY RowsTyped, UserRowEdits DEF Scopes
<1>2. CASE ~db.user[q.user].live
    BY <1>2, Unwritten DEF Removed, SameMembers
<1>3. CASE db.user[q.user].live
    <2>1. Removed(q) = [db EXCEPT !.user = users, !.holds = holds]
        BY <1>3 DEF Removed, Tables
    <2> HIDE DEF users, holds
    <2>2. LET d == Removed(q) IN
          /\ d \in Tables /\ SameRegistry(d) /\ SameApps(d) /\ SameOrgs(d)
          /\ d.multi = db.multi /\ d.role = db.role /\ d.holds = holds /\ d.user = users
        BY <1>1, <2>1 DEF Tables, SameMembers, SameRegistry, SameApps, SameOrgs
    <2> QED BY <1>3, <2>2 DEF users, holds
<1> QED BY <1>2, <1>3

LEMMA HoldsWrites ==
    ASSUME db \in Tables, NEW H \in SUBSET (Users \X Roles)
    PROVE  LET d == [db EXCEPT !.holds = H] IN
           /\ d \in Tables /\ SameRegistry(d) /\ SameApps(d) /\ SameOrgs(d)
           /\ d.multi = db.multi /\ d.role = db.role /\ d.user = db.user /\ d.holds = H
BY DEF Tables, SameMembers, SameRegistry, SameApps, SameOrgs

LEMMA RolesSetWrites ==
    ASSUME db \in Tables, NEW q, q.user \in Users, q.add \in SUBSET Roles
    PROVE  LET d == RolesSet(q) IN
           /\ d \in Tables /\ SameRegistry(d) /\ SameApps(d) /\ SameOrgs(d)
           /\ d.multi = db.multi /\ d.role = db.role /\ d.user = db.user
           /\ d = db \/
              /\ db.user[q.user].live
              /\ d.holds = (db.holds \ Grant(q.user, q.del)) \cup {h \in Grant(q.user,
                                                                   q.add) : LiveRole(h[2])}
<1>1. (db.holds \ Grant(q.user, q.del)) \cup {h \in Grant(q.user, q.add) : LiveRole(h[2])} \in SUBSET (Users \X Roles)
    BY RowsTyped DEF Grant
<1>2. CASE ~db.user[q.user].live
    BY <1>2, Unwritten DEF RolesSet, SameMembers
<1>3. CASE db.user[q.user].live
    BY <1>1, <1>3, HoldsWrites DEF RolesSet
<1> QED BY <1>2, <1>3

LEMMA RegrantedWrites ==
    ASSUME db \in Tables, NEW u \in Users, NEW R \in SUBSET Roles
    PROVE  LET d == [db EXCEPT !.holds = Without(u) \cup Grant(u, R)] IN
           /\ d \in Tables /\ SameRegistry(d) /\ SameApps(d) /\ SameOrgs(d)
           /\ d.multi = db.multi /\ d.role = db.role /\ d.user = db.user
           /\ d.holds = Without(u) \cup Grant(u, R)
<1>1. Without(u) \cup Grant(u, R) \in SUBSET (Users \X Roles)
    BY RowsTyped DEF Without, Grant
<1> QED BY <1>1, HoldsWrites

LEMMA MemberCreatedWrites ==
    ASSUME db \in Tables, NEW q, q.user \in Users, q.org \in Scopes, q.roles \in SUBSET Roles, q.wallet \in BOOLEAN
    PROVE  LET d == MemberCreated(q) IN
           /\ d \in Tables /\ SameRegistry(d) /\ SameApps(d) /\ SameOrgs(d)
           /\ d.multi = db.multi /\ d.role = db.role
           /\ d = db \/
              /\ ~db.user[q.user].live /\ RolesMatch(q.roles, q.org)
              /\ d.user = [db.user EXCEPT ![q.user] = [live |-> TRUE, org |-> q.org, wallet |-> q.wallet]]
              /\ d.holds = Without(q.user) \cup Grant(q.user, q.roles)
<1>1. CASE MemberCreated(q) = db
    BY <1>1, Unwritten DEF SameMembers
<1>2. CASE MemberCreated(q) # db
    <2> DEFINE row == [live |-> TRUE, org |-> q.org, wallet |-> q.wallet]
    <2>1. row \in UserRows
        BY DEF UserRows
    <2>2. /\ ~db.user[q.user].live /\ RolesMatch(q.roles, q.org)
          /\ MemberCreated(q) = [db EXCEPT !.user = [db.user EXCEPT ![q.user] = row],
                                           !.holds = Without(q.user) \cup Grant(q.user, q.roles)]
        BY <1>2 DEF MemberCreated, NewUser, Tables
    <2> DEFINE users == [db.user EXCEPT ![q.user] = row]
               holds == Without(q.user) \cup Grant(q.user, q.roles)
    <2>3. users \in [Users -> UserRows] /\ holds \in SUBSET (Users \X Roles)
        <3> HIDE DEF row
        <3> QED BY <2>1, NewUserWrites
    <2> HIDE DEF row, users, holds
    <2>4. MemberCreated(q) = [db EXCEPT !.user = users, !.holds = holds]
        BY <2>2 DEF users, holds
    <2>5. LET d == MemberCreated(q) IN
          /\ d \in Tables /\ SameRegistry(d) /\ SameApps(d) /\ SameOrgs(d)
          /\ d.multi = db.multi /\ d.role = db.role
          /\ d.user = users /\ d.holds = holds
        BY <2>3, <2>4 DEF Tables, SameMembers, SameRegistry, SameApps, SameOrgs
    <2> QED BY <2>2, <2>5 DEF row, users, holds
<1> QED BY <1>1, <1>2

LEMMA UserUpdatedWrites ==
    ASSUME db \in Tables, NEW q, q.user \in Users, q.roles \in SUBSET Roles, q.wallet \in BOOLEAN
    PROVE  LET d == UserUpdated(q) IN
           /\ d \in Tables /\ SameRegistry(d) /\ SameApps(d) /\ SameOrgs(d)
           /\ d.multi = db.multi /\ d.role = db.role
           /\ d = db \/
              /\ db.user[q.user].live /\ AllLive(q.roles)
              /\ d.user = [db.user EXCEPT ![q.user].wallet = q.wallet]
              /\ d.holds = Without(q.user) \cup Grant(q.user, q.roles)
<1> DEFINE users == [db.user EXCEPT ![q.user].wallet = q.wallet]
           holds == Without(q.user) \cup Grant(q.user, q.roles)
<1>1. users \in [Users -> UserRows] /\ holds \in SUBSET (Users \X Roles)
    <2>1. users \in [Users -> UserRows]
        BY RowsTyped, UserRowEdits
    <2>2. holds \in SUBSET (Users \X Roles)
        BY RowsTyped DEF Without, Grant
    <2> QED BY <2>1, <2>2
<1>2. CASE UserUpdated(q) = db
    BY <1>2, Unwritten DEF SameMembers
<1>3. CASE UserUpdated(q) # db
    <2>1. /\ db.user[q.user].live /\ AllLive(q.roles)
          /\ UserUpdated(q) = [db EXCEPT !.user = users, !.holds = holds]
        BY <1>3 DEF UserUpdated, Tables
    <2> HIDE DEF users, holds
    <2>2. LET d == UserUpdated(q) IN
          /\ d \in Tables /\ SameRegistry(d) /\ SameApps(d) /\ SameOrgs(d)
          /\ d.multi = db.multi /\ d.role = db.role /\ d.holds = holds /\ d.user = users
        BY <1>1, <2>1 DEF Tables, SameMembers, SameRegistry, SameApps, SameOrgs
    <2> QED BY <2>1, <2>2 DEF users, holds
<1> QED BY <1>2, <1>3

LEMMA UserDeletedWrites ==
    ASSUME db \in Tables, NEW v \in Users
    PROVE  LET d == UserDeleted(v) IN
           /\ d \in Tables /\ SameRegistry(d) /\ SameApps(d) /\ SameOrgs(d)
           /\ d.multi = db.multi /\ d.role = db.role
           /\ d.user = [db.user EXCEPT ![v] = [live |-> FALSE, org |-> Zone, wallet |-> FALSE]]
           /\ d.holds = Without(v)
<1> DEFINE row == [live |-> FALSE, org |-> Zone, wallet |-> FALSE]
           users == [db.user EXCEPT ![v] = row]
<1>1. users \in [Users -> UserRows] /\ Without(v) \in SUBSET (Users \X Roles)
    <2>1. row \in UserRows
        BY DEF UserRows, Scopes
    <2>2. Without(v) \in SUBSET (Users \X Roles)
        BY RowsTyped DEF Without
    <2> HIDE DEF row
    <2> QED BY <2>1, <2>2, RowsTyped
<1>2. UserDeleted(v) = [db EXCEPT !.user = users, !.holds = Without(v)]
    BY DEF UserDeleted, Tables
<1> HIDE DEF users
<1>3. LET d == UserDeleted(v) IN
      /\ d \in Tables /\ SameRegistry(d) /\ SameApps(d) /\ SameOrgs(d)
      /\ d.multi = db.multi /\ d.role = db.role /\ d.holds = Without(v) /\ d.user = users
    BY <1>1, <1>2 DEF Tables, SameMembers, SameRegistry, SameApps, SameOrgs
<1> QED BY <1>3 DEF users, row

LEMMA WalletAddedWrites ==
    ASSUME db \in Tables, NEW v \in Users
    PROVE  LET d == WalletAdded(v) IN
           /\ d \in Tables /\ SameRegistry(d) /\ SameApps(d) /\ SameOrgs(d)
           /\ d.multi = db.multi /\ d.role = db.role /\ d.holds = db.holds
           /\ d = db \/ d.user = [db.user EXCEPT ![v].wallet = TRUE]
<1> DEFINE users == [db.user EXCEPT ![v].wallet = TRUE]
<1>1. users \in [Users -> UserRows]
    BY RowsTyped, UserRowEdits
<1>2. CASE WalletAdded(v) = db
    BY <1>2, Unwritten DEF SameMembers
<1>3. CASE WalletAdded(v) # db
    <2>1. WalletAdded(v) = [db EXCEPT !.user = users]
        BY <1>3 DEF WalletAdded, Tables
    <2> HIDE DEF users
    <2>2. LET d == WalletAdded(v) IN
          /\ d \in Tables /\ SameRegistry(d) /\ SameApps(d) /\ SameOrgs(d)
          /\ d.multi = db.multi /\ d.role = db.role /\ d.holds = db.holds /\ d.user = users
        BY <1>1, <2>1 DEF Tables, SameMembers, SameRegistry, SameApps, SameOrgs
    <2> QED BY <2>2 DEF users
<1> QED BY <1>2, <1>3

LEMMA RoleInsertedWrites ==
    ASSUME db \in Tables, NEW q, q.role \in Roles, q.org \in Scopes, q.admin \in BOOLEAN
    PROVE  LET d == RoleInserted(q) IN
           /\ d \in Tables /\ SameRegistry(d) /\ SameApps(d) /\ SameOrgs(d)
           /\ d.multi = db.multi /\ d.user = db.user /\ d.holds = db.holds
           /\ d = db \/
              /\ db.role[q.role].state = "none"
              /\ d.role = [db.role EXCEPT ![q.role] =
                              [state |-> "live", org |-> q.org, admin |-> q.admin, system |-> FALSE]]
<1> DEFINE row == [state |-> "live", org |-> q.org, admin |-> q.admin, system |-> FALSE]
           roles == [db.role EXCEPT ![q.role] = row]
<1>1. CASE RoleInserted(q) = db
    BY <1>1, Unwritten DEF SameMembers
<1>2. CASE RoleInserted(q) # db
    <2>1. roles \in [Roles -> RoleRows]
        <3>1. row \in RoleRows
            BY DEF RoleRows
        <3> HIDE DEF row
        <3> QED BY <3>1, RowsTyped
    <2>2. db.role[q.role].state = "none" /\ RoleInserted(q) = [db EXCEPT !.role = roles]
        BY <1>2 DEF RoleInserted, Tables
    <2> HIDE DEF roles
    <2>3. LET d == RoleInserted(q) IN
          /\ d \in Tables /\ SameRegistry(d) /\ SameApps(d) /\ SameOrgs(d)
          /\ d.multi = db.multi /\ d.user = db.user /\ d.holds = db.holds /\ d.role = roles
        BY <2>1, <2>2 DEF Tables, SameMembers, SameRegistry, SameApps, SameOrgs
    <2> QED BY <2>2, <2>3 DEF roles, row
<1> QED BY <1>1, <1>2

LEMMA RoleUpdatedWrites ==
    ASSUME db \in Tables, NEW q, q.role \in Roles, q.moved \in Scopes, q.admin \in BOOLEAN
    PROVE  LET d == RoleUpdated(q) IN
           /\ d \in Tables /\ SameRegistry(d) /\ SameApps(d) /\ SameOrgs(d)
           /\ d.multi = db.multi /\ d.user = db.user /\ d.holds = db.holds
           /\ d = db \/
              /\ Scoped(q.role, q.org)
              /\ d.role = [db.role EXCEPT ![q.role] = [db.role[q.role] EXCEPT !.org = q.moved, !.admin = q.admin]]
<1> DEFINE row == [db.role[q.role] EXCEPT !.org = q.moved, !.admin = q.admin]
           roles == [db.role EXCEPT ![q.role] = row]
<1>1. CASE RoleUpdated(q) = db
    BY <1>1, Unwritten DEF SameMembers
<1>2. CASE RoleUpdated(q) # db
    <2>1. roles \in [Roles -> RoleRows]
        <3>1. row \in RoleRows
            <4>1. db.role[q.role] \in RoleRows
                BY RowsTyped
            <4> QED BY <4>1 DEF RoleRows
        <3> HIDE DEF row
        <3> QED BY <3>1, RowsTyped
    <2>2. Scoped(q.role, q.org)
        BY <1>2 DEF RoleUpdated
    <2>3. RoleUpdated(q) = [db EXCEPT !.role = roles]
        <3>1. RoleUpdated(q) = [db EXCEPT !.role[q.role].org = q.moved, !.role[q.role].admin = q.admin]
            BY <2>2 DEF RoleUpdated
        <3>2. [[db.role EXCEPT ![q.role].org = q.moved] EXCEPT ![q.role].admin = q.admin] = roles
            BY RowsTyped DEF RoleRows
        <3> QED BY <3>1, <3>2 DEF Tables
    <2> HIDE DEF roles
    <2>4. LET d == RoleUpdated(q) IN
          /\ d \in Tables /\ SameRegistry(d) /\ SameApps(d) /\ SameOrgs(d)
          /\ d.multi = db.multi /\ d.user = db.user /\ d.holds = db.holds /\ d.role = roles
        BY <2>1, <2>3 DEF Tables, SameMembers, SameRegistry, SameApps, SameOrgs
    <2> QED BY <2>2, <2>4 DEF roles, row
<1> QED BY <1>1, <1>2

LEMMA DropRoleWrites ==
    ASSUME db \in Tables, NEW r \in Roles
    PROVE  LET d == DropRole(r) IN
           /\ d \in Tables /\ SameOrgs(d) /\ d.multi = db.multi /\ d.user = db.user
           /\ d.keys = db.keys /\ d.ips = db.ips /\ d.contract = db.contract /\ d.umbrella = db.umbrella
           /\ d.role = [db.role EXCEPT ![r] = [db.role[r] EXCEPT !.state = "gone"]]
           /\ d.holds = {h \in db.holds : h[2] # r}
           /\ d.app = [p \in Apps |-> [db.app[p] EXCEPT !.roles = db.app[p].roles \ {r}]]
           /\ d.fn = [p \in FnPerms |-> [db.fn[p] EXCEPT !.roles = db.fn[p].roles \ {r}]]
           /\ d.ev = [p \in EvPerms |-> [db.ev[p] EXCEPT !.roles = db.ev[p].roles \ {r}]]
<1> DEFINE role == [db.role EXCEPT ![r].state = "gone"]
           holds == {h \in db.holds : h[2] # r}
           defaults == [o \in Orgs |-> db.defaults[o] \ {r}]
           tenant == db.tenant \ {r}
           app == [p \in Apps |-> [db.app[p] EXCEPT !.roles = @ \ {r}]]
           fn == [p \in FnPerms |-> [db.fn[p] EXCEPT !.roles = @ \ {r}]]
           ev == [p \in EvPerms |-> [db.ev[p] EXCEPT !.roles = @ \ {r}]]
<1>1. role \in [Roles -> RoleRows]
    BY RowsTyped, RoleRowEdits
<1>2. holds \in SUBSET (Users \X Roles) /\ defaults \in [Orgs -> SUBSET Roles] /\ tenant \in SUBSET Roles
    BY RowsTyped
<1>3. app \in [Apps -> AppRows]
    <2> SUFFICES \A p \in Apps : app[p] \in AppRows
        OBVIOUS
    <2>1. \A p \in Apps : db.app[p].roles \ {r} \in SUBSET Roles
        BY RowsTyped DEF AppRows
    <2> QED BY <2>1, RowsTyped, AppRowEdits
<1>4. fn \in [FnPerms -> FnRows]
    <2> SUFFICES \A p \in FnPerms : fn[p] \in FnRows
        OBVIOUS
    <2>1. \A p \in FnPerms : db.fn[p].roles \ {r} \in SUBSET Roles
        BY RowsTyped DEF FnRows
    <2> QED BY <2>1, RowsTyped, FnRowEdits
<1>5. ev \in [EvPerms -> EvRows]
    <2> SUFFICES \A p \in EvPerms : ev[p] \in EvRows
        OBVIOUS
    <2>1. \A p \in EvPerms : db.ev[p].roles \ {r} \in SUBSET Roles
        BY RowsTyped DEF EvRows
    <2> QED BY <2>1, RowsTyped, EvRowEdits
<1>6. DropRole(r) = [db EXCEPT !.role = role, !.holds = holds, !.defaults = defaults, !.tenant = tenant,
                               !.app = app, !.fn = fn, !.ev = ev]
    BY DEF DropRole
<1> HIDE DEF role, holds, defaults, tenant, app, fn, ev
<1>7. LET d == DropRole(r) IN
      /\ d \in Tables /\ SameOrgs(d) /\ d.multi = db.multi /\ d.user = db.user
      /\ d.keys = db.keys /\ d.ips = db.ips /\ d.contract = db.contract /\ d.umbrella = db.umbrella
      /\ d.role = role /\ d.holds = holds /\ d.app = app /\ d.fn = fn /\ d.ev = ev
    BY <1>1, <1>2, <1>3, <1>4, <1>5, <1>6, ZenonT(60) DEF Tables, SameMembers, SameRegistry, SameApps, SameOrgs
<1> QED BY <1>7 DEF role, holds, app, fn, ev

LEMMA AppInsertedWrites ==
    ASSUME db \in Tables, NEW q, q.app \in Apps, q.org \in Scopes, q.roles \in SUBSET Roles, q.links \in SUBSET Orgs
    PROVE  LET d == AppInserted(q) IN
           /\ d \in Tables /\ SameMembers(d) /\ SameRegistry(d) /\ SameOrgs(d) /\ d.keys = db.keys /\ d.ips = db.ips
           /\ d = db \/
              /\ db.app[q.app].state = "none" /\ AllLive(q.roles)
              /\ d.app = [db.app EXCEPT ![q.app] = [state |-> "live", owner |-> q.org, links |-> q.links, roles |-> q.roles]]
<1> DEFINE row == [state |-> "live", owner |-> q.org, links |-> q.links, roles |-> q.roles]
           apps == [db.app EXCEPT ![q.app] = row]
<1>1. CASE AppInserted(q) = db
    BY <1>1, Unwritten DEF SameApps
<1>2. CASE AppInserted(q) # db
    <2>1. apps \in [Apps -> AppRows]
        <3>1. row \in AppRows
            BY DEF AppRows
        <3> HIDE DEF row
        <3> QED BY <3>1, RowsTyped
    <2>2. db.app[q.app].state = "none" /\ AllLive(q.roles) /\ AppInserted(q) = [db EXCEPT !.app = apps]
        BY <1>2 DEF AppInserted, Tables
    <2> HIDE DEF apps
    <2>3. LET d == AppInserted(q) IN
          /\ d \in Tables /\ SameMembers(d) /\ SameRegistry(d) /\ SameOrgs(d)
          /\ d.keys = db.keys /\ d.ips = db.ips /\ d.app = apps
        BY <2>1, <2>2 DEF Tables, SameMembers, SameRegistry, SameApps, SameOrgs
    <2> QED BY <2>2, <2>3 DEF apps, row
<1> QED BY <1>1, <1>2

LEMMA AppUpdatedWrites ==
    ASSUME db \in Tables, NEW q, q.app \in Apps, q.roles \in SUBSET Roles
    PROVE  LET d == AppUpdated(q)
               added == q.roles \ db.app[q.app].roles IN
           /\ d \in Tables /\ SameMembers(d) /\ SameRegistry(d) /\ SameOrgs(d) /\ d.keys = db.keys /\ d.ips = db.ips
           /\ d = db \/
              /\ LiveApp(q.app) /\ AllLive(added)
              /\ q.org # Zone => Owns(q.org, q.app) /\ MayAttach(added, q.org)
              /\ d.app = [db.app EXCEPT ![q.app] = [db.app[q.app] EXCEPT !.roles = q.roles]]
<1> DEFINE apps == [db.app EXCEPT ![q.app] = [db.app[q.app] EXCEPT !.roles = q.roles]]
           added == q.roles \ db.app[q.app].roles
<1>1. CASE AppUpdated(q) = db
    BY <1>1, Unwritten DEF SameApps
<1>2. CASE AppUpdated(q) # db
    <2>1. apps \in [Apps -> AppRows]
        BY RowsTyped, AppRowEdits
    <2>2. /\ LiveApp(q.app)
          /\ IF q.org = Zone THEN AllLive(added) ELSE Owns(q.org, q.app) /\ MayAttach(added, q.org)
          /\ AppUpdated(q) = [db EXCEPT !.app = apps]
        BY <1>2 DEF AppUpdated, Tables
    <2>3. AllLive(added) /\ (q.org # Zone => Owns(q.org, q.app) /\ MayAttach(added, q.org))
        BY <2>2 DEF MayAttach, AllLive
    <2> HIDE DEF apps
    <2>4. LET d == AppUpdated(q) IN
          /\ d \in Tables /\ SameMembers(d) /\ SameRegistry(d) /\ SameOrgs(d)
          /\ d.keys = db.keys /\ d.ips = db.ips /\ d.app = apps
        BY <2>1, <2>2 DEF Tables, SameMembers, SameRegistry, SameApps, SameOrgs
    <2> QED BY <2>2, <2>3, <2>4 DEF apps
<1> QED BY <1>1, <1>2

LEMMA AppDeletedWrites ==
    ASSUME db \in Tables, NEW q, q.app \in Apps
    PROVE  LET d == AppDeleted(q) IN
           /\ d \in Tables /\ SameMembers(d) /\ SameRegistry(d) /\ SameOrgs(d)
           /\ d = db \/
              /\ LiveApp(q.app) /\ (q.org = Zone \/ Owns(q.org, q.app))
              /\ d.keys = db.keys \ {q.app} /\ d.ips = db.ips \ {q.app}
              /\ d.app = [db.app EXCEPT ![q.app] = [state |-> "gone", owner |-> Zone, roles |-> {}, links |-> {}]]
<1> DEFINE row == [state |-> "gone", owner |-> Zone, roles |-> {}, links |-> {}]
           apps == [db.app EXCEPT ![q.app] = row]
           keys == db.keys \ {q.app}
           ips == db.ips \ {q.app}
<1>1. CASE AppDeleted(q) = db
    BY <1>1, Unwritten DEF SameApps
<1>2. CASE AppDeleted(q) # db
    <2>1. apps \in [Apps -> AppRows]
        <3>1. row \in AppRows
            BY DEF AppRows, Scopes
        <3> HIDE DEF row
        <3> QED BY <3>1, RowsTyped
    <2>2. /\ LiveApp(q.app) /\ (q.org = Zone \/ Owns(q.org, q.app))
          /\ AppDeleted(q) = [db EXCEPT !.app = apps, !.keys = keys, !.ips = ips]
        BY <1>2 DEF AppDeleted, Tables
    <2>3. keys \in SUBSET Apps /\ ips \in SUBSET Apps
        BY RowsTyped
    <2> HIDE DEF apps, keys, ips
    <2>4. LET d == AppDeleted(q) IN
          /\ d \in Tables /\ SameMembers(d) /\ SameRegistry(d) /\ SameOrgs(d)
          /\ d.keys = keys /\ d.ips = ips /\ d.app = apps
        BY <2>1, <2>2, <2>3, ZenonT(60) DEF Tables, SameMembers, SameRegistry, SameApps, SameOrgs
    <2> QED BY <2>2, <2>4 DEF apps, row, keys, ips
<1> QED BY <1>1, <1>2

LEMMA RelinkedWrites ==
    ASSUME db \in Tables, NEW q, q.app \in Apps, q.links \in SUBSET Orgs
    PROVE  LET d == Relinked(q) IN
           /\ d \in Tables /\ SameMembers(d) /\ SameRegistry(d) /\ SameOrgs(d) /\ d.keys = db.keys /\ d.ips = db.ips
           /\ d = db \/
              /\ LiveApp(q.app) /\ \A l \in q.links : Live(l)
              /\ d.app = [db.app EXCEPT ![q.app] = [db.app[q.app] EXCEPT !.links = q.links]]
<1> DEFINE apps == [db.app EXCEPT ![q.app] = [db.app[q.app] EXCEPT !.links = q.links]]
<1>1. CASE Relinked(q) = db
    BY <1>1, Unwritten DEF SameApps
<1>2. CASE Relinked(q) # db
    <2>1. apps \in [Apps -> AppRows]
        BY RowsTyped, AppRowEdits
    <2>2. /\ LiveApp(q.app) /\ \A l \in q.links : Live(l)
          /\ Relinked(q) = [db EXCEPT !.app = apps]
        BY <1>2 DEF Relinked, Tables
    <2> HIDE DEF apps
    <2>3. LET d == Relinked(q) IN
          /\ d \in Tables /\ SameMembers(d) /\ SameRegistry(d) /\ SameOrgs(d)
          /\ d.keys = db.keys /\ d.ips = db.ips /\ d.app = apps
        BY <2>1, <2>2 DEF Tables, SameMembers, SameRegistry, SameApps, SameOrgs
    <2> QED BY <2>2, <2>3 DEF apps
<1> QED BY <1>1, <1>2

LEMMA AccessWrites ==
    ASSUME db \in Tables, NEW q, q.app \in Apps
    PROVE  /\ LET d == KeysChanged(q) IN
              /\ d \in Tables /\ SameMembers(d) /\ SameRegistry(d) /\ SameOrgs(d) /\ d.app = db.app /\ d.ips = db.ips
              /\ d.keys \in {db.keys \cup {q.app}, db.keys \ {q.app}}
           /\ LET d == IpsChanged(q) IN
              /\ d \in Tables /\ SameMembers(d) /\ SameRegistry(d) /\ SameOrgs(d) /\ d.app = db.app /\ d.keys = db.keys
              /\ d.ips \in {db.ips \cup {q.app}, db.ips \ {q.app}}
<1>1. LET d == KeysChanged(q) IN
              /\ d \in Tables /\ SameMembers(d) /\ SameRegistry(d) /\ SameOrgs(d) /\ d.app = db.app /\ d.ips = db.ips
              /\ d.keys \in {db.keys \cup {q.app}, db.keys \ {q.app}}
    BY DEF Tables, SameMembers, SameRegistry, SameApps, SameOrgs, KeysChanged
<1>2. LET d == IpsChanged(q) IN
              /\ d \in Tables /\ SameMembers(d) /\ SameRegistry(d) /\ SameOrgs(d) /\ d.app = db.app /\ d.keys = db.keys
              /\ d.ips \in {db.ips \cup {q.app}, db.ips \ {q.app}}
    BY DEF Tables, SameMembers, SameRegistry, SameApps, SameOrgs, IpsChanged
<1> QED BY <1>1, <1>2

LEMMA TenantUpdatedWrites ==
    ASSUME db \in Tables, NEW q, q.roles \in SUBSET Roles
    PROVE  LET d == TenantUpdated(q) IN
           d \in Tables /\ SameMembers(d) /\ SameRegistry(d) /\ SameApps(d) /\ SameOrgs(d)
BY DEF Tables, SameMembers, SameRegistry, SameApps, SameOrgs, TenantUpdated

LEMMA ContractInsertedWrites ==
    ASSUME db \in Tables, NEW q, q.addr \in Addrs, q.org \in Scopes,
           q.template \in Templates \cup {NoTemplate}, q.disclose \in BOOLEAN
    PROVE  LET d == ContractInserted(q) IN
           /\ d \in Tables /\ SameMembers(d) /\ SameApps(d) /\ SameOrgs(d)
           /\ d.fn = db.fn /\ d.ev = db.ev /\ d.umbrella = db.umbrella
           /\ d = db \/
              /\ ~db.contract[q.addr].live
              /\ d.contract = [db.contract EXCEPT ![q.addr] =
                                  [live |-> TRUE, owner |-> q.org, template |-> q.template, disclose |-> q.disclose]]
<1> DEFINE row == [live |-> TRUE, owner |-> q.org, template |-> q.template, disclose |-> q.disclose]
           contracts == [db.contract EXCEPT ![q.addr] = row]
<1>1. CASE ContractInserted(q) = db
    BY <1>1, Unwritten DEF SameRegistry
<1>2. CASE ContractInserted(q) # db
    <2>1. contracts \in [Addrs -> Deployed]
        <3>1. row \in Deployed
            BY DEF Deployed
        <3> HIDE DEF row
        <3> QED BY <3>1, RowsTyped
    <2>2. ~db.contract[q.addr].live /\ ContractInserted(q) = [db EXCEPT !.contract = contracts]
        BY <1>2 DEF ContractInserted, Tables
    <2> HIDE DEF contracts
    <2>3. LET d == ContractInserted(q) IN
          /\ d \in Tables /\ SameMembers(d) /\ SameApps(d) /\ SameOrgs(d)
          /\ d.fn = db.fn /\ d.ev = db.ev /\ d.umbrella = db.umbrella /\ d.contract = contracts
        BY <2>1, <2>2 DEF Tables, SameMembers, SameRegistry, SameApps, SameOrgs
    <2> QED BY <2>2, <2>3 DEF contracts, row
<1> QED BY <1>1, <1>2

LEMMA FnWrites ==
    ASSUME db \in Tables, NEW F \in [FnPerms -> FnRows], NEW d, d = [db EXCEPT !.fn = F]
    PROVE  /\ d \in Tables /\ SameMembers(d) /\ SameApps(d) /\ SameOrgs(d)
           /\ d.contract = db.contract /\ d.ev = db.ev /\ d.umbrella = db.umbrella /\ d.fn = F
BY DEF Tables, SameMembers, SameRegistry, SameApps, SameOrgs

LEMMA ClearUmbrellaWrites ==
    ASSUME db \in Tables, NEW a
    PROVE  LET d == ClearUmbrella(a) IN
           /\ d \in Tables /\ SameMembers(d) /\ SameApps(d) /\ SameOrgs(d)
           /\ d.contract = db.contract /\ d.ev = db.ev /\ d.umbrella = db.umbrella
           /\ d.fn = [p \in FnPerms |-> IF db.fn[p].addr = a THEN [db.fn[p] EXCEPT !.umbrella = FALSE] ELSE db.fn[p]]
<1> DEFINE fn == [p \in FnPerms |-> IF db.fn[p].addr = a THEN [db.fn[p] EXCEPT !.umbrella = FALSE] ELSE db.fn[p]]
<1>1. ClearUmbrella(a) = [db EXCEPT !.fn = fn]
    BY DEF ClearUmbrella, Tables
<1>2. fn \in [FnPerms -> FnRows]
    <2> SUFFICES \A p \in FnPerms : fn[p] \in FnRows
        OBVIOUS
    <2> QED BY RowsTyped, FnRowEdits
<1> HIDE DEF fn
<1>3. LET d == ClearUmbrella(a) IN
      /\ d \in Tables /\ SameMembers(d) /\ SameApps(d) /\ SameOrgs(d)
      /\ d.contract = db.contract /\ d.ev = db.ev /\ d.umbrella = db.umbrella /\ d.fn = fn
    BY <1>1, <1>2, FnWrites
<1> QED BY <1>3 DEF fn

\* The tables of an edit that moves a contract.
NewRow(q) == [db.contract[q.addr] EXCEPT !.template = q.template, !.disclose = q.disclose]

MovedContracts(q) ==
    [x \in Addrs |-> IF x = q.to THEN NewRow(q) ELSE IF x = q.addr THEN NotRegistered ELSE db.contract[x]]

MovedFns(q) ==
    [p \in FnPerms |-> IF db.fn[p].live /\ db.fn[p].addr = q.addr
                       THEN [db.fn[p] EXCEPT !.addr = q.to] ELSE db.fn[p]]

MovedEvs(q) ==
    [p \in EvPerms |-> IF db.ev[p].live /\ db.ev[p].addr = q.addr
                       THEN [db.ev[p] EXCEPT !.addr = q.to] ELSE db.ev[p]]

LEMMA RewrittenWrites ==
    ASSUME db \in Tables, NEW q, q.addr \in Addrs, q.to \in Addrs,
           q.template \in Templates \cup {NoTemplate}, q.disclose \in BOOLEAN
    PROVE  LET d == Rewritten(q) IN
           /\ d \in Tables /\ SameMembers(d) /\ SameApps(d) /\ SameOrgs(d) /\ d.umbrella = db.umbrella
           /\ d = db \/
              /\ db.contract[q.addr].live /\ (q.addr # q.to => ~db.contract[q.to].live)
              /\ d.contract = MovedContracts(q) /\ d.fn = MovedFns(q) /\ d.ev = MovedEvs(q)
<1>1. CASE Rewritten(q) = db
    BY <1>1, Unwritten DEF SameRegistry
<1>2. CASE Rewritten(q) # db
    <2>1. MovedContracts(q) \in [Addrs -> Deployed]
        <3>1. NewRow(q) \in Deployed /\ NotRegistered \in Deployed
            BY RowsTyped, DeployedEdits DEF NewRow
        <3> SUFFICES \A x \in Addrs : MovedContracts(q)[x] \in Deployed
            BY DEF MovedContracts
        <3> QED BY <3>1, RowsTyped DEF MovedContracts
    <2>2. MovedFns(q) \in [FnPerms -> FnRows]
        <3> SUFFICES \A p \in FnPerms : MovedFns(q)[p] \in FnRows
            BY DEF MovedFns
        <3> QED BY RowsTyped, FnRowEdits DEF MovedFns
    <2>3. MovedEvs(q) \in [EvPerms -> EvRows]
        <3> SUFFICES \A p \in EvPerms : MovedEvs(q)[p] \in EvRows
            BY DEF MovedEvs
        <3> QED BY RowsTyped, EvRowEdits DEF MovedEvs
    <2>4. db.contract[q.addr].live /\ (q.addr # q.to => ~db.contract[q.to].live)
        BY <1>2 DEF Rewritten
    <2>5. Rewritten(q) = [db EXCEPT !.contract = MovedContracts(q), !.fn = MovedFns(q), !.ev = MovedEvs(q)]
        BY <2>4 DEF Rewritten, Tables, MovedContracts, NewRow, MovedFns, MovedEvs
    <2>6. LET d == Rewritten(q) IN
          /\ d \in Tables /\ SameMembers(d) /\ SameApps(d) /\ SameOrgs(d) /\ d.umbrella = db.umbrella
          /\ d.contract = MovedContracts(q) /\ d.fn = MovedFns(q) /\ d.ev = MovedEvs(q)
        BY <2>1, <2>2, <2>3, <2>5, ZenonT(60) DEF Tables, SameMembers, SameRegistry, SameApps, SameOrgs
    <2> QED BY <2>4, <2>6
<1> QED BY <1>1, <1>2

LEMMA ContractDeletedWrites ==
    ASSUME db \in Tables, NEW a \in Addrs
    PROVE  LET d == ContractDeleted(a) IN
           /\ d \in Tables /\ SameMembers(d) /\ SameApps(d) /\ SameOrgs(d) /\ d.umbrella = db.umbrella
           /\ d.contract = [db.contract EXCEPT ![a] = NotRegistered]
           /\ d.fn = [p \in FnPerms |-> IF db.fn[p].addr = a THEN [db.fn[p] EXCEPT !.live = FALSE] ELSE db.fn[p]]
           /\ d.ev = [p \in EvPerms |-> IF db.ev[p].addr = a THEN [db.ev[p] EXCEPT !.live = FALSE] ELSE db.ev[p]]
<1> DEFINE contracts == [db.contract EXCEPT ![a] = NotRegistered]
           fn == [p \in FnPerms |-> IF db.fn[p].addr = a THEN [db.fn[p] EXCEPT !.live = FALSE] ELSE db.fn[p]]
           ev == [p \in EvPerms |-> IF db.ev[p].addr = a THEN [db.ev[p] EXCEPT !.live = FALSE] ELSE db.ev[p]]
<1>2. ContractDeleted(a) = [db EXCEPT !.contract = contracts, !.fn = fn, !.ev = ev]
    BY DEF ContractDeleted, Tables
<1>3. contracts \in [Addrs -> Deployed]
    BY RowsTyped, DeployedEdits
<1>4. fn \in [FnPerms -> FnRows]
    <2> SUFFICES \A p \in FnPerms : fn[p] \in FnRows
        OBVIOUS
    <2> QED BY RowsTyped, FnRowEdits
<1>5. ev \in [EvPerms -> EvRows]
    <2> SUFFICES \A p \in EvPerms : ev[p] \in EvRows
        OBVIOUS
    <2> QED BY RowsTyped, EvRowEdits
<1> HIDE DEF contracts, fn, ev
<1>6. LET d == ContractDeleted(a) IN
      /\ d \in Tables /\ SameMembers(d) /\ SameApps(d) /\ SameOrgs(d) /\ d.umbrella = db.umbrella
      /\ d.contract = contracts /\ d.fn = fn /\ d.ev = ev
    BY <1>2, <1>3, <1>4, <1>5, ZenonT(60) DEF Tables, SameMembers, SameRegistry, SameApps, SameOrgs
<1> QED BY <1>6 DEF contracts, fn, ev

LEMMA FnInsertedWrites ==
    ASSUME db \in Tables, NEW q, q.fn \in FnPerms, q.addr \in Addrs, q.roles \in SUBSET Roles,
           q.orgOnly \in BOOLEAN, q.umbrella \in BOOLEAN
    PROVE  LET d == FnInserted(q) IN
           /\ d \in Tables /\ SameMembers(d) /\ SameApps(d) /\ SameOrgs(d)
           /\ d.contract = db.contract /\ d.ev = db.ev /\ d.umbrella = db.umbrella
           /\ d = db \/
              /\ ~db.fn[q.fn].live /\ db.contract[q.addr].live /\ AllLive(q.roles)
              /\ d.fn = [db.fn EXCEPT ![q.fn] = [live |-> TRUE, addr |-> q.addr, orgOnly |-> q.orgOnly,
                                                 umbrella |-> q.umbrella, roles |-> q.roles]]
<1> DEFINE row == [live |-> TRUE, addr |-> q.addr, orgOnly |-> q.orgOnly, umbrella |-> q.umbrella, roles |-> q.roles]
           fn == [db.fn EXCEPT ![q.fn] = row]
<1>1. CASE FnInserted(q) = db
    BY <1>1, Unwritten DEF SameRegistry
<1>2. CASE FnInserted(q) # db
    <2>1. fn \in [FnPerms -> FnRows]
        <3>1. row \in FnRows
            BY DEF FnRows
        <3> HIDE DEF row
        <3> QED BY <3>1, RowsTyped
    <2>2. /\ ~db.fn[q.fn].live /\ db.contract[q.addr].live /\ AllLive(q.roles)
          /\ FnInserted(q) = [db EXCEPT !.fn = fn]
        BY <1>2 DEF FnInserted, Tables
    <2> HIDE DEF fn
    <2>3. LET d == FnInserted(q) IN
          /\ d \in Tables /\ SameMembers(d) /\ SameApps(d) /\ SameOrgs(d)
          /\ d.contract = db.contract /\ d.ev = db.ev /\ d.umbrella = db.umbrella /\ d.fn = fn
        BY <2>1, <2>2, FnWrites
    <2> QED BY <2>2, <2>3 DEF fn, row
<1> QED BY <1>1, <1>2

LEMMA FnUpdatedWrites ==
    ASSUME db \in Tables, NEW q, q.fn \in FnPerms, q.roles \in SUBSET Roles,
           q.orgOnly \in BOOLEAN, q.umbrella \in BOOLEAN
    PROVE  LET d == FnUpdated(q) IN
           /\ d \in Tables /\ SameMembers(d) /\ SameApps(d) /\ SameOrgs(d)
           /\ d.contract = db.contract /\ d.ev = db.ev /\ d.umbrella = db.umbrella
           /\ d = db \/
              /\ db.fn[q.fn].live /\ db.fn[q.fn].addr = q.addr /\ AllLive(q.roles)
              /\ d.fn = [db.fn EXCEPT ![q.fn] = [db.fn[q.fn] EXCEPT !.orgOnly = q.orgOnly, !.umbrella = q.umbrella,
                                                                    !.roles = q.roles]]
<1> DEFINE row == [db.fn[q.fn] EXCEPT !.orgOnly = q.orgOnly, !.umbrella = q.umbrella, !.roles = q.roles]
           fn == [db.fn EXCEPT ![q.fn] = row]
<1>1. CASE FnUpdated(q) = db
    BY <1>1, Unwritten DEF SameRegistry
<1>2. CASE FnUpdated(q) # db
    <2>1. fn \in [FnPerms -> FnRows]
        <3>1. row \in FnRows
            BY RowsTyped, FnRowEdits
        <3> HIDE DEF row
        <3> QED BY <3>1, RowsTyped
    <2>2. /\ db.fn[q.fn].live /\ db.fn[q.fn].addr = q.addr /\ AllLive(q.roles)
          /\ FnUpdated(q) = [db EXCEPT !.fn = fn]
        BY <1>2 DEF FnUpdated, Tables
    <2> HIDE DEF fn
    <2>3. LET d == FnUpdated(q) IN
          /\ d \in Tables /\ SameMembers(d) /\ SameApps(d) /\ SameOrgs(d)
          /\ d.contract = db.contract /\ d.ev = db.ev /\ d.umbrella = db.umbrella /\ d.fn = fn
        BY <2>1, <2>2, FnWrites
    <2> QED BY <2>2, <2>3 DEF fn, row
<1> QED BY <1>1, <1>2

LEMMA FnDeletedWrites ==
    ASSUME db \in Tables, NEW p \in FnPerms
    PROVE  LET d == [db EXCEPT !.fn[p].live = FALSE] IN
           /\ d \in Tables /\ SameMembers(d) /\ SameApps(d) /\ SameOrgs(d)
           /\ d.contract = db.contract /\ d.ev = db.ev /\ d.umbrella = db.umbrella
           /\ d.fn = [db.fn EXCEPT ![p] = [db.fn[p] EXCEPT !.live = FALSE]]
<1> DEFINE fn == [db.fn EXCEPT ![p] = [db.fn[p] EXCEPT !.live = FALSE]]
<1>1. fn \in [FnPerms -> FnRows]
    BY RowsTyped, FnRowEdits
<1>2. [db EXCEPT !.fn[p].live = FALSE] = [db EXCEPT !.fn = fn]
    BY DEF Tables
<1> HIDE DEF fn
<1>3. LET d == [db EXCEPT !.fn[p].live = FALSE] IN
      /\ d \in Tables /\ SameMembers(d) /\ SameApps(d) /\ SameOrgs(d)
      /\ d.contract = db.contract /\ d.ev = db.ev /\ d.umbrella = db.umbrella /\ d.fn = fn
    BY <1>1, <1>2, FnWrites
<1> QED BY <1>3 DEF fn

LEMMA EvWrites ==
    ASSUME db \in Tables, NEW E \in [EvPerms -> EvRows], NEW d, d = [db EXCEPT !.ev = E]
    PROVE  /\ d \in Tables /\ SameMembers(d) /\ SameApps(d) /\ SameOrgs(d)
           /\ d.contract = db.contract /\ d.fn = db.fn /\ d.umbrella = db.umbrella /\ d.ev = E
BY DEF Tables, SameMembers, SameRegistry, SameApps, SameOrgs

LEMMA EvWritten ==
    ASSUME db \in Tables, NEW q, q.ev \in EvPerms, q.addr \in Addrs, q.roles \in SUBSET Roles, q.orgOnly \in BOOLEAN
    PROVE  \A d \in {EvInserted(q), EvUpdated(q)} :
           /\ d \in Tables /\ SameMembers(d) /\ SameApps(d) /\ SameOrgs(d)
           /\ d.contract = db.contract /\ d.fn = db.fn /\ d.umbrella = db.umbrella
           /\ d = db \/
              /\ db.contract[q.addr].live /\ AllLive(q.roles)
              /\ d.ev = [db.ev EXCEPT ![q.ev] = [live |-> TRUE, addr |-> q.addr, orgOnly |-> q.orgOnly, roles |-> q.roles]]
<1> DEFINE row == [live |-> TRUE, addr |-> q.addr, orgOnly |-> q.orgOnly, roles |-> q.roles]
           ev == [db.ev EXCEPT ![q.ev] = row]
<1> SUFFICES ASSUME NEW d, d = EvInserted(q) \/ d = EvUpdated(q)
             PROVE  /\ d \in Tables /\ SameMembers(d) /\ SameApps(d) /\ SameOrgs(d)
                    /\ d.contract = db.contract /\ d.fn = db.fn /\ d.umbrella = db.umbrella
                    /\ d = db \/ (db.contract[q.addr].live /\ AllLive(q.roles) /\ d.ev = ev)
    OBVIOUS
<1>1. CASE d = db
    BY <1>1, Unwritten DEF SameRegistry
<1>2. CASE d # db
    <2>1. ev \in [EvPerms -> EvRows]
        <3>1. row \in EvRows
            BY DEF EvRows
        <3> HIDE DEF row
        <3> QED BY <3>1, RowsTyped
    <2>2. db.contract[q.addr].live /\ AllLive(q.roles) /\ d = [db EXCEPT !.ev = ev]
        BY <1>2 DEF EvInserted, EvUpdated, Tables
    <2> HIDE DEF ev
    <2> QED BY <2>1, <2>2, EvWrites
<1> QED BY <1>1, <1>2

LEMMA EvInsertedNew ==
    ASSUME NEW q, EvInserted(q) # db
    PROVE  ~db.ev[q.ev].live
BY DEF EvInserted

LEMMA EvDeletedWrites ==
    ASSUME db \in Tables, NEW p \in EvPerms
    PROVE  LET d == [db EXCEPT !.ev[p].live = FALSE] IN
           /\ d \in Tables /\ SameMembers(d) /\ SameApps(d) /\ SameOrgs(d)
           /\ d.contract = db.contract /\ d.fn = db.fn /\ d.umbrella = db.umbrella
           /\ d.ev = [db.ev EXCEPT ![p] = [db.ev[p] EXCEPT !.live = FALSE]]
<1> DEFINE ev == [db.ev EXCEPT ![p] = [db.ev[p] EXCEPT !.live = FALSE]]
<1>1. ev \in [EvPerms -> EvRows]
    BY RowsTyped, EvRowEdits
<1>2. [db EXCEPT !.ev[p].live = FALSE] = [db EXCEPT !.ev = ev]
    BY DEF Tables
<1> HIDE DEF ev
<1>3. LET d == [db EXCEPT !.ev[p].live = FALSE] IN
      /\ d \in Tables /\ SameMembers(d) /\ SameApps(d) /\ SameOrgs(d)
      /\ d.contract = db.contract /\ d.fn = db.fn /\ d.umbrella = db.umbrella /\ d.ev = ev
    BY <1>1, <1>2, EvWrites
<1> QED BY <1>3 DEF ev

LEMMA TemplateWrites ==
    ASSUME db \in Tables, NEW t \in Templates
    PROVE  \A d \in {TemplateUmbrella(t), TemplatePlain(t), TemplateDeleted(t)} :
           /\ d \in Tables /\ SameMembers(d) /\ SameApps(d) /\ SameOrgs(d)
           /\ d.fn = db.fn /\ d.ev = db.ev
           /\ \A a \in Addrs : /\ d.contract[a].live = db.contract[a].live
                               /\ d.contract[a].owner = db.contract[a].owner
<1> DEFINE contracts == [a \in Addrs |-> IF db.contract[a].template = t THEN [db.contract[a] EXCEPT !.template = NoTemplate]
                                         ELSE db.contract[a]]
           umbrella == db.umbrella \ {t}
<1>1. contracts \in [Addrs -> Deployed]
    <2> SUFFICES \A a \in Addrs : contracts[a] \in Deployed
        OBVIOUS
    <2> QED BY RowsTyped, DeployedEdits
<1>2. \A a \in Addrs : contracts[a].live = db.contract[a].live /\ contracts[a].owner = db.contract[a].owner
    BY RowsTyped DEF Deployed
<1>3. ASSUME NEW d, d = TemplateUmbrella(t) \/ d = TemplatePlain(t)
      PROVE  /\ d \in Tables /\ SameMembers(d) /\ SameApps(d) /\ SameOrgs(d)
             /\ d.fn = db.fn /\ d.ev = db.ev /\ d.contract = db.contract
    BY <1>3 DEF Tables, SameMembers, SameRegistry, SameApps, SameOrgs, TemplateUmbrella, TemplatePlain
<1>4. TemplateDeleted(t) = [db EXCEPT !.umbrella = umbrella, !.contract = contracts]
    BY DEF TemplateDeleted, TemplatePlain, Tables
<1>5. umbrella \in SUBSET Templates
    BY RowsTyped
<1> HIDE DEF contracts, umbrella
<1>6. LET d == TemplateDeleted(t) IN
      /\ d \in Tables /\ SameMembers(d) /\ SameApps(d) /\ SameOrgs(d)
      /\ d.fn = db.fn /\ d.ev = db.ev /\ d.contract = contracts
    BY <1>1, <1>4, <1>5 DEF Tables, SameMembers, SameRegistry, SameApps, SameOrgs
<1> QED BY <1>2, <1>3, <1>6

-----------------------------------------------------------------------------
(* Every handler is the arrival of a request, or its landing               *)

\* What the handlers rely on where a request arrives.
Ready == db \in Tables /\ AdminRoles /\ HeldRows

\* Who sends it is, unless it is gone, an admin of the organization.
Sent(q) ==
    (~q.zone /\ "by" \in DOMAIN q) =>
        ~db.user[q.by].live \/ (q.by \in Users /\ ~ZoneAdmin(q.by) /\ OrgAdmin(q.by, q.org))

\* A request as it arrives.
Fresh(q) == q # Idle /\ Shape(q) /\ Scope(q) /\ Granted(q) /\ Sent(q)

\* The step of a handler that admits a request.
Arrival(s) == req[s] = Idle /\ \E q : Fresh(q) /\ Arrive(s, q)

\* The rows a request is about.
Subjects(q) ==
    CASE q.kind \in {"createOrg", "updateOrg", "deleteOrg"} -> {q.org}
      [] q.kind \in {"firstLogin", "elevate"} -> {q.by}
      [] q.kind \in {"addUser", "invite", "removeUser", "commitRoles", "updateUser", "deleteUser",
                     "appUser", "tenantUser", "appWallet"} -> {q.user}
      [] q.kind \in {"createRole", "updateRole", "deleteRole"} -> {q.role}
      [] q.kind \in {"createApp", "updateApp", "deleteApp", "linkApp", "access"} -> {q.app}
      [] q.kind = "postContract" -> {q.addr}
      [] q.kind = "putContract" -> {q.addr, q.to} \cup OnAddr(q.addr) \cup EventsOn(q.addr)
      [] q.kind = "deleteContract" -> {q.addr} \cup OnAddr(q.addr) \cup EventsOn(q.addr)
      [] q.kind = "postFn" -> {q.fn, q.addr}
      [] q.kind \in {"putFn", "deleteFn"} -> {q.fn}
      [] q.kind = "postEv" -> {q.ev, q.addr}
      [] q.kind \in {"putEv", "deleteEv"} -> {q.ev}
      [] OTHER -> {}

\* What an edit of a contract relies on still holds.
AsRead(q) ==
    /\ OwnsContract(q.org, q.addr) /\ TemplateAllowed(q.template)
    /\ IF q.addr = q.to THEN db.contract[q.addr].disclose = q.read
       ELSE \A p \in OnAddr(q.addr) : ~db.fn[p].umbrella

\* What a request has read and relies on still holds where it lands.
Current(q) ==
    CASE q.kind = "createOrg" -> NonDeleted < db.quota
      [] q.kind \in {"updateOrg", "deleteOrg", "invite", "appUser"} -> Live(q.org)
      [] q.kind = "firstLogin" -> (q.org # Zone => Live(q.org))
      [] q.kind = "elevate" -> db.user[q.by].org = Zone /\ RolesOf(q.by) \subseteq q.roles
      [] q.kind = "addUser" -> MayJoin(q.user, q.org)
      [] q.kind = "removeUser" -> db.user[q.user].org = q.org
      [] q.kind = "commitRoles" -> Member(q.user, q.org)
      [] q.kind = "updateUser" -> db.user[q.user].org = q.org /\ RolesMatch(q.roles, q.org) /\ (q.org # Zone => Live(q.org))
      [] q.kind = "deleteUser" -> ManagedHere(q.user)
      [] q.kind = "updateRole" -> q.moved = q.org
      [] q.kind = "appWallet" -> Member(q.user, q.org) /\ Live(q.org)
      [] q.kind = "postContract" -> TemplateAllowed(q.template) /\ ~UnderRead(q.addr)
      [] q.kind = "putContract" -> (q.zone \/ AsRead(q)) /\ (q.addr # q.to => ~UnderRead(q.to))
      [] q.kind \in {"deleteContract", "postFn", "postEv"} -> StillOwns(q)
      [] q.kind = "putFn" -> StillOwns(q) /\ (q.zone \/ db.fn[q.fn].umbrella = q.read)
      [] q.kind = "deleteFn" -> StillOwns(q) /\ (q.zone \/ db.fn[q.fn].addr = q.addr)
      [] q.kind \in {"putEv", "deleteEv"} -> StillOwns(q) /\ (q.zone \/ db.ev[q.ev].addr = q.addr)
      [] OTHER -> TRUE

\* The tables after a request.
Effect(q) ==
    CASE q.kind = "createOrg" -> OrgInserted(q)
      [] q.kind = "updateOrg" -> OrgUpdated(q)
      [] q.kind = "deleteOrg" -> OrgRevoked(q.org, Released(q.org))
      [] q.kind = "seedAdmin" -> [db EXCEPT !.pending = @ \cup {<<q.org, q.user>>}]
      [] q.kind = "withdrawAdmin" -> [db EXCEPT !.pending = @ \ {<<q.org, q.user>>}]
      [] q.kind = "setIdp" -> IdpSet(q)
      [] q.kind = "firstLogin" -> Bootstrapped(q)
      [] q.kind = "elevate" -> IF db.user[q.by].live /\ MayHold(q.by, q.roles)
                               THEN [db EXCEPT !.holds = Without(q.by) \cup Grant(q.by, q.roles)] ELSE db
      [] q.kind = "addUser" -> Joined(q)
      [] q.kind = "invite" -> Invited(q)
      [] q.kind = "removeUser" -> Removed(q)
      [] q.kind = "commitRoles" -> RolesSet(q)
      [] q.kind \in {"createUser", "appUser", "tenantUser"} -> MemberCreated(q)
      [] q.kind = "updateUser" -> UserUpdated(q)
      [] q.kind = "deleteUser" -> UserDeleted(q.user)
      [] q.kind = "createRole" -> RoleInserted(q)
      [] q.kind = "updateRole" -> RoleUpdated(q)
      [] q.kind = "deleteRole" -> IF Scoped(q.role, q.org) THEN DropRole(q.role) ELSE db
      [] q.kind = "createApp" -> AppInserted(q)
      [] q.kind = "updateApp" -> AppUpdated(q)
      [] q.kind = "deleteApp" -> AppDeleted(q)
      [] q.kind = "linkApp" -> Relinked(q)
      [] q.kind = "access" -> IF ~LiveApp(q.app) THEN db ELSE IF q.what = "key" THEN KeysChanged(q) ELSE IpsChanged(q)
      [] q.kind = "appWallet" -> WalletAdded(q.user)
      [] q.kind = "updateTenant" -> TenantUpdated(q)
      [] q.kind = "postContract" -> ContractInserted(q)
      [] q.kind = "putContract" -> Rewritten(q)
      [] q.kind = "deleteContract" -> ContractDeleted(q.addr)
      [] q.kind = "postFn" -> FnInserted(q)
      [] q.kind = "putFn" -> FnUpdated(q)
      [] q.kind = "deleteFn" -> [db EXCEPT !.fn[q.fn].live = FALSE]
      [] q.kind = "postEv" -> EvInserted(q)
      [] q.kind = "putEv" -> EvUpdated(q)
      [] q.kind = "deleteEv" -> [db EXCEPT !.ev[q.ev].live = FALSE]
      [] q.kind = "template" -> IF q.umbrella THEN TemplateUmbrella(q.template) ELSE TemplatePlain(q.template)
      [] q.kind = "noTemplate" -> TemplateDeleted(q.template)
      [] OTHER -> db

\* The step of a handler that writes.
Landing(s) ==
    /\ req[s] # Idle /\ req[s].kind \notin {"setRoles", "clearUmbrella"}
    /\ Land(s, Subjects(req[s]), Current(req[s]), Effect(req[s]))

LEMMA Owners ==
    ASSUME db \in Tables
    PROVE  /\ \A u \in Users : db.user[u].org \in Scopes
           /\ \A a \in Addrs : OwnerOf(a) \in Scopes
           /\ \A p \in FnPerms : db.fn[p].addr \in Addrs /\ db.fn[p].umbrella \in BOOLEAN
           /\ \A p \in EvPerms : db.ev[p].addr \in Addrs
<1>1. \A u \in Users : db.user[u] \in UserRows
    BY RowsTyped
<1>2. \A a \in Addrs : db.contract[a] \in Deployed
    BY RowsTyped
<1>3. \A p \in FnPerms : db.fn[p] \in FnRows
    BY RowsTyped
<1>4. \A p \in EvPerms : db.ev[p] \in EvRows
    BY RowsTyped
<1> QED BY <1>1, <1>2, <1>3, <1>4 DEF UserRows, Deployed, FnRows, EvRows, OwnerOf

LEMMA OwnAdmin ==
    ASSUME NEW u, NEW o, AdminsOwn(u, o)
    PROVE  o # Zone /\ OrgAdmin(u, o) /\ Live(o)
BY DEF AdminsOwn

LEMMA ZoneAdminBool ==
    ASSUME NEW u
    PROVE  ZoneAdmin(u) \in BOOLEAN
BY DEF ZoneAdmin

LEMMA HeldLive ==
    ASSUME HeldRows, NEW u, NEW r, <<u, r>> \in db.holds
    PROVE  db.user[u].live /\ db.role[r].state = "live"
BY DEF HeldRows, LiveRole

LEMMA UpdateUserArrives ==
    ASSUME Ready, NEW s \in Slots, UpdateUser(s), req[s] = Idle
    PROVE  Arrival(s)
<1>0. ~Serving(s, "updateUser")
    BY DEF Serving, Idle
<1>1. PICK u \in Users, v \in Users, R \in RoleSets, w \in BOOLEAN :
         /\ ZoneAdmin(u)
         /\ Arrive(s, [kind |-> "updateUser", by |-> u, zone |-> TRUE, org |-> db.user[v].org, user |-> v,
                       roles |-> R, wallet |-> w])
    BY <1>0, Zenon DEF UpdateUser
<1> QED BY <1>1, RowsTyped, Owners, OwnAdmin, ZoneAdminBool
           DEF Ready, Arrival, Fresh, Shape, Scope, Granted, Sent, Scopes, RoleSets, Idle

LEMMA CreateRoleArrives ==
    ASSUME Ready, NEW s \in Slots, CreateRole(s), req[s] = Idle
    PROVE  Arrival(s)
<1>0. ~Serving(s, "createRole")
    BY DEF Serving, Idle
<1>1. PICK u \in Users, r \in Roles, o \in Scopes, admin \in BOOLEAN :
         /\ db.role[r].state = "none" /\ ~db.role[r].system /\ MayCreateRole(u, o, admin)
         /\ Arrive(s, [kind |-> "createRole", by |-> u, zone |-> ZoneAdmin(u), org |-> o, role |-> r,
                       admin |-> admin])
    BY <1>0, Zenon DEF CreateRole
<1> QED BY <1>1, RowsTyped, Owners, OwnAdmin, ZoneAdminBool
           DEF Ready, Arrival, Fresh, Shape, Scope, Granted, Sent, Scopes, RoleSets, Idle, MayCreateRole

LEMMA UpdateRoleArrives ==
    ASSUME Ready, NEW s \in Slots, UpdateRole(s), req[s] = Idle
    PROVE  Arrival(s)
<1>0. ~Serving(s, "updateRole")
    BY DEF Serving, Idle
<1>1. PICK u \in Users, r \in Roles, o \in Scopes, to \in Scopes, admin \in BOOLEAN :
         /\ OnRoles(u, o) /\ (o # Zone => ~admin /\ to = o)
         /\ Arrive(s, [kind |-> "updateRole", by |-> u, zone |-> ZoneAdmin(u), org |-> o, role |-> r,
                       admin |-> admin, moved |-> to])
    BY <1>0, Zenon DEF UpdateRole
<1> QED BY <1>1, RowsTyped, Owners, OwnAdmin, ZoneAdminBool
           DEF Ready, Arrival, Fresh, Shape, Scope, Granted, Sent, Scopes, RoleSets, Idle, OnRoles

LEMMA CreateAppArrives ==
    ASSUME Ready, NEW s \in Slots, CreateApp(s), req[s] = Idle
    PROVE  Arrival(s)
<1>0. ~Serving(s, "createApp")
    BY DEF Serving, Idle
<1>1. PICK u \in Users, p \in Apps, o \in Scopes, R \in RoleSets, L \in SUBSET Orgs :
         /\ IF o = Zone THEN ZoneCreatesApp(u, R, L) ELSE AdminsOwn(u, o) /\ MayAttach(R, o) /\ L = {}
         /\ Arrive(s, [kind |-> "createApp", by |-> u, zone |-> ZoneAdmin(u), org |-> o, app |-> p, roles |-> R, links |-> L])
    BY <1>0, Zenon DEF CreateApp
<1>2. o = Zone => ZoneAdmin(u)
    BY <1>1 DEF ZoneCreatesApp
<1>3. o # Zone => OrgAdmin(u, o) /\ \A r \in R : OrgRole(r, o) /\ ~db.role[r].admin
    BY <1>1, OwnAdmin DEF MayAttach, OrgRole, RoleOwnedBy, LiveRole
<1>4. /\ o \in Orgs => db.org[o] # "none"
      /\ \A l \in L : l \in Orgs /\ db.org[l] # "none"
    BY <1>1, OwnAdmin, AdminAssumption DEF ZoneCreatesApp, Live
<1> QED BY <1>1, <1>2, <1>3, <1>4, RowsTyped, Owners, OwnAdmin, ZoneAdminBool
           DEF Ready, Arrival, Fresh, Shape, Scope, Granted, Sent, Scopes, RoleSets, Idle

LEMMA UpdateAppArrives ==
    ASSUME Ready, NEW s \in Slots, UpdateApp(s), req[s] = Idle
    PROVE  Arrival(s)
<1>0. ~Serving(s, "updateApp")
    BY DEF Serving, Idle
<1>1. PICK u \in Users, p \in Apps, o \in Scopes, R \in RoleSets :
         /\ OnApps(u, o)
         /\ Arrive(s, [kind |-> "updateApp", by |-> u, zone |-> ZoneAdmin(u), org |-> o, app |-> p, roles |-> R])
    BY <1>0, Zenon DEF UpdateApp
<1>2. o \in Orgs => db.org[o] # "none"
    BY <1>1, OwnAdmin, AdminAssumption DEF OnApps, Live
<1> QED BY <1>1, <1>2, RowsTyped, Owners, OwnAdmin, ZoneAdminBool
           DEF Ready, Arrival, Fresh, Shape, Scope, Granted, Sent, Scopes, RoleSets, Idle, OnApps

LEMMA SetAccessArrives ==
    ASSUME Ready, NEW s \in Slots, SetAccess(s), req[s] = Idle
    PROVE  Arrival(s)
<1>0. ~Serving(s, "access")
    BY DEF Serving, Idle
<1>1. PICK u \in Users, p \in Apps, o \in Scopes, what \in {"key", "ip"}, on \in BOOLEAN :
         /\ IF o = Zone THEN ZoneSetsAccess(u, p) ELSE AdminsOwn(u, o) /\ OwnsCredential(o, p)
         /\ Arrive(s, [kind |-> "access", by |-> u, zone |-> ZoneAdmin(u), org |-> o, app |-> p, what |-> what, on |-> on])
    BY <1>0, Zenon DEF SetAccess
<1>2. o = Zone => ZoneAdmin(u)
    BY <1>1 DEF ZoneSetsAccess
<1>3. o # Zone => OrgAdmin(u, o) /\ db.app[p].state # "none" /\ db.app[p].owner = o
    BY <1>1, OwnAdmin DEF OwnsCredential, Owns, LiveApp
<1> QED BY <1>1, <1>2, <1>3, RowsTyped, Owners, OwnAdmin, ZoneAdminBool
           DEF Ready, Arrival, Fresh, Shape, Scope, Granted, Sent, Scopes, RoleSets, Idle

LEMMA PostContractArrives ==
    ASSUME Ready, NEW s \in Slots, PostContract(s), req[s] = Idle
    PROVE  Arrival(s)
<1>0. ~Serving(s, "postContract")
    BY DEF Serving, Idle
<1>1. PICK u \in Users, a \in Addrs, o \in Scopes,
            t \in Templates \cup {NoTemplate}, disclose \in BOOLEAN, onZone \in BOOLEAN :
         /\ IF onZone THEN OwnerNamed(u) ELSE RegistersOwn(u, a, o, t, disclose)
         /\ Arrive(s, [kind |-> "postContract", by |-> u, zone |-> ZoneAdmin(u), org |-> o, addr |-> a,
                       template |-> t, disclose |-> disclose])
    BY <1>0, ZenonT(60) DEF PostContract
<1>2. ZoneAdmin(u) \/ (o # Zone /\ OrgAdmin(u, o) /\ ~disclose)
    BY <1>1, OwnAdmin DEF OwnerNamed, RegistersOwn
<1> QED BY <1>1, <1>2, RowsTyped, Owners, OwnAdmin, ZoneAdminBool
           DEF Ready, Arrival, Fresh, Shape, Scope, Granted, Sent, Scopes, RoleSets, Idle

LEMMA PostFnArrives ==
    ASSUME Ready, NEW s \in Slots, PostFn(s), req[s] = Idle
    PROVE  Arrival(s)
<1>0. ~Serving(s, "postFn")
    BY DEF Serving, Idle
<1>1. PICK u \in Users, a \in Addrs, p \in FnPerms, R \in RoleSets,
            orgOnly \in BOOLEAN, umbrella \in BOOLEAN, onZone \in BOOLEAN :
         /\ db.contract[a].live /\ ~db.fn[p].live
         /\ IF onZone THEN ZoneWrites(u, R) ELSE OrgWrites(u, a, R, orgOnly) /\ ~umbrella
         /\ Arrive(s, [kind |-> "postFn", by |-> u, zone |-> ZoneAdmin(u), org |-> OwnerOf(a), fn |-> p, addr |-> a,
                       roles |-> R, orgOnly |-> orgOnly, umbrella |-> umbrella])
    BY <1>0, Zenon DEF PostFn
<1>2. ZoneAdmin(u) \/ (~umbrella /\ OwnerOf(a) # Zone /\ OrgAdmin(u, OwnerOf(a)) /\ \A r \in R : OrgRole(r, OwnerOf(a)))
    BY <1>1, OwnAdmin DEF ZoneWrites, OrgWrites, OrgRoles, OrgRole, LiveRole
<1> QED BY <1>1, <1>2, RowsTyped, Owners, OwnAdmin, ZoneAdminBool
           DEF Ready, Arrival, Fresh, Shape, Scope, Granted, Sent, Scopes, RoleSets, Idle

LEMMA PutFnArrives ==
    ASSUME Ready, NEW s \in Slots, PutFn(s), req[s] = Idle
    PROVE  Arrival(s)
<1>0. ~Serving(s, "putFn")
    BY DEF Serving, Idle
<1>1. PICK u \in Users, p \in FnPerms, R \in RoleSets, orgOnly \in BOOLEAN, umbrella \in BOOLEAN, onZone \in BOOLEAN :
         LET a == db.fn[p].addr IN
         /\ IF onZone THEN ZoneWrites(u, R) ELSE OrgWrites(u, a, R, orgOnly)
         /\ Arrive(s, [kind |-> "putFn", by |-> u, zone |-> ZoneAdmin(u), org |-> OwnerOf(a), fn |-> p, addr |-> a, roles |-> R,
                       orgOnly |-> orgOnly, umbrella |-> IF onZone THEN umbrella ELSE KeptUmbrella(p),
                       read |-> db.fn[p].umbrella])
    BY <1>0 DEF PutFn
<1>2. ZoneAdmin(u) \/
      (~onZone /\ OwnerOf(db.fn[p].addr) # Zone /\ OrgAdmin(u, OwnerOf(db.fn[p].addr))
       /\ \A r \in R : OrgRole(r, OwnerOf(db.fn[p].addr)))
    BY <1>1, OwnAdmin DEF ZoneWrites, OrgWrites, OrgRoles, OrgRole, LiveRole
<1> QED BY <1>1, <1>2, RowsTyped, Owners, OwnAdmin, ZoneAdminBool
           DEF Ready, Arrival, Fresh, Shape, Scope, Granted, Sent, Scopes, RoleSets, Idle, KeptUmbrella

LEMMA PostEvArrives ==
    ASSUME Ready, NEW s \in Slots, PostEv(s), req[s] = Idle
    PROVE  Arrival(s)
<1>0. ~Serving(s, "postEv")
    BY DEF Serving, Idle
<1>1. PICK u \in Users, a \in Addrs, p \in EvPerms, R \in RoleSets, orgOnly \in BOOLEAN, onZone \in BOOLEAN :
         /\ IF onZone THEN ZoneWrites(u, R) ELSE OrgWrites(u, a, R, orgOnly)
         /\ Arrive(s, [kind |-> "postEv", by |-> u, zone |-> ZoneAdmin(u), org |-> OwnerOf(a), ev |-> p, addr |-> a,
                       roles |-> R, orgOnly |-> orgOnly])
    BY <1>0, ZenonT(60) DEF PostEv
<1>2. ZoneAdmin(u) \/ (OwnerOf(a) # Zone /\ OrgAdmin(u, OwnerOf(a)) /\ \A r \in R : OrgRole(r, OwnerOf(a)))
    BY <1>1, OwnAdmin DEF ZoneWrites, OrgWrites, OrgRoles, OrgRole, LiveRole
<1> QED BY <1>1, <1>2, RowsTyped, Owners, OwnAdmin, ZoneAdminBool
           DEF Ready, Arrival, Fresh, Shape, Scope, Granted, Sent, Scopes, RoleSets, Idle

LEMMA PutEvArrives ==
    ASSUME Ready, NEW s \in Slots, PutEv(s), req[s] = Idle
    PROVE  Arrival(s)
<1>0. ~Serving(s, "putEv")
    BY DEF Serving, Idle
<1>1. PICK u \in Users, a \in Addrs, p \in EvPerms, R \in RoleSets, orgOnly \in BOOLEAN, onZone \in BOOLEAN :
         /\ db.ev[p].live /\ db.contract[a].live
         /\ IF onZone THEN ZoneWrites(u, R) ELSE db.ev[p].addr = a /\ OrgWrites(u, a, R, orgOnly)
         /\ Arrive(s, [kind |-> "putEv", by |-> u, zone |-> ZoneAdmin(u), org |-> OwnerOf(a), ev |-> p, addr |-> a,
                       roles |-> R, orgOnly |-> orgOnly])
    BY <1>0, Zenon DEF PutEv
<1>2. ZoneAdmin(u) \/ (OwnerOf(a) # Zone /\ OrgAdmin(u, OwnerOf(a)) /\ \A r \in R : OrgRole(r, OwnerOf(a)))
    BY <1>1, OwnAdmin DEF ZoneWrites, OrgWrites, OrgRoles, OrgRole, LiveRole
<1> QED BY <1>1, <1>2, RowsTyped, Owners, OwnAdmin, ZoneAdminBool
           DEF Ready, Arrival, Fresh, Shape, Scope, Granted, Sent, Scopes, RoleSets, Idle

LEMMA PutContractArrives ==
    ASSUME Ready, NEW s \in Slots, PutContract(s), req[s] = Idle
    PROVE  Arrival(s)
<1>0. ~Serving(s, "putContract") /\ ~Serving(s, "clearUmbrella")
    BY DEF Serving, Idle
<1>1. PICK u \in Users, a \in Addrs, b \in Addrs,
            t \in Templates \cup {NoTemplate}, disclose \in BOOLEAN, onZone \in BOOLEAN :
         /\ IF onZone THEN ZoneAdmin(u) ELSE EditsOwn(u, a, b, t, disclose)
         /\ Arrive(s, [kind |-> IF onZone \/ a = b THEN "putContract" ELSE "clearUmbrella", by |-> u,
                       zone |-> ZoneAdmin(u), org |-> OwnerOf(a), addr |-> a, to |-> b,
                       template |-> t, disclose |-> disclose, read |-> db.contract[a].disclose])
    BY <1>0 DEF PutContract
<1>2. ZoneAdmin(u) \/
      (OwnerOf(a) # Zone /\ OrgAdmin(u, OwnerOf(a)) /\ disclose = (a = b /\ db.contract[a].disclose))
    BY <1>1, OwnAdmin DEF EditsOwn, KeptDisclosure
<1> QED BY <1>1, <1>2, RowsTyped, Owners, OwnAdmin, ZoneAdminBool
           DEF Ready, Arrival, Fresh, Shape, Scope, Granted, Sent, Scopes, RoleSets, Idle

LEMMA CreateOrgStep ==
    ASSUME Ready, NEW s \in Slots, CreateOrg(s)
    PROVE  Arrival(s) \/ Landing(s)
<1>1. ASSUME req[s] = Idle
      PROVE  Arrival(s)
    <2>1. \A kind \in {"createOrg"} : ~Serving(s, kind)
        BY <1>1, SMTT(60) DEF Serving, Idle
    <2> QED BY <1>1, <2>1, RowsTyped, ZoneAdminBool, AdminAssumption
               DEF Ready, CreateOrg, Arrival, Fresh, Shape, Scope, Granted, Sent, Scopes, RoleSets, Idle
<1>2. ASSUME req[s] # Idle
      PROVE  Landing(s)
    BY <1>2 DEF CreateOrg, Due, Serving, Landing, Subjects, Current, Effect, Idle
<1> QED BY <1>1, <1>2

LEMMA UpdateOrgStep ==
    ASSUME Ready, NEW s \in Slots, UpdateOrg(s)
    PROVE  Arrival(s) \/ Landing(s)
<1>1. ASSUME req[s] = Idle
      PROVE  Arrival(s)
    <2>1. \A kind \in {"updateOrg"} : ~Serving(s, kind)
        BY <1>1 DEF Serving, Idle
    <2> QED BY <1>1, <2>1, RowsTyped, ZoneAdminBool, AdminAssumption
               DEF Ready, UpdateOrg, Arrival, Fresh, Shape, Scope, Granted, Sent, Scopes, RoleSets, Idle
<1>2. ASSUME req[s] # Idle
      PROVE  Landing(s)
    BY <1>2 DEF UpdateOrg, Due, Serving, Landing, Subjects, Current, Effect, Idle
<1> QED BY <1>1, <1>2

LEMMA DeleteOrgStep ==
    ASSUME Ready, NEW s \in Slots, DeleteOrg(s)
    PROVE  Arrival(s) \/ Landing(s)
<1>1. ASSUME req[s] = Idle
      PROVE  Arrival(s)
    <2>1. \A kind \in {"deleteOrg"} : ~Serving(s, kind)
        BY <1>1 DEF Serving, Idle
    <2> QED BY <1>1, <2>1, RowsTyped, ZoneAdminBool, AdminAssumption
               DEF Ready, DeleteOrg, Arrival, Fresh, Shape, Scope, Granted, Sent, Scopes, RoleSets, Idle
<1>2. ASSUME req[s] # Idle
      PROVE  Landing(s)
    BY <1>2 DEF DeleteOrg, Due, Serving, Landing, Subjects, Current, Effect, Idle
<1> QED BY <1>1, <1>2

LEMMA SeedAdminStep ==
    ASSUME Ready, NEW s \in Slots, SeedAdmin(s)
    PROVE  Arrival(s) \/ Landing(s)
<1>1. ASSUME req[s] = Idle
      PROVE  Arrival(s)
    <2>1. \A kind \in {"seedAdmin"} : ~Serving(s, kind)
        BY <1>1 DEF Serving, Idle
    <2> QED BY <1>1, <2>1, RowsTyped, ZoneAdminBool, AdminAssumption
               DEF Ready, SeedAdmin, Arrival, Fresh, Shape, Scope, Granted, Sent, Scopes, RoleSets, Idle
<1>2. ASSUME req[s] # Idle
      PROVE  Landing(s)
    BY <1>2 DEF SeedAdmin, Due, Serving, Landing, Subjects, Current, Effect, Idle
<1> QED BY <1>1, <1>2

LEMMA WithdrawAdminStep ==
    ASSUME Ready, NEW s \in Slots, WithdrawAdmin(s)
    PROVE  Arrival(s) \/ Landing(s)
<1>1. ASSUME req[s] = Idle
      PROVE  Arrival(s)
    <2>1. \A kind \in {"withdrawAdmin"} : ~Serving(s, kind)
        BY <1>1, SMTT(60) DEF Serving, Idle
    <2> QED BY <1>1, <2>1, RowsTyped, ZoneAdminBool, AdminAssumption
               DEF Ready, WithdrawAdmin, Arrival, Fresh, Shape, Scope, Granted, Sent, Scopes, RoleSets,
                   Idle
<1>2. ASSUME req[s] # Idle
      PROVE  Landing(s)
    BY <1>2 DEF WithdrawAdmin, Due, Serving, Landing, Subjects, Current, Effect, Idle
<1> QED BY <1>1, <1>2

LEMMA SetIdpStep ==
    ASSUME Ready, NEW s \in Slots, SetIdp(s)
    PROVE  Arrival(s) \/ Landing(s)
<1>1. ASSUME req[s] = Idle
      PROVE  Arrival(s)
    <2>1. \A kind \in {"setIdp"} : ~Serving(s, kind)
        BY <1>1 DEF Serving, Idle
    <2> QED BY <1>1, <2>1, RowsTyped, ZoneAdminBool, AdminAssumption
               DEF Ready, SetIdp, Arrival, Fresh, Shape, Scope, Granted, Sent, Scopes, RoleSets, Idle
<1>2. ASSUME req[s] # Idle
      PROVE  Landing(s)
    BY <1>2 DEF SetIdp, Due, Serving, Landing, Subjects, Current, Effect, Idle
<1> QED BY <1>1, <1>2

LEMMA FirstLoginStep ==
    ASSUME Ready, NEW s \in Slots, FirstLogin(s)
    PROVE  Arrival(s) \/ Landing(s)
<1>1. ASSUME req[s] = Idle
      PROVE  Arrival(s)
    <2>1. \A kind \in {"firstLogin"} : ~Serving(s, kind)
        BY <1>1 DEF Serving, Idle
    <2> QED BY <1>1, <2>1, RowsTyped, ZoneAdminBool, AdminAssumption, ZenonT(60)
               DEF Ready, FirstLogin, Arrival, Fresh, Shape, Scope, Granted, Sent, Scopes, RoleSets,
                   Idle, FirstRoles, OrgAdminRole, OrgRole, AdminRoles
<1>2. ASSUME req[s] # Idle
      PROVE  Landing(s)
    BY <1>2 DEF FirstLogin, Due, Serving, Landing, Subjects, Current, Effect, Idle
<1> QED BY <1>1, <1>2

LEMMA ElevateStep ==
    ASSUME Ready, NEW s \in Slots, Elevate(s)
    PROVE  Arrival(s) \/ Landing(s)
<1>1. ASSUME req[s] = Idle
      PROVE  Arrival(s)
    <2>1. \A kind \in {"elevate"} : ~Serving(s, kind)
        BY <1>1 DEF Serving, Idle
    <2> QED BY <1>1, <2>1, RowsTyped, ZoneAdminBool, AdminAssumption
               DEF Ready, Elevate, Arrival, Fresh, Shape, Scope, Granted, Sent, Scopes, RoleSets, Idle,
                   RolesOf
<1>2. ASSUME req[s] # Idle
      PROVE  Landing(s)
    BY <1>2 DEF Elevate, Due, Serving, Landing, Subjects, Current, Effect, Idle
<1> QED BY <1>1, <1>2

LEMMA AddUserStep ==
    ASSUME Ready, NEW s \in Slots, AddUser(s)
    PROVE  Arrival(s) \/ Landing(s)
<1>1. ASSUME req[s] = Idle
      PROVE  Arrival(s)
    <2>1. \A kind \in {"addUser"} : ~Serving(s, kind)
        BY <1>1, SMTT(60) DEF Serving, Idle
    <2> QED BY <1>1, <2>1, RowsTyped, ZoneAdminBool, AdminAssumption
               DEF Ready, AddUser, Arrival, Fresh, Shape, Scope, Granted, Sent, Scopes, RoleSets, Idle
<1>2. ASSUME req[s] # Idle
      PROVE  Landing(s)
    BY <1>2 DEF AddUser, Due, Serving, Landing, Subjects, Current, Effect, Idle
<1> QED BY <1>1, <1>2

LEMMA InviteMemberStep ==
    ASSUME Ready, NEW s \in Slots, InviteMember(s)
    PROVE  Arrival(s) \/ Landing(s)
<1>1. ASSUME req[s] = Idle
      PROVE  Arrival(s)
    <2>1. \A kind \in {"invite"} : ~Serving(s, kind)
        BY <1>1 DEF Serving, Idle
    <2> QED BY <1>1, <2>1, RowsTyped, ZoneAdminBool, AdminAssumption
               DEF Ready, InviteMember, Arrival, Fresh, Shape, Scope, Granted, Sent, Scopes, RoleSets,
                   Idle
<1>2. ASSUME req[s] # Idle
      PROVE  Landing(s)
    BY <1>2 DEF InviteMember, Due, Serving, Landing, Subjects, Current, Effect, Idle
<1> QED BY <1>1, <1>2

LEMMA RemoveUserStep ==
    ASSUME Ready, NEW s \in Slots, RemoveUser(s)
    PROVE  Arrival(s) \/ Landing(s)
<1>1. ASSUME req[s] = Idle
      PROVE  Arrival(s)
    <2>1. \A kind \in {"removeUser"} : ~Serving(s, kind)
        BY <1>1 DEF Serving, Idle
    <2> QED BY <1>1, <2>1, RowsTyped, ZoneAdminBool, AdminAssumption
               DEF Ready, RemoveUser, Arrival, Fresh, Shape, Scope, Granted, Sent, Scopes, RoleSets, Idle
<1>2. ASSUME req[s] # Idle
      PROVE  Landing(s)
    BY <1>2 DEF RemoveUser, Due, Serving, Landing, Subjects, Current, Effect, Idle
<1> QED BY <1>1, <1>2

LEMMA CreateUserStep ==
    ASSUME Ready, NEW s \in Slots, CreateUser(s)
    PROVE  Arrival(s) \/ Landing(s)
<1>1. ASSUME req[s] = Idle
      PROVE  Arrival(s)
    <2>1. \A kind \in {"createUser"} : ~Serving(s, kind)
        BY <1>1, SMTT(60) DEF Serving, Idle
    <2> QED BY <1>1, <2>1, RowsTyped, ZoneAdminBool, AdminAssumption, ZenonT(60)
               DEF Ready, CreateUser, Arrival, Fresh, Shape, Scope, Granted, Sent, Scopes, RoleSets, Idle
<1>2. ASSUME req[s] # Idle
      PROVE  Landing(s)
    BY <1>2 DEF CreateUser, Due, Serving, Landing, Subjects, Current, Effect, Idle
<1> QED BY <1>1, <1>2

LEMMA UpdateUserStep ==
    ASSUME Ready, NEW s \in Slots, UpdateUser(s)
    PROVE  Arrival(s) \/ Landing(s)
<1>1. ASSUME req[s] # Idle
      PROVE  Landing(s)
    BY <1>1 DEF UpdateUser, Due, Serving, Landing, Subjects, Current, Effect, Idle
<1> QED BY <1>1, UpdateUserArrives

LEMMA DeleteUserStep ==
    ASSUME Ready, NEW s \in Slots, DeleteUser(s)
    PROVE  Arrival(s) \/ Landing(s)
<1>1. ASSUME req[s] = Idle
      PROVE  Arrival(s)
    <2>1. \A kind \in {"deleteUser"} : ~Serving(s, kind)
        BY <1>1, SMTT(60) DEF Serving, Idle
    <2> QED BY <1>1, <2>1, RowsTyped, ZoneAdminBool, AdminAssumption
               DEF Ready, DeleteUser, Arrival, Fresh, Shape, Scope, Granted, Sent, Scopes, RoleSets, Idle
<1>2. ASSUME req[s] # Idle
      PROVE  Landing(s)
    BY <1>2 DEF DeleteUser, Due, Serving, Landing, Subjects, Current, Effect, Idle
<1> QED BY <1>1, <1>2

LEMMA CreateRoleStep ==
    ASSUME Ready, NEW s \in Slots, CreateRole(s)
    PROVE  Arrival(s) \/ Landing(s)
<1>1. ASSUME req[s] # Idle
      PROVE  Landing(s)
    BY <1>1 DEF CreateRole, Due, Serving, Landing, Subjects, Current, Effect, Idle
<1> QED BY <1>1, CreateRoleArrives

LEMMA UpdateRoleStep ==
    ASSUME Ready, NEW s \in Slots, UpdateRole(s)
    PROVE  Arrival(s) \/ Landing(s)
<1>1. ASSUME req[s] # Idle
      PROVE  Landing(s)
    BY <1>1 DEF UpdateRole, Due, Serving, Landing, Subjects, Current, Effect, Idle
<1> QED BY <1>1, UpdateRoleArrives

LEMMA DeleteRoleStep ==
    ASSUME Ready, NEW s \in Slots, DeleteRole(s)
    PROVE  Arrival(s) \/ Landing(s)
<1>1. ASSUME req[s] = Idle
      PROVE  Arrival(s)
    <2>1. \A kind \in {"deleteRole"} : ~Serving(s, kind)
        BY <1>1 DEF Serving, Idle
    <2> QED BY <1>1, <2>1, RowsTyped, ZoneAdminBool, AdminAssumption, ZenonT(60)
               DEF Ready, DeleteRole, Arrival, Fresh, Shape, Scope, Granted, Sent, Scopes, RoleSets,
                   Idle, Scoped, OnRoles
<1>2. ASSUME req[s] # Idle
      PROVE  Landing(s)
    BY <1>2 DEF DeleteRole, Due, Serving, Landing, Subjects, Current, Effect, Idle
<1> QED BY <1>1, <1>2

LEMMA CreateAppStep ==
    ASSUME Ready, NEW s \in Slots, CreateApp(s)
    PROVE  Arrival(s) \/ Landing(s)
<1>1. ASSUME req[s] # Idle
      PROVE  Landing(s)
    BY <1>1 DEF CreateApp, Due, Serving, Landing, Subjects, Current, Effect, Idle
<1> QED BY <1>1, CreateAppArrives

LEMMA UpdateAppStep ==
    ASSUME Ready, NEW s \in Slots, UpdateApp(s)
    PROVE  Arrival(s) \/ Landing(s)
<1>1. ASSUME req[s] # Idle
      PROVE  Landing(s)
    BY <1>1 DEF UpdateApp, Due, Serving, Landing, Subjects, Current, Effect, Idle
<1> QED BY <1>1, UpdateAppArrives

LEMMA DeleteAppStep ==
    ASSUME Ready, NEW s \in Slots, DeleteApp(s)
    PROVE  Arrival(s) \/ Landing(s)
<1>1. ASSUME req[s] = Idle
      PROVE  Arrival(s)
    <2>1. \A kind \in {"deleteApp"} : ~Serving(s, kind)
        BY <1>1, SMTT(60) DEF Serving, Idle
    <2> QED BY <1>1, <2>1, RowsTyped, ZoneAdminBool, AdminAssumption, ZenonT(60)
               DEF Ready, DeleteApp, Arrival, Fresh, Shape, Scope, Granted, Sent, Scopes, RoleSets,
                   Idle, OnApps, AdminsOwn, Live
<1>2. ASSUME req[s] # Idle
      PROVE  Landing(s)
    BY <1>2 DEF DeleteApp, Due, Serving, Landing, Subjects, Current, Effect, Idle
<1> QED BY <1>1, <1>2

LEMMA LinkAppStep ==
    ASSUME Ready, NEW s \in Slots, LinkApp(s)
    PROVE  Arrival(s) \/ Landing(s)
<1>1. ASSUME req[s] = Idle
      PROVE  Arrival(s)
    <2>1. \A kind \in {"linkApp"} : ~Serving(s, kind)
        BY <1>1, SMTT(60) DEF Serving, Idle
    <2> QED BY <1>1, <2>1, RowsTyped, ZoneAdminBool, AdminAssumption
               DEF Ready, LinkApp, Arrival, Fresh, Shape, Scope, Granted, Sent, Scopes, RoleSets, Idle
<1>2. ASSUME req[s] # Idle
      PROVE  Landing(s)
    BY <1>2 DEF LinkApp, Due, Serving, Landing, Subjects, Current, Effect, Idle
<1> QED BY <1>1, <1>2

LEMMA SetAccessStep ==
    ASSUME Ready, NEW s \in Slots, SetAccess(s)
    PROVE  Arrival(s) \/ Landing(s)
<1>1. ASSUME req[s] # Idle
      PROVE  Landing(s)
    BY <1>1 DEF SetAccess, Due, Serving, Landing, Subjects, Current, Effect, Idle
<1> QED BY <1>1, SetAccessArrives

LEMMA AppCreatesUserStep ==
    ASSUME Ready, NEW s \in Slots, AppCreatesUser(s)
    PROVE  Arrival(s) \/ Landing(s)
<1>1. ASSUME req[s] = Idle
      PROVE  Arrival(s)
    <2>1. \A kind \in {"appUser"} : ~Serving(s, kind)
        BY <1>1 DEF Serving, Idle
    <2> QED BY <1>1, <2>1, RowsTyped, ZoneAdminBool, AdminAssumption, ZenonT(60)
               DEF Ready, AppCreatesUser, Arrival, Fresh, Shape, Scope, Granted, Sent, Scopes, RoleSets,
                   Idle
<1>2. ASSUME req[s] # Idle
      PROVE  Landing(s)
    BY <1>2 DEF AppCreatesUser, Due, Serving, Landing, Subjects, Current, Effect, Idle
<1> QED BY <1>1, <1>2

LEMMA AppAddsWalletStep ==
    ASSUME Ready, NEW s \in Slots, AppAddsWallet(s)
    PROVE  Arrival(s) \/ Landing(s)
<1>1. ASSUME req[s] = Idle
      PROVE  Arrival(s)
    <2>1. \A kind \in {"appWallet"} : ~Serving(s, kind)
        BY <1>1, SMTT(60) DEF Serving, Idle
    <2> QED BY <1>1, <2>1, RowsTyped, ZoneAdminBool, AdminAssumption
               DEF Ready, AppAddsWallet, Arrival, Fresh, Shape, Scope, Granted, Sent, Scopes, RoleSets,
                   Idle
<1>2. ASSUME req[s] # Idle
      PROVE  Landing(s)
    BY <1>2 DEF AppAddsWallet, Due, Serving, Landing, Subjects, Current, Effect, Idle
<1> QED BY <1>1, <1>2

LEMMA UpdateTenantStep ==
    ASSUME Ready, NEW s \in Slots, UpdateTenant(s)
    PROVE  Arrival(s) \/ Landing(s)
<1>1. ASSUME req[s] = Idle
      PROVE  Arrival(s)
    <2>1. \A kind \in {"updateTenant"} : ~Serving(s, kind)
        BY <1>1, SMTT(60) DEF Serving, Idle
    <2> QED BY <1>1, <2>1, RowsTyped, ZoneAdminBool, AdminAssumption
               DEF Ready, UpdateTenant, Arrival, Fresh, Shape, Scope, Granted, Sent, Scopes, RoleSets,
                   Idle
<1>2. ASSUME req[s] # Idle
      PROVE  Landing(s)
    BY <1>2 DEF UpdateTenant, Due, Serving, Landing, Subjects, Current, Effect, Idle
<1> QED BY <1>1, <1>2

LEMMA TenantCreatesUserStep ==
    ASSUME Ready, NEW s \in Slots, TenantCreatesUser(s)
    PROVE  Arrival(s) \/ Landing(s)
<1>1. ASSUME req[s] = Idle
      PROVE  Arrival(s)
    <2>1. \A kind \in {"tenantUser"} : ~Serving(s, kind)
        BY <1>1, SMTT(60) DEF Serving, Idle
    <2> QED BY <1>1, <2>1, RowsTyped, ZoneAdminBool, AdminAssumption
               DEF Ready, TenantCreatesUser, Arrival, Fresh, Shape, Scope, Granted, Sent, Scopes,
                   RoleSets, Idle
<1>2. ASSUME req[s] # Idle
      PROVE  Landing(s)
    BY <1>2 DEF TenantCreatesUser, Due, Serving, Landing, Subjects, Current, Effect, Idle
<1> QED BY <1>1, <1>2

LEMMA PostContractStep ==
    ASSUME Ready, NEW s \in Slots, PostContract(s)
    PROVE  Arrival(s) \/ Landing(s)
<1>1. ASSUME req[s] # Idle
      PROVE  Landing(s)
    BY <1>1 DEF PostContract, Due, Serving, Landing, Subjects, Current, Effect, Idle
<1> QED BY <1>1, PostContractArrives

LEMMA DeleteContractStep ==
    ASSUME Ready, NEW s \in Slots, DeleteContract(s)
    PROVE  Arrival(s) \/ Landing(s)
<1>1. ASSUME req[s] = Idle
      PROVE  Arrival(s)
    <2>1. \A kind \in {"deleteContract"} : ~Serving(s, kind)
        BY <1>1, SMTT(60) DEF Serving, Idle
    <2> QED BY <1>1, <2>1, RowsTyped, ZoneAdminBool, AdminAssumption, ZenonT(60)
               DEF Ready, DeleteContract, Arrival, Fresh, Shape, Scope, Granted, Sent, Scopes, RoleSets,
                   Idle, Withdraws, AdminsOwn, OwnerOf, Deployed
<1>2. ASSUME req[s] # Idle
      PROVE  Landing(s)
    BY <1>2 DEF DeleteContract, Due, Serving, Landing, Subjects, Current, Effect, Idle
<1> QED BY <1>1, <1>2

LEMMA PostFnStep ==
    ASSUME Ready, NEW s \in Slots, PostFn(s)
    PROVE  Arrival(s) \/ Landing(s)
<1>1. ASSUME req[s] # Idle
      PROVE  Landing(s)
    BY <1>1 DEF PostFn, Due, Serving, Landing, Subjects, Current, Effect, Idle
<1> QED BY <1>1, PostFnArrives

LEMMA PutFnStep ==
    ASSUME Ready, NEW s \in Slots, PutFn(s)
    PROVE  Arrival(s) \/ Landing(s)
<1>1. ASSUME req[s] # Idle
      PROVE  Landing(s)
    BY <1>1 DEF PutFn, Due, Serving, Landing, Subjects, Current, Effect, Idle
<1> QED BY <1>1, PutFnArrives

LEMMA DeleteFnStep ==
    ASSUME Ready, NEW s \in Slots, DeleteFn(s)
    PROVE  Arrival(s) \/ Landing(s)
<1>1. ASSUME req[s] = Idle
      PROVE  Arrival(s)
    <2>1. \A kind \in {"deleteFn"} : ~Serving(s, kind)
        BY <1>1 DEF Serving, Idle
    <2> QED BY <1>1, <2>1, RowsTyped, ZoneAdminBool, AdminAssumption, ZenonT(60)
               DEF Ready, DeleteFn, Arrival, Fresh, Shape, Scope, Granted, Sent, Scopes, RoleSets, Idle,
                   Withdraws, AdminsOwn, OwnerOf, Deployed, FnRows
<1>2. ASSUME req[s] # Idle
      PROVE  Landing(s)
    BY <1>2 DEF DeleteFn, Due, Serving, Landing, Subjects, Current, Effect, Idle
<1> QED BY <1>1, <1>2

LEMMA PostEvStep ==
    ASSUME Ready, NEW s \in Slots, PostEv(s)
    PROVE  Arrival(s) \/ Landing(s)
<1>1. ASSUME req[s] # Idle
      PROVE  Landing(s)
    BY <1>1 DEF PostEv, Due, Serving, Landing, Subjects, Current, Effect, Idle
<1> QED BY <1>1, PostEvArrives

LEMMA PutEvStep ==
    ASSUME Ready, NEW s \in Slots, PutEv(s)
    PROVE  Arrival(s) \/ Landing(s)
<1>1. ASSUME req[s] # Idle
      PROVE  Landing(s)
    BY <1>1 DEF PutEv, Due, Serving, Landing, Subjects, Current, Effect, Idle
<1> QED BY <1>1, PutEvArrives

LEMMA DeleteEvStep ==
    ASSUME Ready, NEW s \in Slots, DeleteEv(s)
    PROVE  Arrival(s) \/ Landing(s)
<1>1. ASSUME req[s] = Idle
      PROVE  Arrival(s)
    <2>1. \A kind \in {"deleteEv"} : ~Serving(s, kind)
        BY <1>1 DEF Serving, Idle
    <2> QED BY <1>1, <2>1, RowsTyped, ZoneAdminBool, AdminAssumption, ZenonT(60)
               DEF Ready, DeleteEv, Arrival, Fresh, Shape, Scope, Granted, Sent, Scopes, RoleSets, Idle,
                   Withdraws, AdminsOwn, OwnerOf, Deployed, EvRows
<1>2. ASSUME req[s] # Idle
      PROVE  Landing(s)
    BY <1>2 DEF DeleteEv, Due, Serving, Landing, Subjects, Current, Effect, Idle
<1> QED BY <1>1, <1>2

LEMMA SetTemplateStep ==
    ASSUME Ready, NEW s \in Slots, SetTemplate(s)
    PROVE  Arrival(s) \/ Landing(s)
<1>1. ASSUME req[s] = Idle
      PROVE  Arrival(s)
    <2>1. \A kind \in {"template"} : ~Serving(s, kind)
        BY <1>1 DEF Serving, Idle
    <2> QED BY <1>1, <2>1, RowsTyped, ZoneAdminBool, AdminAssumption
               DEF Ready, SetTemplate, Arrival, Fresh, Shape, Scope, Granted, Sent, Scopes, RoleSets,
                   Idle
<1>2. ASSUME req[s] # Idle
      PROVE  Landing(s)
    BY <1>2 DEF SetTemplate, Due, Serving, Landing, Subjects, Current, Effect, Idle
<1> QED BY <1>1, <1>2

LEMMA DeleteTemplateStep ==
    ASSUME Ready, NEW s \in Slots, DeleteTemplate(s)
    PROVE  Arrival(s) \/ Landing(s)
<1>1. ASSUME req[s] = Idle
      PROVE  Arrival(s)
    <2>1. \A kind \in {"noTemplate"} : ~Serving(s, kind)
        BY <1>1 DEF Serving, Idle
    <2> QED BY <1>1, <2>1, RowsTyped, ZoneAdminBool, AdminAssumption
               DEF Ready, DeleteTemplate, Arrival, Fresh, Shape, Scope, Granted, Sent, Scopes, RoleSets,
                   Idle
<1>2. ASSUME req[s] # Idle
      PROVE  Landing(s)
    BY <1>2 DEF DeleteTemplate, Due, Serving, Landing, Subjects, Current, Effect, Idle
<1> QED BY <1>1, <1>2

\* The first transaction of the edit of a member's roles.
Proceeds(s) ==
    /\ req[s].kind = "setRoles"
    /\ req' = [req EXCEPT ![s] = IF Live(@.org) /\ Member(@.user, @.org)
                                 THEN [@ EXCEPT !.kind = "commitRoles"] ELSE Idle]
    /\ UNCHANGED <<db, issued, menu, events, trail, raced, approved>>

\* The first of the two writes of an edit that withdraws the umbrella.
Clears(s) ==
    /\ req[s].kind = "clearUmbrella"
    /\ db' = ClearUmbrella(req[s].addr)
    /\ req' = [req EXCEPT ![s].kind = "putContract"]
    /\ approved' = approved \cap InForce(db')
    /\ UNCHANGED <<issued, menu, events, trail, raced>>

LEMMA PutContractStep ==
    ASSUME Ready, NEW s \in Slots, PutContract(s)
    PROVE  Arrival(s) \/ Clears(s) \/ Landing(s)
<1>1. ASSUME req[s] # Idle
      PROVE  Clears(s) \/ Landing(s)
    BY <1>1 DEF PutContract, Due, Serving, Clears, Landing, Subjects, Current, Effect, AsRead, Idle
<1> QED BY <1>1, PutContractArrives, SMTT(60)

LEMMA SetMemberRolesArrives ==
    ASSUME Ready, NEW s \in Slots, SetMemberRoles(s), req[s] = Idle
    PROVE  Arrival(s)
<1>0. ~Serving(s, "setRoles") /\ ~Serving(s, "commitRoles")
    BY DEF Serving, Idle
<1>1. PICK u \in Users, v \in Users, o \in Orgs, R \in RoleSets :
         LET held == {r \in RolesOf(v) : RoleOwnedBy(o, r)} IN
         /\ OrgAdmin(u, o)
         /\ WithinReach(R, held, o, ZoneAdmin(u))
         /\ Arrive(s, [kind |-> "setRoles", by |-> u, zone |-> ZoneAdmin(u), org |-> o, user |-> v,
                       add |-> R \ held, del |-> held \ R])
    BY <1>0 DEF SetMemberRoles
<1> DEFINE held == {r \in RolesOf(v) : RoleOwnedBy(o, r)}
           q == [kind |-> "setRoles", by |-> u, zone |-> ZoneAdmin(u), org |-> o, user |-> v,
                 add |-> R \ held, del |-> held \ R]
<1>2. R \in SUBSET Roles /\ held \in SUBSET Roles
    BY DEF RoleSets, RolesOf
<1>3. \A r \in held : OrgRole(r, o)
    BY HeldLive DEF Ready, RolesOf, RoleOwnedBy, OrgRole
<1>4. \A r \in R : OrgRole(r, o)
    BY <1>1 DEF WithinReach, RoleOwnedBy, OrgRole, LiveRole
<1>5. ~ZoneAdmin(u) => \A r \in R \ held : db.role[r].system \/ ~db.role[r].admin
    BY <1>1 DEF WithinReach
<1>6. o # Zone /\ o \in Scopes
    BY AdminAssumption DEF Scopes
<1> HIDE DEF held
<1>7. Fresh(q)
    BY <1>1, <1>2, <1>3, <1>4, <1>5, <1>6, ZoneAdminBool DEF Fresh, Shape, Scope, Granted, Sent, Idle
<1> QED BY <1>1, <1>7 DEF Arrival, held

LEMMA SetMemberRolesStep ==
    ASSUME Ready, NEW s \in Slots, SetMemberRoles(s)
    PROVE  Arrival(s) \/ Proceeds(s) \/ Landing(s)
<1>1. ASSUME req[s] # Idle
      PROVE  Proceeds(s) \/ Landing(s)
    BY <1>1 DEF SetMemberRoles, Due, Serving, Proceeds, Landing, Subjects, Current, Effect, Idle
<1> QED BY <1>1, SetMemberRolesArrives, SMTT(60)

LEMMA ReadArrives ==
    ASSUME Ready, NEW s \in Slots, Read(s), req[s] = Idle
    PROVE  Arrival(s)
<1>0. req[s].kind \notin {"list", "readFns", "readEvs", "readRole", "readKeys"}
    BY DEF Idle
<1>1. PICK u \in Users, o \in Orgs :
         /\ AdminsOwn(u, o)
         /\ \/ AsksList(s, u, o) \/ AsksFns(s, u, o) \/ AsksEvs(s, u, o) \/ AsksRole(s, u, o) \/ AsksKeys(s, u, o)
    BY <1>0, Zenon DEF Read
<1>2. o # Zone /\ o \in Scopes /\ OrgAdmin(u, o)
    BY <1>1, OwnAdmin DEF Scopes
<1>3. CASE AsksList(s, u, o)
    BY <1>2, <1>3, ZoneAdminBool DEF AsksList, Arrival, Fresh, Shape, Scope, Granted, Sent, Idle
<1>4. CASE AsksFns(s, u, o)
    BY <1>2, <1>4, ZoneAdminBool
       DEF AsksFns, ContractsFor, OwnsContract, Arrival, Fresh, Shape, Scope, Granted, Sent, Idle
<1>5. CASE AsksEvs(s, u, o)
    BY <1>2, <1>5, ZoneAdminBool
       DEF AsksEvs, ContractsFor, OwnsContract, Arrival, Fresh, Shape, Scope, Granted, Sent, Idle
<1>6. CASE AsksRole(s, u, o)
    BY <1>2, <1>6, ZoneAdminBool
       DEF AsksRole, RolesFor, Arrival, Fresh, Shape, Scope, Granted, Sent, Idle
<1>7. CASE AsksKeys(s, u, o)
    BY <1>2, <1>7, ZoneAdminBool, SMTT(60)
       DEF AsksKeys, OwnsCredential, Owns, LiveApp, Arrival, Fresh, Shape, Scope, Granted, Sent, Idle
<1> QED BY <1>1, <1>3, <1>4, <1>5, <1>6, <1>7

LEMMA ReadStep ==
    ASSUME Ready, NEW s \in Slots, Read(s)
    PROVE  Arrival(s) \/ Landing(s)
<1>1. ASSUME req[s] # Idle
      PROVE  Landing(s)
    BY <1>1 DEF Read, Due, Serving, Landing, Subjects, Current, Effect, Idle
<1> QED BY <1>1, ReadArrives

LEMMA NextCases ==
    ASSUME Ready, [Next]_vars
    PROVE  \/ \E s \in Slots : Arrival(s) \/ Landing(s) \/ Proceeds(s) \/ Clears(s)
           \/ WriteEvent
           \/ UNCHANGED vars
<1>1. ASSUME NEW s \in Slots, DirectoryNext(s)
      PROVE  Arrival(s) \/ Landing(s) \/ Proceeds(s)
    BY <1>1, CreateOrgStep, UpdateOrgStep, DeleteOrgStep, SeedAdminStep, WithdrawAdminStep, SetIdpStep,
       FirstLoginStep, ElevateStep, AddUserStep, InviteMemberStep, RemoveUserStep, SetMemberRolesStep,
       CreateUserStep, UpdateUserStep, DeleteUserStep, CreateRoleStep, UpdateRoleStep, DeleteRoleStep,
       CreateAppStep, UpdateAppStep, DeleteAppStep, LinkAppStep, SetAccessStep,
       AppCreatesUserStep, AppAddsWalletStep, UpdateTenantStep, TenantCreatesUserStep, Zenon DEF DirectoryNext
<1>2. ASSUME NEW s \in Slots, RegistryNext(s)
      PROVE  Arrival(s) \/ Landing(s) \/ Clears(s)
    BY <1>2, PostContractStep, PutContractStep, DeleteContractStep, PostFnStep, PutFnStep, DeleteFnStep,
       PostEvStep, PutEvStep, DeleteEvStep, SetTemplateStep, DeleteTemplateStep, ZenonT(60) DEF RegistryNext
<1> QED BY <1>1, <1>2, ReadStep, Zenon DEF Next

-----------------------------------------------------------------------------
(* Every Effect writes its own tables                                      *)

\* Which tables a request of a kind may write.
MemberKinds == {"firstLogin", "elevate", "addUser", "invite", "removeUser", "commitRoles", "createUser",
                "appUser", "tenantUser", "updateUser", "deleteUser", "createRole", "updateRole",
                "deleteRole", "appWallet", "deleteOrg"}

AppKinds == {"createApp", "updateApp", "deleteApp", "linkApp", "access", "deleteOrg", "deleteRole"}

RegistryKinds == {"postContract", "putContract", "deleteContract", "postFn", "putFn", "deleteFn",
                  "postEv", "putEv", "deleteEv", "template", "noTemplate", "deleteRole"}

OrgKinds == {"createOrg", "deleteOrg"}

WritesOwnTables(q, d) ==
    /\ d \in Tables
    /\ q.kind \notin MemberKinds => SameMembers(d)
    /\ q.kind \notin AppKinds => SameApps(d)
    /\ q.kind \notin RegistryKinds => SameRegistry(d)
    /\ q.kind \notin OrgKinds => SameOrgs(d)

LEMMA EffectOf ==
    ASSUME NEW q
    PROVE  /\ q.kind = "createOrg" => Effect(q) = (OrgInserted(q))
           /\ q.kind = "updateOrg" => Effect(q) = (OrgUpdated(q))
           /\ q.kind = "deleteOrg" => Effect(q) = (OrgRevoked(q.org, Released(q.org)))
           /\ q.kind = "seedAdmin" => Effect(q) = ([db EXCEPT !.pending = @ \cup {<<q.org, q.user>>}])
           /\ q.kind = "withdrawAdmin" => Effect(q) = ([db EXCEPT !.pending = @ \ {<<q.org, q.user>>}])
           /\ q.kind = "setIdp" => Effect(q) = (IdpSet(q))
           /\ q.kind = "firstLogin" => Effect(q) = (Bootstrapped(q))
           /\ q.kind = "elevate" => Effect(q) = (IF db.user[q.by].live /\ MayHold(q.by, q.roles)
                   THEN [db EXCEPT !.holds = Without(q.by) \cup Grant(q.by, q.roles)] ELSE db)
           /\ q.kind = "addUser" => Effect(q) = (Joined(q))
           /\ q.kind = "invite" => Effect(q) = (Invited(q))
           /\ q.kind = "removeUser" => Effect(q) = (Removed(q))
           /\ q.kind = "commitRoles" => Effect(q) = (RolesSet(q))
           /\ q.kind = "createUser" => Effect(q) = (MemberCreated(q))
           /\ q.kind = "appUser" => Effect(q) = (MemberCreated(q))
           /\ q.kind = "tenantUser" => Effect(q) = (MemberCreated(q))
           /\ q.kind = "updateUser" => Effect(q) = (UserUpdated(q))
           /\ q.kind = "deleteUser" => Effect(q) = (UserDeleted(q.user))
           /\ q.kind = "createRole" => Effect(q) = (RoleInserted(q))
           /\ q.kind = "updateRole" => Effect(q) = (RoleUpdated(q))
           /\ q.kind = "deleteRole" => Effect(q) = (IF Scoped(q.role, q.org) THEN DropRole(q.role) ELSE db)
           /\ q.kind = "createApp" => Effect(q) = (AppInserted(q))
           /\ q.kind = "updateApp" => Effect(q) = (AppUpdated(q))
           /\ q.kind = "deleteApp" => Effect(q) = (AppDeleted(q))
           /\ q.kind = "linkApp" => Effect(q) = (Relinked(q))
           /\ q.kind = "access" => Effect(q) = (IF ~LiveApp(q.app) THEN db
                   ELSE IF q.what = "key" THEN KeysChanged(q) ELSE IpsChanged(q))
           /\ q.kind = "appWallet" => Effect(q) = (WalletAdded(q.user))
           /\ q.kind = "updateTenant" => Effect(q) = (TenantUpdated(q))
           /\ q.kind = "postContract" => Effect(q) = (ContractInserted(q))
           /\ q.kind = "putContract" => Effect(q) = (Rewritten(q))
           /\ q.kind = "deleteContract" => Effect(q) = (ContractDeleted(q.addr))
           /\ q.kind = "postFn" => Effect(q) = (FnInserted(q))
           /\ q.kind = "putFn" => Effect(q) = (FnUpdated(q))
           /\ q.kind = "deleteFn" => Effect(q) = ([db EXCEPT !.fn[q.fn].live = FALSE])
           /\ q.kind = "postEv" => Effect(q) = (EvInserted(q))
           /\ q.kind = "putEv" => Effect(q) = (EvUpdated(q))
           /\ q.kind = "deleteEv" => Effect(q) = ([db EXCEPT !.ev[q.ev].live = FALSE])
           /\ q.kind = "template" => Effect(q) = (IF q.umbrella THEN TemplateUmbrella(q.template) ELSE TemplatePlain(q.template))
           /\ q.kind = "noTemplate" => Effect(q) = (TemplateDeleted(q.template))
           /\ q.kind \notin {"createOrg", "updateOrg", "deleteOrg", "seedAdmin", "withdrawAdmin",
                             "setIdp", "firstLogin", "elevate", "addUser", "invite", "removeUser",
                             "commitRoles", "createUser", "appUser", "tenantUser", "updateUser",
                             "deleteUser", "createRole", "updateRole", "deleteRole", "createApp",
                             "updateApp", "deleteApp", "linkApp", "access", "appWallet", "updateTenant",
                             "postContract", "putContract", "deleteContract", "postFn", "putFn",
                             "deleteFn", "postEv", "putEv", "deleteEv", "template",
                             "noTemplate"} => Effect(q) = db
BY DEF Effect

LEMMA Writes ==
    ASSUME db \in Tables, NEW q, q # Idle, Shape(q)
    PROVE  WritesOwnTables(q, Effect(q))
<1>1. CASE q.kind = "createOrg"
    <2>1. q.org \in Orgs /\ q.roles \in SUBSET Roles
        BY <1>1 DEF Shape
    <2>2. Effect(q) = OrgInserted(q)
        BY <1>1, EffectOf
    <2>3. LET d == Effect(q) IN d \in Tables /\ SameMembers(d) /\ SameApps(d) /\ SameRegistry(d)
        BY <2>1, <2>2, OrgInsertedWrites, Unwritten
    <2> QED BY <1>1, <2>3 DEF WritesOwnTables, MemberKinds, AppKinds, RegistryKinds, OrgKinds
<1>2. CASE q.kind = "updateOrg"
    <2>1. q.org \in Orgs /\ q.roles \in SUBSET Roles
        BY <1>2 DEF Shape
    <2>2. Effect(q) = OrgUpdated(q)
        BY <1>2, EffectOf
    <2>3. LET d == Effect(q) IN d \in Tables /\ SameMembers(d) /\ SameApps(d) /\ SameRegistry(d) /\ SameOrgs(d)
        BY <2>1, <2>2, OrgUpdatedWrites, Unwritten
    <2> QED BY <1>2, <2>3 DEF WritesOwnTables, MemberKinds, AppKinds, RegistryKinds, OrgKinds
<1>3. CASE q.kind = "deleteOrg"
    <2>1. q.org \in Orgs
        BY <1>3 DEF Shape
    <2>2. Effect(q) = OrgRevoked(q.org, Released(q.org))
        BY <1>3, EffectOf
    <2>3. LET d == Effect(q) IN d \in Tables /\ SameRegistry(d)
        BY <2>1, <2>2, OrgRevokedWrites, Unwritten
    <2> QED BY <1>3, <2>3 DEF WritesOwnTables, MemberKinds, AppKinds, RegistryKinds, OrgKinds
<1>4. CASE q.kind = "seedAdmin"
    <2>1. q.org \in Orgs /\ q.user \in Users
        BY <1>4 DEF Shape
    <2>2. Effect(q) = [db EXCEPT !.pending = @ \cup {<<q.org, q.user>>}]
        BY <1>4, EffectOf
    <2> HIDE DEF Idle
    <2>3. LET d == Effect(q) IN d \in Tables /\ SameMembers(d) /\ SameApps(d) /\ SameRegistry(d) /\ SameOrgs(d)
        BY <2>1, <2>2, PendingWrites, Unwritten
    <2> QED BY <1>4, <2>3 DEF WritesOwnTables, MemberKinds, AppKinds, RegistryKinds, OrgKinds
<1>5. CASE q.kind = "withdrawAdmin"
    <2>1. q.org \in Orgs /\ q.user \in Users
        BY <1>5 DEF Shape
    <2>2. Effect(q) = [db EXCEPT !.pending = @ \ {<<q.org, q.user>>}]
        BY <1>5, EffectOf
    <2> HIDE DEF Idle
    <2>3. LET d == Effect(q) IN d \in Tables /\ SameMembers(d) /\ SameApps(d) /\ SameRegistry(d) /\ SameOrgs(d)
        BY <2>1, <2>2, PendingWrites, Unwritten
    <2> QED BY <1>5, <2>3 DEF WritesOwnTables, MemberKinds, AppKinds, RegistryKinds, OrgKinds
<1>6. CASE q.kind = "setIdp"
    <2>1. q.org \in Orgs
        BY <1>6 DEF Shape
    <2>2. Effect(q) = IdpSet(q)
        BY <1>6, EffectOf
    <2>3. LET d == Effect(q) IN d \in Tables /\ SameMembers(d) /\ SameApps(d) /\ SameRegistry(d) /\ SameOrgs(d)
        BY <2>1, <2>2, IdpSetWrites, Unwritten
    <2> QED BY <1>6, <2>3 DEF WritesOwnTables, MemberKinds, AppKinds, RegistryKinds, OrgKinds
<1>7. CASE q.kind = "firstLogin"
    <2>1. q.by \in Users /\ q.org \in Scopes /\ q.roles \in SUBSET Roles
        BY <1>7 DEF Shape
    <2>2. Effect(q) = Bootstrapped(q)
        BY <1>7, EffectOf
    <2>3. LET d == Effect(q) IN d \in Tables /\ SameApps(d) /\ SameRegistry(d) /\ SameOrgs(d)
        BY <2>1, <2>2, BootstrappedWrites, Unwritten
    <2> QED BY <1>7, <2>3 DEF WritesOwnTables, MemberKinds, AppKinds, RegistryKinds, OrgKinds
<1>8. CASE q.kind = "elevate"
    <2>1. q.by \in Users /\ q.roles \in SUBSET Roles
        BY <1>8 DEF Shape
    <2>2. Effect(q) \in {db, [db EXCEPT !.holds = Without(q.by) \cup Grant(q.by, q.roles)]}
        BY <1>8, EffectOf
    <2>3. LET d == Effect(q) IN d \in Tables /\ SameApps(d) /\ SameRegistry(d) /\ SameOrgs(d)
        BY <2>1, <2>2, RegrantedWrites, Unwritten
    <2> QED BY <1>8, <2>3 DEF WritesOwnTables, MemberKinds, AppKinds, RegistryKinds, OrgKinds
<1>9. CASE q.kind = "addUser"
    <2>1. q.org \in Orgs /\ q.user \in Users
        BY <1>9 DEF Shape
    <2>2. Effect(q) = Joined(q)
        BY <1>9, EffectOf
    <2>3. LET d == Effect(q) IN d \in Tables /\ SameApps(d) /\ SameRegistry(d) /\ SameOrgs(d)
        BY <2>1, <2>2, JoinedWrites, Unwritten
    <2> QED BY <1>9, <2>3 DEF WritesOwnTables, MemberKinds, AppKinds, RegistryKinds, OrgKinds
<1>10. CASE q.kind = "invite"
    <2>1. q.org \in Orgs /\ q.user \in Users
        BY <1>10 DEF Shape
    <2>2. Effect(q) = Invited(q)
        BY <1>10, EffectOf
    <2>3. LET d == Effect(q) IN d \in Tables /\ SameApps(d) /\ SameRegistry(d) /\ SameOrgs(d)
        BY <2>1, <2>2, InvitedWrites, Unwritten
    <2> QED BY <1>10, <2>3 DEF WritesOwnTables, MemberKinds, AppKinds, RegistryKinds, OrgKinds
<1>11. CASE q.kind = "removeUser"
    <2>1. q.org \in Orgs /\ q.user \in Users
        BY <1>11 DEF Shape
    <2>2. Effect(q) = Removed(q)
        BY <1>11, EffectOf
    <2>3. LET d == Effect(q) IN d \in Tables /\ SameApps(d) /\ SameRegistry(d) /\ SameOrgs(d)
        BY <2>1, <2>2, RemovedWrites, Unwritten
    <2> QED BY <1>11, <2>3 DEF WritesOwnTables, MemberKinds, AppKinds, RegistryKinds, OrgKinds
<1>12. CASE q.kind = "commitRoles"
    <2>1. q.user \in Users /\ q.add \in SUBSET Roles
        BY <1>12 DEF Shape
    <2>2. Effect(q) = RolesSet(q)
        BY <1>12, EffectOf
    <2>3. LET d == Effect(q) IN d \in Tables /\ SameApps(d) /\ SameRegistry(d) /\ SameOrgs(d)
        BY <2>1, <2>2, RolesSetWrites, Unwritten
    <2> QED BY <1>12, <2>3 DEF WritesOwnTables, MemberKinds, AppKinds, RegistryKinds, OrgKinds
<1>13. CASE q.kind = "createUser"
    <2>1. q.user \in Users /\ q.org \in Scopes /\ q.roles \in SUBSET Roles /\ q.wallet \in BOOLEAN
        BY <1>13 DEF Shape
    <2>2. Effect(q) = MemberCreated(q)
        BY <1>13, EffectOf
    <2>3. LET d == Effect(q) IN d \in Tables /\ SameApps(d) /\ SameRegistry(d) /\ SameOrgs(d)
        BY <2>1, <2>2, MemberCreatedWrites, Unwritten
    <2> QED BY <1>13, <2>3 DEF WritesOwnTables, MemberKinds, AppKinds, RegistryKinds, OrgKinds
<1>14. CASE q.kind = "appUser"
    <2>1. q.user \in Users /\ q.org \in Scopes /\ q.roles \in SUBSET Roles /\ q.wallet \in BOOLEAN
        BY <1>14 DEF Shape
    <2>2. Effect(q) = MemberCreated(q)
        BY <1>14, EffectOf
    <2>3. LET d == Effect(q) IN d \in Tables /\ SameApps(d) /\ SameRegistry(d) /\ SameOrgs(d)
        BY <2>1, <2>2, MemberCreatedWrites, Unwritten
    <2> QED BY <1>14, <2>3 DEF WritesOwnTables, MemberKinds, AppKinds, RegistryKinds, OrgKinds
<1>15. CASE q.kind = "tenantUser"
    <2>1. q.user \in Users /\ q.org \in Scopes /\ q.roles \in SUBSET Roles /\ q.wallet \in BOOLEAN
        BY <1>15 DEF Shape
    <2>2. Effect(q) = MemberCreated(q)
        BY <1>15, EffectOf
    <2>3. LET d == Effect(q) IN d \in Tables /\ SameApps(d) /\ SameRegistry(d) /\ SameOrgs(d)
        BY <2>1, <2>2, MemberCreatedWrites, Unwritten
    <2> QED BY <1>15, <2>3 DEF WritesOwnTables, MemberKinds, AppKinds, RegistryKinds, OrgKinds
<1>16. CASE q.kind = "updateUser"
    <2>1. q.user \in Users /\ q.roles \in SUBSET Roles /\ q.wallet \in BOOLEAN
        BY <1>16 DEF Shape
    <2>2. Effect(q) = UserUpdated(q)
        BY <1>16, EffectOf
    <2>3. LET d == Effect(q) IN d \in Tables /\ SameApps(d) /\ SameRegistry(d) /\ SameOrgs(d)
        BY <2>1, <2>2, UserUpdatedWrites, Unwritten
    <2> QED BY <1>16, <2>3 DEF WritesOwnTables, MemberKinds, AppKinds, RegistryKinds, OrgKinds
<1>17. CASE q.kind = "deleteUser"
    <2>1. q.user \in Users
        BY <1>17 DEF Shape
    <2>2. Effect(q) = UserDeleted(q.user)
        BY <1>17, EffectOf
    <2>3. LET d == Effect(q) IN d \in Tables /\ SameApps(d) /\ SameRegistry(d) /\ SameOrgs(d)
        BY <2>1, <2>2, UserDeletedWrites, Unwritten
    <2> QED BY <1>17, <2>3 DEF WritesOwnTables, MemberKinds, AppKinds, RegistryKinds, OrgKinds
<1>18. CASE q.kind = "createRole"
    <2>1. q.role \in Roles /\ q.org \in Scopes /\ q.admin \in BOOLEAN
        BY <1>18 DEF Shape
    <2>2. Effect(q) = RoleInserted(q)
        BY <1>18, EffectOf
    <2>3. LET d == Effect(q) IN d \in Tables /\ SameApps(d) /\ SameRegistry(d) /\ SameOrgs(d)
        BY <2>1, <2>2, RoleInsertedWrites, Unwritten
    <2> QED BY <1>18, <2>3 DEF WritesOwnTables, MemberKinds, AppKinds, RegistryKinds, OrgKinds
<1>19. CASE q.kind = "updateRole"
    <2>1. q.role \in Roles /\ q.moved \in Scopes /\ q.admin \in BOOLEAN
        BY <1>19 DEF Shape
    <2>2. Effect(q) = RoleUpdated(q)
        BY <1>19, EffectOf
    <2>3. LET d == Effect(q) IN d \in Tables /\ SameApps(d) /\ SameRegistry(d) /\ SameOrgs(d)
        BY <2>1, <2>2, RoleUpdatedWrites, Unwritten
    <2> QED BY <1>19, <2>3 DEF WritesOwnTables, MemberKinds, AppKinds, RegistryKinds, OrgKinds
<1>20. CASE q.kind = "deleteRole"
    <2>1. q.role \in Roles
        BY <1>20 DEF Shape
    <2>2. Effect(q) \in {db, DropRole(q.role)}
        BY <1>20, EffectOf
    <2>3. LET d == Effect(q) IN d \in Tables /\ SameOrgs(d)
        BY <2>1, <2>2, DropRoleWrites, Unwritten
    <2> QED BY <1>20, <2>3 DEF WritesOwnTables, MemberKinds, AppKinds, RegistryKinds, OrgKinds
<1>21. CASE q.kind = "createApp"
    <2>1. q.app \in Apps /\ q.org \in Scopes /\ q.roles \in SUBSET Roles /\ q.links \in SUBSET Orgs
        BY <1>21 DEF Shape
    <2>2. Effect(q) = AppInserted(q)
        BY <1>21, EffectOf
    <2>3. LET d == Effect(q) IN d \in Tables /\ SameMembers(d) /\ SameRegistry(d) /\ SameOrgs(d)
        BY <2>1, <2>2, AppInsertedWrites, Unwritten
    <2> QED BY <1>21, <2>3 DEF WritesOwnTables, MemberKinds, AppKinds, RegistryKinds, OrgKinds
<1>22. CASE q.kind = "updateApp"
    <2>1. q.app \in Apps /\ q.roles \in SUBSET Roles
        BY <1>22 DEF Shape
    <2>2. Effect(q) = AppUpdated(q)
        BY <1>22, EffectOf
    <2>3. LET d == Effect(q) IN d \in Tables /\ SameMembers(d) /\ SameRegistry(d) /\ SameOrgs(d)
        BY <2>1, <2>2, AppUpdatedWrites, Unwritten
    <2> QED BY <1>22, <2>3 DEF WritesOwnTables, MemberKinds, AppKinds, RegistryKinds, OrgKinds
<1>23. CASE q.kind = "deleteApp"
    <2>1. q.app \in Apps
        BY <1>23 DEF Shape
    <2>2. Effect(q) = AppDeleted(q)
        BY <1>23, EffectOf
    <2>3. LET d == Effect(q) IN d \in Tables /\ SameMembers(d) /\ SameRegistry(d) /\ SameOrgs(d)
        BY <2>1, <2>2, AppDeletedWrites, Unwritten
    <2> QED BY <1>23, <2>3 DEF WritesOwnTables, MemberKinds, AppKinds, RegistryKinds, OrgKinds
<1>24. CASE q.kind = "linkApp"
    <2>1. q.app \in Apps /\ q.links \in SUBSET Orgs
        BY <1>24 DEF Shape
    <2>2. Effect(q) = Relinked(q)
        BY <1>24, EffectOf
    <2>3. LET d == Effect(q) IN d \in Tables /\ SameMembers(d) /\ SameRegistry(d) /\ SameOrgs(d)
        BY <2>1, <2>2, RelinkedWrites, Unwritten
    <2> QED BY <1>24, <2>3 DEF WritesOwnTables, MemberKinds, AppKinds, RegistryKinds, OrgKinds
<1>25. CASE q.kind = "access"
    <2>1. q.app \in Apps
        BY <1>25 DEF Shape
    <2>2. Effect(q) \in {db, KeysChanged(q), IpsChanged(q)}
        BY <1>25, EffectOf, Zenon
    <2>3. LET d == Effect(q) IN d \in Tables /\ SameMembers(d) /\ SameRegistry(d) /\ SameOrgs(d)
        BY <2>1, <2>2, AccessWrites, Unwritten
    <2> QED BY <1>25, <2>3 DEF WritesOwnTables, MemberKinds, AppKinds, RegistryKinds, OrgKinds
<1>26. CASE q.kind = "appWallet"
    <2>1. q.user \in Users
        BY <1>26 DEF Shape
    <2>2. Effect(q) = WalletAdded(q.user)
        BY <1>26, EffectOf
    <2>3. LET d == Effect(q) IN d \in Tables /\ SameApps(d) /\ SameRegistry(d) /\ SameOrgs(d)
        BY <2>1, <2>2, WalletAddedWrites, Unwritten
    <2> QED BY <1>26, <2>3 DEF WritesOwnTables, MemberKinds, AppKinds, RegistryKinds, OrgKinds
<1>27. CASE q.kind = "updateTenant"
    <2>1. q.roles \in SUBSET Roles
        BY <1>27 DEF Shape
    <2>2. Effect(q) = TenantUpdated(q)
        BY <1>27, EffectOf
    <2>3. LET d == Effect(q) IN d \in Tables /\ SameMembers(d) /\ SameApps(d) /\ SameRegistry(d) /\ SameOrgs(d)
        BY <2>1, <2>2, TenantUpdatedWrites, Unwritten
    <2> QED BY <1>27, <2>3 DEF WritesOwnTables, MemberKinds, AppKinds, RegistryKinds, OrgKinds
<1>28. CASE q.kind = "postContract"
    <2>1. q.addr \in Addrs /\ q.org \in Scopes /\ q.template \in Templates \cup {NoTemplate} /\ q.disclose \in BOOLEAN
        BY <1>28 DEF Shape
    <2>2. Effect(q) = ContractInserted(q)
        BY <1>28, EffectOf
    <2>3. LET d == Effect(q) IN d \in Tables /\ SameMembers(d) /\ SameApps(d) /\ SameOrgs(d)
        BY <2>1, <2>2, ContractInsertedWrites, Unwritten
    <2> QED BY <1>28, <2>3 DEF WritesOwnTables, MemberKinds, AppKinds, RegistryKinds, OrgKinds
<1>29. CASE q.kind = "putContract"
    <2>1. q.addr \in Addrs /\ q.to \in Addrs /\ q.template \in Templates \cup {NoTemplate} /\ q.disclose \in BOOLEAN
        BY <1>29 DEF Shape
    <2>2. Effect(q) = Rewritten(q)
        BY <1>29, EffectOf
    <2>3. LET d == Rewritten(q) IN d \in Tables /\ SameMembers(d) /\ SameApps(d) /\ SameOrgs(d)
        BY <2>1, RewrittenWrites
    <2> QED BY <1>29, <2>2, <2>3 DEF WritesOwnTables, MemberKinds, AppKinds, RegistryKinds, OrgKinds
<1>30. CASE q.kind = "deleteContract"
    <2>1. q.addr \in Addrs
        BY <1>30 DEF Shape
    <2>2. Effect(q) = ContractDeleted(q.addr)
        BY <1>30, EffectOf
    <2>3. LET d == Effect(q) IN d \in Tables /\ SameMembers(d) /\ SameApps(d) /\ SameOrgs(d)
        BY <2>1, <2>2, ContractDeletedWrites, Unwritten
    <2> QED BY <1>30, <2>3 DEF WritesOwnTables, MemberKinds, AppKinds, RegistryKinds, OrgKinds
<1>31. CASE q.kind = "postFn"
    <2>1. q.fn \in FnPerms /\ q.addr \in Addrs /\ q.roles \in SUBSET Roles /\ q.orgOnly \in BOOLEAN /\ q.umbrella \in BOOLEAN
        BY <1>31 DEF Shape
    <2>2. Effect(q) = FnInserted(q)
        BY <1>31, EffectOf
    <2>3. LET d == FnInserted(q) IN d \in Tables /\ SameMembers(d) /\ SameApps(d) /\ SameOrgs(d)
        BY <2>1, FnInsertedWrites
    <2> QED BY <1>31, <2>2, <2>3 DEF WritesOwnTables, MemberKinds, AppKinds, RegistryKinds, OrgKinds
<1>32. CASE q.kind = "putFn"
    <2>1. q.fn \in FnPerms /\ q.roles \in SUBSET Roles /\ q.orgOnly \in BOOLEAN /\ q.umbrella \in BOOLEAN
        BY <1>32 DEF Shape
    <2>2. Effect(q) = FnUpdated(q)
        BY <1>32, EffectOf
    <2>3. LET d == Effect(q) IN d \in Tables /\ SameMembers(d) /\ SameApps(d) /\ SameOrgs(d)
        BY <2>1, <2>2, FnUpdatedWrites, Unwritten
    <2> QED BY <1>32, <2>3 DEF WritesOwnTables, MemberKinds, AppKinds, RegistryKinds, OrgKinds
<1>33. CASE q.kind = "deleteFn"
    <2>1. q.fn \in FnPerms
        BY <1>33 DEF Shape
    <2>2. Effect(q) = [db EXCEPT !.fn[q.fn].live = FALSE]
        BY <1>33, EffectOf
    <2>3. LET d == Effect(q) IN d \in Tables /\ SameMembers(d) /\ SameApps(d) /\ SameOrgs(d)
        BY <2>1, <2>2, FnDeletedWrites, Unwritten
    <2> QED BY <1>33, <2>3 DEF WritesOwnTables, MemberKinds, AppKinds, RegistryKinds, OrgKinds
<1>34. CASE q.kind = "postEv"
    <2>1. q.ev \in EvPerms /\ q.addr \in Addrs /\ q.roles \in SUBSET Roles /\ q.orgOnly \in BOOLEAN
        BY <1>34 DEF Shape
    <2>2. Effect(q) = EvInserted(q)
        BY <1>34, EffectOf
    <2>3. LET d == Effect(q) IN d \in Tables /\ SameMembers(d) /\ SameApps(d) /\ SameOrgs(d)
        BY <2>1, <2>2, EvWritten, Unwritten, ZenonT(60)
    <2> QED BY <1>34, <2>3 DEF WritesOwnTables, MemberKinds, AppKinds, RegistryKinds, OrgKinds
<1>35. CASE q.kind = "putEv"
    <2>1. q.ev \in EvPerms /\ q.addr \in Addrs /\ q.roles \in SUBSET Roles /\ q.orgOnly \in BOOLEAN
        BY <1>35 DEF Shape
    <2>2. Effect(q) = EvUpdated(q)
        BY <1>35, EffectOf
    <2>3. LET d == Effect(q) IN d \in Tables /\ SameMembers(d) /\ SameApps(d) /\ SameOrgs(d)
        BY <2>1, <2>2, EvWritten, Unwritten, ZenonT(60)
    <2> QED BY <1>35, <2>3 DEF WritesOwnTables, MemberKinds, AppKinds, RegistryKinds, OrgKinds
<1>36. CASE q.kind = "deleteEv"
    <2>1. q.ev \in EvPerms
        BY <1>36 DEF Shape
    <2>2. Effect(q) = [db EXCEPT !.ev[q.ev].live = FALSE]
        BY <1>36, EffectOf
    <2>3. LET d == Effect(q) IN d \in Tables /\ SameMembers(d) /\ SameApps(d) /\ SameOrgs(d)
        BY <2>1, <2>2, EvDeletedWrites, Unwritten
    <2> QED BY <1>36, <2>3 DEF WritesOwnTables, MemberKinds, AppKinds, RegistryKinds, OrgKinds
<1>37. CASE q.kind = "template"
    <2>1. q.template \in Templates
        BY <1>37 DEF Shape
    <2>2. Effect(q) \in {TemplateUmbrella(q.template), TemplatePlain(q.template)}
        BY <1>37, EffectOf
    <2>3. LET d == Effect(q) IN d \in Tables /\ SameMembers(d) /\ SameApps(d) /\ SameOrgs(d)
        BY <2>1, <2>2, TemplateWrites, Unwritten
    <2> QED BY <1>37, <2>3 DEF WritesOwnTables, MemberKinds, AppKinds, RegistryKinds, OrgKinds
<1>38. CASE q.kind = "noTemplate"
    <2>1. q.template \in Templates
        BY <1>38 DEF Shape
    <2>2. Effect(q) = TemplateDeleted(q.template)
        BY <1>38, EffectOf
    <2>3. LET d == Effect(q) IN d \in Tables /\ SameMembers(d) /\ SameApps(d) /\ SameOrgs(d)
        BY <2>1, <2>2, TemplateWrites, Unwritten
    <2> QED BY <1>38, <2>3 DEF WritesOwnTables, MemberKinds, AppKinds, RegistryKinds, OrgKinds
<1>39. CASE q.kind \notin {"createOrg", "updateOrg", "deleteOrg", "seedAdmin", "withdrawAdmin",
                           "setIdp", "firstLogin", "elevate", "addUser", "invite", "removeUser",
                           "commitRoles", "createUser", "appUser", "tenantUser", "updateUser",
                           "deleteUser", "createRole", "updateRole", "deleteRole", "createApp",
                           "updateApp", "deleteApp", "linkApp", "access", "appWallet", "updateTenant",
                           "postContract", "putContract", "deleteContract", "postFn", "putFn",
                           "deleteFn", "postEv", "putEv", "deleteEv", "template", "noTemplate"}
    BY <1>39, EffectOf, Unwritten DEF WritesOwnTables
<1> QED BY <1>1, <1>2, <1>3, <1>4, <1>5, <1>6, <1>7, <1>8, <1>9, <1>10, <1>11, <1>12, <1>13, <1>14,
           <1>15, <1>16, <1>17, <1>18, <1>19, <1>20, <1>21, <1>22, <1>23, <1>24, <1>25, <1>26, <1>27,
           <1>28, <1>29, <1>30, <1>31, <1>32, <1>33, <1>34, <1>35, <1>36, <1>37, <1>38, <1>39

-----------------------------------------------------------------------------
(* What a request makes of users, roles and who holds what                 *)

\* What a request makes of one row of the members' tables.
RoleEdit(q, r) ==
    LET old == db.role[r]
        new == db'.role[r] IN
    \/ new = old
    \/ /\ q.kind = "firstLogin" /\ r \in q.roles
       /\ new.state = "live" /\ new.org = old.org /\ new.admin = old.admin /\ new.system = old.system
    \/ /\ q.kind = "createRole" /\ r = q.role /\ old.state = "none"
       /\ new.state = "live" /\ new.org = q.org /\ new.admin = q.admin /\ new.system = FALSE
    \/ /\ q.kind = "updateRole" /\ r = q.role /\ Scoped(r, q.org)
       /\ new.state = "live" /\ new.org = q.moved /\ new.admin = q.admin /\ new.system = old.system
    \/ /\ q.kind = "deleteRole" /\ r = q.role /\ Scoped(r, q.org)
       /\ new.state = "gone" /\ new.org = old.org /\ new.admin = old.admin /\ new.system = old.system

\* What it makes of one user.
UserEdit(q, u) ==
    LET old == db.user[u]
        new == db'.user[u] IN
    \/ new = old
    \/ q.kind = "firstLogin" /\ u = q.by /\ ~old.live /\ new.live /\ new.org = q.org /\ ~new.wallet
    \/ q.kind = "invite" /\ u = q.user /\ ~old.live /\ new.live /\ new.org = q.org /\ ~new.wallet
    \/ q.kind \in {"createUser", "appUser", "tenantUser"} /\ u = q.user /\ ~old.live /\ new.live /\ new.org = q.org
    \/ /\ q.kind = "addUser" /\ u = q.user /\ old.live /\ old.org = Zone
       /\ new.live /\ new.org = q.org /\ new.wallet = old.wallet
    \/ q.kind = "removeUser" /\ u = q.user /\ old.live /\ new.live /\ new.org = Zone /\ new.wallet = old.wallet
    \/ q.kind = "updateUser" /\ u = q.user /\ old.live /\ new.live /\ new.org = old.org
    \/ q.kind = "appWallet" /\ u = q.user /\ new.live = old.live /\ new.org = old.org
    \/ q.kind = "deleteUser" /\ u = q.user /\ ~new.live /\ new.org = Zone /\ ~new.wallet
    \/ q.kind = "deleteOrg" /\ old.org = q.org /\ new.live = old.live /\ new.org = old.org /\ ~new.wallet

\* Who it gives a role.
HoldGained(q, h) ==
    /\ db'.user[h[1]].live
    /\ \/ q.kind = "firstLogin" /\ h[1] = q.by /\ h[2] \in q.roles /\ db'.user[h[1]].org = q.org
          /\ db'.role[h[2]].state = "live"
       \/ q.kind = "elevate" /\ h[1] = q.by /\ h[2] \in q.roles /\ MayHold(q.by, q.roles)
       \/ q.kind \in {"createUser", "appUser", "tenantUser"} /\ h[1] = q.user /\ h[2] \in q.roles
          /\ RolesMatch(q.roles, q.org) /\ db'.user[h[1]].org = q.org
       \/ q.kind = "updateUser" /\ h[1] = q.user /\ h[2] \in q.roles /\ AllLive(q.roles)
       \/ q.kind = "commitRoles" /\ h[1] = q.user /\ h[2] \in q.add /\ LiveRole(h[2])

\* Whom it takes a role from.
HoldLost(q, h) ==
    \/ q.kind = "firstLogin" /\ h[1] = q.by /\ ~db.user[h[1]].live
    \/ q.kind \in {"invite", "createUser", "appUser", "tenantUser"} /\ h[1] = q.user /\ ~db.user[h[1]].live
    \/ q.kind = "removeUser" /\ h[1] = q.user /\ db.role[h[2]].org = q.org
    \/ q.kind = "commitRoles" /\ h[1] = q.user /\ h[2] \in q.del
    \/ q.kind = "deleteRole" /\ h[2] = q.role /\ Scoped(q.role, q.org)
    \/ q.kind = "elevate" /\ h[1] = q.by
    \/ q.kind \in {"updateUser", "deleteUser"} /\ h[1] = q.user

\* What is left of the rows it takes away.
HoldKept(q, h) ==
    /\ q.kind = "deleteUser" => h[1] # q.user
    /\ (q.kind = "deleteRole" /\ db' # db) => h[2] # q.role
    /\ (q.kind = "removeUser" /\ db' # db /\ h[1] = q.user) => db.role[h[2]].org # q.org

\* What a request makes of users, roles and who holds what.
MembersEdited(q) ==
    /\ db'.multi = db.multi
    /\ \A r \in Roles : RoleEdit(q, r)
    /\ \A u \in Users : UserEdit(q, u)
    /\ \A h \in db'.holds : HoldKept(q, h) /\ (h \notin db.holds => HoldGained(q, h))
    /\ \A h \in db.holds \ db'.holds : HoldLost(q, h)
    /\ q.kind = "deleteOrg" => \A u \in Users : db.user[u].org = q.org => ~db'.user[u].wallet

LEMMA HeldPairs ==
    ASSUME db \in Tables
    PROVE  \A h \in db.holds : h[1] \in Users /\ h[2] \in Roles
BY RowsTyped

LEMMA Regranted ==
    ASSUME NEW u, NEW R, NEW h
    PROVE  h \in Without(u) \cup Grant(u, R) <=> (h \in db.holds /\ h[1] # u) \/ (h \in Grant(u, R) /\ h[1] = u /\ h[2] \in R)
BY DEF Without, Grant

LEMMA MembersUnwritten ==
    ASSUME SameMembers(db'), NEW q, q.kind \notin {"deleteUser", "deleteRole", "removeUser", "deleteOrg"} \/ db' = db
    PROVE  q.kind \notin {"deleteUser", "deleteOrg"} => MembersEdited(q)
BY DEF SameMembers, MembersEdited, RoleEdit, UserEdit, HoldKept

LEMMA EditsOfMembers ==
    ASSUME db \in Tables, NEW q, q # Idle, Shape(q), db' = Effect(q)
    PROVE  MembersEdited(q)
<1>1. CASE q.kind = "firstLogin"
    <2>1. q.by \in Users /\ q.org \in Scopes /\ q.roles \in SUBSET Roles
        BY <1>1 DEF Shape
    <2>2. db' = Bootstrapped(q)
        BY <1>1, EffectOf
    <2>3. /\ db' \in Tables /\ SameRegistry(db') /\ SameApps(db') /\ SameOrgs(db')
          /\ db' = db \/
             /\ ~db.user[q.by].live
             /\ db'.multi = db.multi
             /\ db'.role = [r \in Roles |-> IF r \in q.roles THEN [db.role[r] EXCEPT !.state = "live"] ELSE db.role[r]]
             /\ db'.user = [db.user EXCEPT ![q.by] = [live |-> TRUE, org |-> q.org, wallet |-> FALSE]]
             /\ db'.holds = Without(q.by) \cup Grant(q.by, q.roles)
        BY <2>1, <2>2, BootstrappedWrites
    <2>4. \A r \in Roles : RoleEdit(q, r)
        <3>1. \A r \in Roles : db.role[r] \in RoleRows
            BY RowsTyped
        <3> QED BY <1>1, <2>1, <2>3, <3>1, RowsTyped DEF RoleEdit, RoleRows, Scoped, LiveRole
    <2>5. \A u \in Users : UserEdit(q, u)
        <3>1. \A u \in Users : db.user[u] \in UserRows
            BY RowsTyped
        <3> QED BY <1>1, <2>1, <2>3, <3>1, RowsTyped DEF UserEdit, UserRows
    <2>6. \A h \in db'.holds : HoldKept(q, h) /\ (h \notin db.holds => HoldGained(q, h))
        <3>1. db' = db \/ (db'.user[q.by].live /\ db'.user[q.by].org = q.org /\ \A r \in q.roles : db'.role[r].state = "live")
            <4>1. db.user[q.by] \in UserRows /\ \A r \in Roles : db.role[r] \in RoleRows
                BY <2>1, RowsTyped
            <4> QED BY <1>1, <2>1, <2>3, <4>1, RowsTyped DEF UserRows, RoleRows
        <3>2. db' = db \/ (db'.holds = Without(q.by) \cup Grant(q.by, q.roles))
            BY <2>3
        <3> SUFFICES ASSUME db' # db, NEW h \in db'.holds
                     PROVE  HoldKept(q, h) /\ (h \notin db.holds => HoldGained(q, h))
            BY <1>1 DEF HoldKept
        <3>3. HoldKept(q, h)
            BY <1>1 DEF HoldKept
        <3>4. h \in db.holds \/ (h[1] = q.by /\ h[2] \in q.roles)
            BY <3>2, Regranted
        <3> QED BY <1>1, <2>1, <3>1, <3>2, <3>3, <3>4 DEF HoldGained
    <2>7. \A h \in db.holds \ db'.holds : HoldLost(q, h)
        BY <1>1, <2>1, <2>3, RowsTyped, Regranted, HeldPairs DEF HoldLost, RoleOwnedBy, Grant
    <2> QED BY <1>1, <2>3, <2>4, <2>5, <2>6, <2>7 DEF MembersEdited
<1>2. CASE q.kind = "elevate"
    <2>1. q.by \in Users /\ q.roles \in SUBSET Roles
        BY <1>2 DEF Shape
    <2>2. db' = db \/ (db.user[q.by].live /\ MayHold(q.by, q.roles) /\ db' = [db EXCEPT !.holds = Without(q.by) \cup Grant(q.by, q.roles)])
        BY <1>2, EffectOf
    <2>3. LET d == [db EXCEPT !.holds = Without(q.by) \cup Grant(q.by, q.roles)] IN
          /\ d \in Tables /\ SameRegistry(d) /\ SameApps(d) /\ SameOrgs(d)
          /\ d.multi = db.multi /\ d.role = db.role /\ d.user = db.user
          /\ d.holds = Without(q.by) \cup Grant(q.by, q.roles)
        BY <2>1, RegrantedWrites
    <2>4. db' = db \/
          /\ db.user[q.by].live /\ MayHold(q.by, q.roles)
          /\ db' \in Tables /\ SameRegistry(db') /\ SameApps(db') /\ SameOrgs(db')
          /\ db'.multi = db.multi /\ db'.role = db.role /\ db'.user = db.user
          /\ db'.holds = Without(q.by) \cup Grant(q.by, q.roles)
        BY <2>2, <2>3
    <2>5. \A r \in Roles : RoleEdit(q, r)
        BY <2>4 DEF RoleEdit
    <2>6. \A u \in Users : UserEdit(q, u)
        BY <2>4 DEF UserEdit
    <2>7. \A h \in db'.holds : HoldKept(q, h) /\ (h \notin db.holds => HoldGained(q, h))
        BY <1>2, <2>1, <2>4, RowsTyped, Regranted, HeldPairs
           DEF HoldKept, HoldGained, RoleOwnedBy, Grant, Without, LiveRole
    <2>8. \A h \in db.holds \ db'.holds : HoldLost(q, h)
        BY <1>2, <2>1, <2>4, RowsTyped, Regranted, HeldPairs DEF HoldLost, RoleOwnedBy, Grant
    <2> QED BY <1>2, <2>4, <2>5, <2>6, <2>7, <2>8 DEF MembersEdited
<1>3. CASE q.kind = "addUser"
    <2>1. q.org \in Orgs /\ q.user \in Users
        BY <1>3 DEF Shape
    <2>2. db' = Joined(q)
        BY <1>3, EffectOf
    <2>3. /\ db' \in Tables /\ SameRegistry(db') /\ SameApps(db') /\ SameOrgs(db')
          /\ db'.multi = db.multi /\ db'.role = db.role /\ db'.holds = db.holds
          /\ db' = db \/
             /\ db.user[q.user].live /\ db.user[q.user].org = Zone
             /\ db'.user = [db.user EXCEPT ![q.user].org = q.org]
        BY <2>1, <2>2, JoinedWrites
    <2>4. \A r \in Roles : RoleEdit(q, r)
        BY <2>3 DEF RoleEdit
    <2>5. \A u \in Users : UserEdit(q, u)
        <3>1. \A u \in Users : db.user[u] \in UserRows
            BY RowsTyped
        <3> QED BY <1>3, <2>1, <2>3, <3>1, RowsTyped DEF UserEdit, UserRows
    <2>6. \A h \in db'.holds : HoldKept(q, h) /\ (h \notin db.holds => HoldGained(q, h))
        BY <1>3, <2>1, <2>3, RowsTyped, Regranted, HeldPairs
           DEF HoldKept, HoldGained, RoleOwnedBy, Grant, Without, LiveRole
    <2>7. \A h \in db.holds \ db'.holds : HoldLost(q, h)
        BY <1>3, <2>1, <2>3, RowsTyped, Regranted, HeldPairs DEF HoldLost, RoleOwnedBy, Grant
    <2> QED BY <1>3, <2>3, <2>4, <2>5, <2>6, <2>7 DEF MembersEdited
<1>4. CASE q.kind = "invite"
    <2>1. q.org \in Orgs /\ q.user \in Users
        BY <1>4 DEF Shape
    <2>2. db' = Invited(q)
        BY <1>4, EffectOf
    <2>3. /\ db' \in Tables /\ SameRegistry(db') /\ SameApps(db') /\ SameOrgs(db')
          /\ db'.multi = db.multi /\ db'.role = db.role
          /\ db' = db \/
             /\ ~db.user[q.user].live
             /\ db'.user = [db.user EXCEPT ![q.user] = [live |-> TRUE, org |-> q.org, wallet |-> FALSE]]
             /\ db'.holds = Without(q.user)
        BY <2>1, <2>2, InvitedWrites
    <2>4. \A r \in Roles : RoleEdit(q, r)
        BY <2>3 DEF RoleEdit
    <2>5. \A u \in Users : UserEdit(q, u)
        <3>1. \A u \in Users : db.user[u] \in UserRows
            BY RowsTyped
        <3> QED BY <1>4, <2>1, <2>3, <3>1, RowsTyped DEF UserEdit, UserRows
    <2>6. \A h \in db'.holds : HoldKept(q, h) /\ (h \notin db.holds => HoldGained(q, h))
        <3>1. db' = db \/ (db'.user[q.user].live /\ db'.user[q.user].org = q.org)
            BY <1>4, <2>1, <2>3, RowsTyped
        <3>2. db' = db \/ (db'.holds = Without(q.user))
            BY <2>3
        <3> SUFFICES ASSUME db' # db, NEW h \in db'.holds
                     PROVE  HoldKept(q, h) /\ (h \notin db.holds => HoldGained(q, h))
            BY <1>4 DEF HoldKept
        <3>3. HoldKept(q, h)
            BY <1>4 DEF HoldKept
        <3>4. h \in db.holds
            BY <3>2 DEF Without
        <3> QED BY <3>3, <3>4
    <2>7. \A h \in db.holds \ db'.holds : HoldLost(q, h)
        BY <1>4, <2>1, <2>3, RowsTyped, Regranted, HeldPairs DEF HoldLost, RoleOwnedBy, Grant
    <2> QED BY <1>4, <2>3, <2>4, <2>5, <2>6, <2>7 DEF MembersEdited
<1>5. CASE q.kind = "removeUser"
    <2>1. q.org \in Orgs /\ q.user \in Users
        BY <1>5 DEF Shape
    <2>2. db' = Removed(q)
        BY <1>5, EffectOf
    <2>3. /\ db' \in Tables /\ SameRegistry(db') /\ SameApps(db') /\ SameOrgs(db')
          /\ db'.multi = db.multi /\ db'.role = db.role
          /\ db' = db \/
             /\ db.user[q.user].live
             /\ db'.user = [db.user EXCEPT ![q.user].org = Zone]
             /\ db'.holds = {h \in db.holds : h[1] # q.user \/ ~RoleOwnedBy(q.org, h[2])}
        BY <2>1, <2>2, RemovedWrites
    <2>4. \A r \in Roles : RoleEdit(q, r)
        BY <2>3 DEF RoleEdit
    <2>5. \A u \in Users : UserEdit(q, u)
        <3>1. \A u \in Users : db.user[u] \in UserRows
            BY RowsTyped
        <3> QED BY <1>5, <2>1, <2>3, <3>1, RowsTyped DEF UserEdit, UserRows
    <2>6. \A h \in db'.holds : HoldKept(q, h) /\ (h \notin db.holds => HoldGained(q, h))
        BY <1>5, <2>1, <2>3, RowsTyped, Regranted, HeldPairs
           DEF HoldKept, HoldGained, RoleOwnedBy, Grant, Without, LiveRole
    <2>7. \A h \in db.holds \ db'.holds : HoldLost(q, h)
        BY <1>5, <2>1, <2>3, RowsTyped, Regranted, HeldPairs DEF HoldLost, RoleOwnedBy, Grant
    <2> QED BY <1>5, <2>3, <2>4, <2>5, <2>6, <2>7 DEF MembersEdited
<1>6. CASE q.kind = "commitRoles"
    <2>1. q.user \in Users /\ q.add \in SUBSET Roles
        BY <1>6 DEF Shape
    <2>2. db' = RolesSet(q)
        BY <1>6, EffectOf
    <2>3. /\ db' \in Tables /\ SameRegistry(db') /\ SameApps(db') /\ SameOrgs(db')
          /\ db'.multi = db.multi /\ db'.role = db.role /\ db'.user = db.user
          /\ db' = db \/
             /\ db.user[q.user].live
             /\ db'.holds = (db.holds \ Grant(q.user, q.del)) \cup {h \in Grant(q.user,
                                                                    q.add) : LiveRole(h[2])}
        BY <2>1, <2>2, RolesSetWrites
    <2>4. \A r \in Roles : RoleEdit(q, r)
        BY <2>3 DEF RoleEdit
    <2>5. \A u \in Users : UserEdit(q, u)
        BY <2>3 DEF UserEdit
    <2>6. \A h \in db'.holds : HoldKept(q, h) /\ (h \notin db.holds => HoldGained(q, h))
        BY <1>6, <2>1, <2>3, RowsTyped, Regranted, HeldPairs
           DEF HoldKept, HoldGained, RoleOwnedBy, Grant, Without, LiveRole
    <2>7. \A h \in db.holds \ db'.holds : HoldLost(q, h)
        BY <1>6, <2>1, <2>3, RowsTyped, Regranted, HeldPairs DEF HoldLost, RoleOwnedBy, Grant
    <2> QED BY <1>6, <2>3, <2>4, <2>5, <2>6, <2>7 DEF MembersEdited
<1>7. CASE q.kind = "createUser"
    <2>1. q.user \in Users /\ q.org \in Scopes /\ q.roles \in SUBSET Roles /\ q.wallet \in BOOLEAN
        BY <1>7 DEF Shape
    <2>2. db' = MemberCreated(q)
        BY <1>7, EffectOf
    <2>3. /\ db' \in Tables /\ SameRegistry(db') /\ SameApps(db') /\ SameOrgs(db')
          /\ db'.multi = db.multi /\ db'.role = db.role
          /\ db' = db \/
             /\ ~db.user[q.user].live /\ RolesMatch(q.roles, q.org)
             /\ db'.user = [db.user EXCEPT ![q.user] = [live |-> TRUE, org |-> q.org, wallet |-> q.wallet]]
             /\ db'.holds = Without(q.user) \cup Grant(q.user, q.roles)
        BY <2>1, <2>2, MemberCreatedWrites
    <2>4. \A r \in Roles : RoleEdit(q, r)
        BY <2>3 DEF RoleEdit
    <2>5. \A u \in Users : UserEdit(q, u)
        <3>1. \A u \in Users : db.user[u] \in UserRows
            BY RowsTyped
        <3> QED BY <1>7, <2>1, <2>3, <3>1, RowsTyped DEF UserEdit, UserRows
    <2>6. \A h \in db'.holds : HoldKept(q, h) /\ (h \notin db.holds => HoldGained(q, h))
        <3>1. db' = db \/ (db'.user[q.user].live /\ db'.user[q.user].org = q.org)
            BY <1>7, <2>1, <2>3, RowsTyped
        <3>2. db' = db \/ (db'.holds = Without(q.user) \cup Grant(q.user, q.roles) /\ RolesMatch(q.roles, q.org))
            BY <2>3
        <3> SUFFICES ASSUME db' # db, NEW h \in db'.holds
                     PROVE  HoldKept(q, h) /\ (h \notin db.holds => HoldGained(q, h))
            BY <1>7 DEF HoldKept
        <3>3. HoldKept(q, h)
            BY <1>7 DEF HoldKept
        <3>4. h \in db.holds \/ (h[1] = q.user /\ h[2] \in q.roles)
            BY <3>2, Regranted
        <3> QED BY <1>7, <2>1, <3>1, <3>2, <3>3, <3>4 DEF HoldGained
    <2>7. \A h \in db.holds \ db'.holds : HoldLost(q, h)
        BY <1>7, <2>1, <2>3, RowsTyped, Regranted, HeldPairs DEF HoldLost, RoleOwnedBy, Grant
    <2> QED BY <1>7, <2>3, <2>4, <2>5, <2>6, <2>7 DEF MembersEdited
<1>8. CASE q.kind = "appUser"
    <2>1. q.user \in Users /\ q.org \in Scopes /\ q.roles \in SUBSET Roles /\ q.wallet \in BOOLEAN
        BY <1>8 DEF Shape
    <2>2. db' = MemberCreated(q)
        BY <1>8, EffectOf
    <2>3. /\ db' \in Tables /\ SameRegistry(db') /\ SameApps(db') /\ SameOrgs(db')
          /\ db'.multi = db.multi /\ db'.role = db.role
          /\ db' = db \/
             /\ ~db.user[q.user].live /\ RolesMatch(q.roles, q.org)
             /\ db'.user = [db.user EXCEPT ![q.user] = [live |-> TRUE, org |-> q.org, wallet |-> q.wallet]]
             /\ db'.holds = Without(q.user) \cup Grant(q.user, q.roles)
        BY <2>1, <2>2, MemberCreatedWrites
    <2>4. \A r \in Roles : RoleEdit(q, r)
        BY <2>3 DEF RoleEdit
    <2>5. \A u \in Users : UserEdit(q, u)
        <3>1. \A u \in Users : db.user[u] \in UserRows
            BY RowsTyped
        <3> QED BY <1>8, <2>1, <2>3, <3>1, RowsTyped DEF UserEdit, UserRows
    <2>6. \A h \in db'.holds : HoldKept(q, h) /\ (h \notin db.holds => HoldGained(q, h))
        <3>1. db' = db \/ (db'.user[q.user].live /\ db'.user[q.user].org = q.org)
            BY <1>8, <2>1, <2>3, RowsTyped
        <3>2. db' = db \/ (db'.holds = Without(q.user) \cup Grant(q.user, q.roles) /\ RolesMatch(q.roles, q.org))
            BY <2>3
        <3> SUFFICES ASSUME db' # db, NEW h \in db'.holds
                     PROVE  HoldKept(q, h) /\ (h \notin db.holds => HoldGained(q, h))
            BY <1>8 DEF HoldKept
        <3>3. HoldKept(q, h)
            BY <1>8 DEF HoldKept
        <3>4. h \in db.holds \/ (h[1] = q.user /\ h[2] \in q.roles)
            BY <3>2, Regranted
        <3> QED BY <1>8, <2>1, <3>1, <3>2, <3>3, <3>4 DEF HoldGained
    <2>7. \A h \in db.holds \ db'.holds : HoldLost(q, h)
        BY <1>8, <2>1, <2>3, RowsTyped, Regranted, HeldPairs DEF HoldLost, RoleOwnedBy, Grant
    <2> QED BY <1>8, <2>3, <2>4, <2>5, <2>6, <2>7 DEF MembersEdited
<1>9. CASE q.kind = "tenantUser"
    <2>1. q.user \in Users /\ q.org \in Scopes /\ q.roles \in SUBSET Roles /\ q.wallet \in BOOLEAN
        BY <1>9 DEF Shape
    <2>2. db' = MemberCreated(q)
        BY <1>9, EffectOf
    <2>3. /\ db' \in Tables /\ SameRegistry(db') /\ SameApps(db') /\ SameOrgs(db')
          /\ db'.multi = db.multi /\ db'.role = db.role
          /\ db' = db \/
             /\ ~db.user[q.user].live /\ RolesMatch(q.roles, q.org)
             /\ db'.user = [db.user EXCEPT ![q.user] = [live |-> TRUE, org |-> q.org, wallet |-> q.wallet]]
             /\ db'.holds = Without(q.user) \cup Grant(q.user, q.roles)
        BY <2>1, <2>2, MemberCreatedWrites
    <2>4. \A r \in Roles : RoleEdit(q, r)
        BY <2>3 DEF RoleEdit
    <2>5. \A u \in Users : UserEdit(q, u)
        <3>1. \A u \in Users : db.user[u] \in UserRows
            BY RowsTyped
        <3> QED BY <1>9, <2>1, <2>3, <3>1, RowsTyped DEF UserEdit, UserRows
    <2>6. \A h \in db'.holds : HoldKept(q, h) /\ (h \notin db.holds => HoldGained(q, h))
        <3>1. db' = db \/ (db'.user[q.user].live /\ db'.user[q.user].org = q.org)
            BY <1>9, <2>1, <2>3, RowsTyped
        <3>2. db' = db \/ (db'.holds = Without(q.user) \cup Grant(q.user, q.roles) /\ RolesMatch(q.roles, q.org))
            BY <2>3
        <3> SUFFICES ASSUME db' # db, NEW h \in db'.holds
                     PROVE  HoldKept(q, h) /\ (h \notin db.holds => HoldGained(q, h))
            BY <1>9 DEF HoldKept
        <3>3. HoldKept(q, h)
            BY <1>9 DEF HoldKept
        <3>4. h \in db.holds \/ (h[1] = q.user /\ h[2] \in q.roles)
            BY <3>2, Regranted
        <3> QED BY <1>9, <2>1, <3>1, <3>2, <3>3, <3>4 DEF HoldGained
    <2>7. \A h \in db.holds \ db'.holds : HoldLost(q, h)
        BY <1>9, <2>1, <2>3, RowsTyped, Regranted, HeldPairs DEF HoldLost, RoleOwnedBy, Grant
    <2> QED BY <1>9, <2>3, <2>4, <2>5, <2>6, <2>7 DEF MembersEdited
<1>10. CASE q.kind = "updateUser"
    <2>1. q.user \in Users /\ q.roles \in SUBSET Roles /\ q.wallet \in BOOLEAN
        BY <1>10 DEF Shape
    <2>2. db' = UserUpdated(q)
        BY <1>10, EffectOf
    <2>3. /\ db' \in Tables /\ SameRegistry(db') /\ SameApps(db') /\ SameOrgs(db')
          /\ db'.multi = db.multi /\ db'.role = db.role
          /\ db' = db \/
             /\ db.user[q.user].live /\ AllLive(q.roles)
             /\ db'.user = [db.user EXCEPT ![q.user].wallet = q.wallet]
             /\ db'.holds = Without(q.user) \cup Grant(q.user, q.roles)
        BY <2>1, <2>2, UserUpdatedWrites
    <2>4. \A r \in Roles : RoleEdit(q, r)
        BY <2>3 DEF RoleEdit
    <2>5. \A u \in Users : UserEdit(q, u)
        <3>1. \A u \in Users : db.user[u] \in UserRows
            BY RowsTyped
        <3> QED BY <1>10, <2>1, <2>3, <3>1, RowsTyped DEF UserEdit, UserRows
    <2>6. \A h \in db'.holds : HoldKept(q, h) /\ (h \notin db.holds => HoldGained(q, h))
        <3>1. db' = db \/ (db'.user[q.user].live)
            <4>1. db.user[q.user] \in UserRows /\ \A r \in Roles : db.role[r] \in RoleRows
                BY <2>1, RowsTyped
            <4> QED BY <1>10, <2>1, <2>3, <4>1, RowsTyped DEF UserRows, RoleRows
        <3>2. db' = db \/ (db'.holds = Without(q.user) \cup Grant(q.user, q.roles) /\ AllLive(q.roles))
            BY <2>3
        <3> SUFFICES ASSUME db' # db, NEW h \in db'.holds
                     PROVE  HoldKept(q, h) /\ (h \notin db.holds => HoldGained(q, h))
            BY <1>10 DEF HoldKept
        <3>3. HoldKept(q, h)
            BY <1>10 DEF HoldKept
        <3>4. h \in db.holds \/ (h[1] = q.user /\ h[2] \in q.roles)
            BY <3>2, Regranted
        <3> QED BY <1>10, <2>1, <3>1, <3>2, <3>3, <3>4 DEF HoldGained
    <2>7. \A h \in db.holds \ db'.holds : HoldLost(q, h)
        BY <1>10, <2>1, <2>3, RowsTyped, Regranted, HeldPairs DEF HoldLost, RoleOwnedBy, Grant
    <2> QED BY <1>10, <2>3, <2>4, <2>5, <2>6, <2>7 DEF MembersEdited
<1>11. CASE q.kind = "deleteUser"
    <2>1. q.user \in Users
        BY <1>11 DEF Shape
    <2>2. db' = UserDeleted(q.user)
        BY <1>11, EffectOf
    <2>3. /\ db' \in Tables /\ SameRegistry(db') /\ SameApps(db') /\ SameOrgs(db')
          /\ db'.multi = db.multi /\ db'.role = db.role
          /\ db'.user = [db.user EXCEPT ![q.user] = [live |-> FALSE, org |-> Zone, wallet |-> FALSE]]
          /\ db'.holds = Without(q.user)
        BY <2>1, <2>2, UserDeletedWrites
    <2>4. \A r \in Roles : RoleEdit(q, r)
        BY <2>3 DEF RoleEdit
    <2>5. \A u \in Users : UserEdit(q, u)
        <3>1. \A u \in Users : db.user[u] \in UserRows
            BY RowsTyped
        <3> QED BY <1>11, <2>1, <2>3, <3>1, RowsTyped DEF UserEdit, UserRows
    <2>6. \A h \in db'.holds : HoldKept(q, h) /\ (h \notin db.holds => HoldGained(q, h))
        BY <1>11, <2>1, <2>3, RowsTyped, Regranted, HeldPairs
           DEF HoldKept, HoldGained, RoleOwnedBy, Grant, Without, LiveRole
    <2>7. \A h \in db.holds \ db'.holds : HoldLost(q, h)
        BY <1>11, <2>1, <2>3, RowsTyped, Regranted, HeldPairs DEF HoldLost, RoleOwnedBy, Grant
    <2> QED BY <1>11, <2>3, <2>4, <2>5, <2>6, <2>7 DEF MembersEdited
<1>12. CASE q.kind = "createRole"
    <2>1. q.role \in Roles /\ q.org \in Scopes /\ q.admin \in BOOLEAN
        BY <1>12 DEF Shape
    <2>2. db' = RoleInserted(q)
        BY <1>12, EffectOf
    <2>3. /\ db' \in Tables /\ SameRegistry(db') /\ SameApps(db') /\ SameOrgs(db')
          /\ db'.multi = db.multi /\ db'.user = db.user /\ db'.holds = db.holds
          /\ db' = db \/
             /\ db.role[q.role].state = "none"
             /\ db'.role = [db.role EXCEPT ![q.role] =
                             [state |-> "live", org |-> q.org, admin |-> q.admin, system |-> FALSE]]
        BY <2>1, <2>2, RoleInsertedWrites
    <2>4. \A r \in Roles : RoleEdit(q, r)
        <3>1. \A r \in Roles : db.role[r] \in RoleRows
            BY RowsTyped
        <3> QED BY <1>12, <2>1, <2>3, <3>1, RowsTyped DEF RoleEdit, RoleRows, Scoped, LiveRole
    <2>5. \A u \in Users : UserEdit(q, u)
        BY <2>3 DEF UserEdit
    <2>6. \A h \in db'.holds : HoldKept(q, h) /\ (h \notin db.holds => HoldGained(q, h))
        BY <1>12, <2>1, <2>3, RowsTyped, Regranted, HeldPairs
           DEF HoldKept, HoldGained, RoleOwnedBy, Grant, Without, LiveRole
    <2>7. \A h \in db.holds \ db'.holds : HoldLost(q, h)
        BY <1>12, <2>1, <2>3, RowsTyped, Regranted, HeldPairs DEF HoldLost, RoleOwnedBy, Grant
    <2> QED BY <1>12, <2>3, <2>4, <2>5, <2>6, <2>7 DEF MembersEdited
<1>13. CASE q.kind = "updateRole"
    <2>1. q.role \in Roles /\ q.moved \in Scopes /\ q.admin \in BOOLEAN
        BY <1>13 DEF Shape
    <2>2. db' = RoleUpdated(q)
        BY <1>13, EffectOf
    <2>3. /\ db' \in Tables /\ SameRegistry(db') /\ SameApps(db') /\ SameOrgs(db')
          /\ db'.multi = db.multi /\ db'.user = db.user /\ db'.holds = db.holds
          /\ db' = db \/
             /\ Scoped(q.role, q.org)
             /\ db'.role = [db.role EXCEPT ![q.role] = [db.role[q.role] EXCEPT !.org = q.moved, !.admin = q.admin]]
        BY <2>1, <2>2, RoleUpdatedWrites
    <2>4. \A r \in Roles : RoleEdit(q, r)
        <3> DEFINE row == [db.role[q.role] EXCEPT !.org = q.moved, !.admin = q.admin]
        <3>1. db.role[q.role] \in RoleRows
            BY <2>1, RowsTyped
        <3>2. row.state = db.role[q.role].state /\ row.org = q.moved /\ row.admin = q.admin /\ row.system = db.role[q.role].system
            BY <3>1 DEF RoleRows
        <3> HIDE DEF row
        <3>3. db' = db \/ (Scoped(q.role, q.org) /\ db'.role = [db.role EXCEPT ![q.role] = row])
            BY <2>3 DEF row
        <3> QED BY <1>13, <2>1, <3>2, <3>3, RowsTyped DEF RoleEdit, Scoped, LiveRole
    <2>5. \A u \in Users : UserEdit(q, u)
        BY <2>3 DEF UserEdit
    <2>6. \A h \in db'.holds : HoldKept(q, h) /\ (h \notin db.holds => HoldGained(q, h))
        BY <1>13, <2>1, <2>3, RowsTyped, Regranted, HeldPairs
           DEF HoldKept, HoldGained, RoleOwnedBy, Grant, Without, LiveRole
    <2>7. \A h \in db.holds \ db'.holds : HoldLost(q, h)
        BY <1>13, <2>1, <2>3, RowsTyped, Regranted, HeldPairs DEF HoldLost, RoleOwnedBy, Grant
    <2> QED BY <1>13, <2>3, <2>4, <2>5, <2>6, <2>7 DEF MembersEdited
<1>14. CASE q.kind = "deleteRole"
    <2>1. q.role \in Roles
        BY <1>14 DEF Shape
    <2>2. db' = db \/ (Scoped(q.role, q.org) /\ db' = DropRole(q.role))
        BY <1>14, EffectOf
    <2>3. LET d == DropRole(q.role) IN
          /\ d \in Tables /\ SameOrgs(d) /\ d.multi = db.multi /\ d.user = db.user
          /\ d.keys = db.keys /\ d.ips = db.ips /\ d.contract = db.contract /\ d.umbrella = db.umbrella
          /\ d.role = [db.role EXCEPT ![q.role] = [db.role[q.role] EXCEPT !.state = "gone"]]
          /\ d.holds = {h \in db.holds : h[2] # q.role}
          /\ d.app = [p \in Apps |-> [db.app[p] EXCEPT !.roles = db.app[p].roles \ {q.role}]]
          /\ d.fn = [p \in FnPerms |-> [db.fn[p] EXCEPT !.roles = db.fn[p].roles \ {q.role}]]
          /\ d.ev = [p \in EvPerms |-> [db.ev[p] EXCEPT !.roles = db.ev[p].roles \ {q.role}]]
        BY <2>1, DropRoleWrites
    <2>4. db' = db \/
          /\ Scoped(q.role, q.org)
          /\ db' \in Tables /\ SameOrgs(db') /\ db'.multi = db.multi /\ db'.user = db.user
          /\ db'.keys = db.keys /\ db'.ips = db.ips /\ db'.contract = db.contract /\ db'.umbrella = db.umbrella
          /\ db'.role = [db.role EXCEPT ![q.role] = [db.role[q.role] EXCEPT !.state = "gone"]]
          /\ db'.holds = {h \in db.holds : h[2] # q.role}
          /\ db'.app = [p \in Apps |-> [db.app[p] EXCEPT !.roles = db.app[p].roles \ {q.role}]]
          /\ db'.fn = [p \in FnPerms |-> [db.fn[p] EXCEPT !.roles = db.fn[p].roles \ {q.role}]]
          /\ db'.ev = [p \in EvPerms |-> [db.ev[p] EXCEPT !.roles = db.ev[p].roles \ {q.role}]]
        BY <2>2, <2>3
    <2>5. \A r \in Roles : RoleEdit(q, r)
        <3>1. \A r \in Roles : db.role[r] \in RoleRows
            BY RowsTyped
        <3>2. db' = db \/ (Scoped(q.role, q.org) /\ db'.role = [db.role EXCEPT ![q.role] = [db.role[q.role] EXCEPT !.state = "gone"]])
            BY <2>4
        <3> QED BY <1>14, <2>1, <3>1, <3>2, RowsTyped DEF RoleEdit, RoleRows
    <2>6. \A u \in Users : UserEdit(q, u)
        BY <2>4 DEF UserEdit
    <2>7. \A h \in db'.holds : HoldKept(q, h) /\ (h \notin db.holds => HoldGained(q, h))
        BY <1>14, <2>1, <2>4, RowsTyped, Regranted, HeldPairs
           DEF HoldKept, HoldGained, RoleOwnedBy, Grant, Without, LiveRole
    <2>8. \A h \in db.holds \ db'.holds : HoldLost(q, h)
        BY <1>14, <2>1, <2>4, RowsTyped, Regranted, HeldPairs DEF HoldLost, RoleOwnedBy, Grant
    <2> QED BY <1>14, <2>4, <2>5, <2>6, <2>7, <2>8 DEF MembersEdited
<1>15. CASE q.kind = "appWallet"
    <2>1. q.user \in Users
        BY <1>15 DEF Shape
    <2>2. db' = WalletAdded(q.user)
        BY <1>15, EffectOf
    <2>3. /\ db' \in Tables /\ SameRegistry(db') /\ SameApps(db') /\ SameOrgs(db')
          /\ db'.multi = db.multi /\ db'.role = db.role /\ db'.holds = db.holds
          /\ db' = db \/ db'.user = [db.user EXCEPT ![q.user].wallet = TRUE]
        BY <2>1, <2>2, WalletAddedWrites
    <2>4. \A r \in Roles : RoleEdit(q, r)
        BY <2>3 DEF RoleEdit
    <2>5. \A u \in Users : UserEdit(q, u)
        <3>1. \A u \in Users : db.user[u] \in UserRows
            BY RowsTyped
        <3> QED BY <1>15, <2>1, <2>3, <3>1, RowsTyped DEF UserEdit, UserRows
    <2>6. \A h \in db'.holds : HoldKept(q, h) /\ (h \notin db.holds => HoldGained(q, h))
        BY <1>15, <2>1, <2>3, RowsTyped, Regranted, HeldPairs
           DEF HoldKept, HoldGained, RoleOwnedBy, Grant, Without, LiveRole
    <2>7. \A h \in db.holds \ db'.holds : HoldLost(q, h)
        BY <1>15, <2>1, <2>3, RowsTyped, Regranted, HeldPairs DEF HoldLost, RoleOwnedBy, Grant
    <2> QED BY <1>15, <2>3, <2>4, <2>5, <2>6, <2>7 DEF MembersEdited
<1>16. CASE q.kind = "deleteOrg"
    <2>1. q.org \in Orgs
        BY <1>16 DEF Shape
    <2>2. db' = OrgRevoked(q.org, Released(q.org))
        BY <1>16, EffectOf
    <2>3. /\ db' \in Tables /\ SameRegistry(db') /\ db'.app = db.app
          /\ db'.multi = db.multi /\ db'.holds = db.holds /\ db'.role = db.role
          /\ db'.org = [db.org EXCEPT ![q.org] = "deleted"]
          /\ db'.user = [u \in Users |-> IF u \in Released(q.org) THEN [db.user[u] EXCEPT !.wallet = FALSE] ELSE db.user[u]]
        BY <2>1, <2>2, OrgRevokedWrites
    <2>4. \A r \in Roles : RoleEdit(q, r)
        BY <2>3 DEF RoleEdit
    <2>5. \A u \in Users : UserEdit(q, u)
        <3>1. \A u \in Users : db.user[u] \in UserRows
            BY RowsTyped
        <3> QED BY <1>16, <2>1, <2>3, <3>1, RowsTyped DEF UserEdit, UserRows, Released
    <2>6. \A h \in db'.holds : HoldKept(q, h) /\ (h \notin db.holds => HoldGained(q, h))
        BY <1>16, <2>1, <2>3, RowsTyped, Regranted, HeldPairs
           DEF HoldKept, HoldGained, RoleOwnedBy, Grant, Without, LiveRole
    <2>7. \A h \in db.holds \ db'.holds : HoldLost(q, h)
        BY <1>16, <2>1, <2>3, RowsTyped, Regranted, HeldPairs DEF HoldLost, RoleOwnedBy, Grant
    <2>8. \A u \in Users : db.user[u].org = q.org => ~db'.user[u].wallet
        <3>1. \A u \in Users : db.user[u] \in UserRows
            BY RowsTyped
        <3> QED BY <2>3, <3>1 DEF UserRows, Released
    <2> QED BY <1>16, <2>3, <2>4, <2>5, <2>6, <2>7, <2>8 DEF MembersEdited
<1>17. CASE q.kind \notin MemberKinds
    <2>1. SameMembers(db')
        BY <1>17, Writes DEF WritesOwnTables
    <2>2. q.kind \notin {"deleteUser", "deleteRole", "removeUser", "deleteOrg"}
        BY <1>17 DEF MemberKinds
    <2> QED BY <2>1, <2>2, MembersUnwritten
<1> QED BY <1>1, <1>2, <1>3, <1>4, <1>5, <1>6, <1>7, <1>8, <1>9, <1>10, <1>11, <1>12, <1>13, <1>14,
           <1>15, <1>16, <1>17 DEF MemberKinds

-----------------------------------------------------------------------------
(* What a request makes of the credentials                                 *)

\* What a request makes of one credential, and of the list of API keys and that of addresses.
AppEdit(q, p) ==
    LET old == db.app[p]
        new == db'.app[p] IN
    \/ new = old
    \/ /\ q.kind = "createApp" /\ p = q.app /\ old.state = "none" /\ AllLive(q.roles)
       /\ new.state = "live" /\ new.owner = q.org /\ new.links = q.links /\ new.roles = q.roles
    \/ /\ q.kind = "updateApp" /\ p = q.app /\ old.state = "live" /\ AllLive(q.roles \ old.roles)
       /\ q.org # Zone => old.owner = q.org /\ MayAttach(q.roles \ old.roles, q.org)
       /\ new.state = "live" /\ new.owner = old.owner /\ new.links = old.links /\ new.roles = q.roles
    \/ /\ q.kind = "deleteApp" /\ p = q.app /\ old.state = "live" /\ (q.org = Zone \/ old.owner = q.org)
       /\ new.state = "gone" /\ new.owner = Zone /\ new.links = {} /\ new.roles = {}
    \/ /\ q.kind = "linkApp" /\ p = q.app /\ old.state = "live" /\ \A o \in q.links : Live(o)
       /\ new.state = "live" /\ new.owner = old.owner /\ new.links = q.links /\ new.roles = old.roles
    \/ /\ q.kind = "deleteRole" /\ Scoped(q.role, q.org)
       /\ new.state = old.state /\ new.owner = old.owner /\ new.links = old.links
       /\ new.roles = old.roles \ {q.role}

\* What it makes of the API keys and the allow-lists.
AccessEdited(q) ==
    /\ \A p \in db'.keys :
         /\ p \in db.keys \/ (q.kind = "access" /\ p = q.app /\ LiveApp(p))
         /\ (q.kind = "deleteApp" /\ db' # db) => p # q.app
         /\ q.kind = "deleteOrg" => db.app[p].owner # q.org
    /\ \A p \in db'.ips :
         /\ p \in db.ips \/ (q.kind = "access" /\ p = q.app /\ LiveApp(p))
         /\ (q.kind = "deleteApp" /\ db' # db) => p # q.app
    /\ \A p \in db.keys \ db'.keys :
         \/ q.kind = "access" /\ p = q.app /\ LiveApp(p)
         \/ q.kind = "deleteApp" /\ p = q.app /\ LiveApp(p) /\ (q.org = Zone \/ db.app[p].owner = q.org)
         \/ q.kind = "deleteOrg" /\ db.app[p].owner = q.org
    /\ \A p \in db.ips \ db'.ips :
         \/ q.kind = "access" /\ p = q.app /\ LiveApp(p)
         \/ q.kind = "deleteApp" /\ p = q.app /\ LiveApp(p) /\ (q.org = Zone \/ db.app[p].owner = q.org)

\* What a request makes of the credentials.
AppsEdited(q) == (\A p \in Apps : AppEdit(q, p)) /\ AccessEdited(q)

LEMMA EditsOfApps ==
    ASSUME db \in Tables, NEW q, q # Idle, Shape(q), db' = Effect(q)
    PROVE  AppsEdited(q)
<1>1. CASE q.kind = "createApp"
    <2>1. q.app \in Apps /\ q.org \in Scopes /\ q.roles \in SUBSET Roles /\ q.links \in SUBSET Orgs
        BY <1>1 DEF Shape
    <2>2. db' = AppInserted(q)
        BY <1>1, EffectOf
    <2>3. /\ db' \in Tables /\ SameMembers(db') /\ SameRegistry(db') /\ SameOrgs(db') /\ db'.keys = db.keys /\ db'.ips = db.ips
          /\ db' = db \/
             /\ db.app[q.app].state = "none" /\ AllLive(q.roles)
             /\ db'.app = [db.app EXCEPT ![q.app] = [state |-> "live", owner |-> q.org, links |-> q.links, roles |-> q.roles]]
        BY <2>1, <2>2, AppInsertedWrites
    <2>4. \A p \in Apps : AppEdit(q, p)
        <3>1. \A p \in Apps : db.app[p] \in AppRows
            BY RowsTyped
        <3> QED BY <1>1, <2>1, <2>3, <3>1, RowsTyped DEF AppEdit, AppRows, LiveApp, Owns
    <2>5. AccessEdited(q)
        BY <1>1, <2>1, <2>3 DEF AccessEdited, LiveApp, Owns
    <2> QED BY <2>4, <2>5 DEF AppsEdited
<1>2. CASE q.kind = "updateApp"
    <2>1. q.app \in Apps /\ q.roles \in SUBSET Roles
        BY <1>2 DEF Shape
    <2>2. db' = AppUpdated(q)
        BY <1>2, EffectOf
    <2>3. /\ db' \in Tables /\ SameMembers(db') /\ SameRegistry(db') /\ SameOrgs(db') /\ db'.keys = db.keys /\ db'.ips = db.ips
          /\ db' = db \/
             /\ LiveApp(q.app) /\ AllLive((q.roles \ db.app[q.app].roles))
             /\ q.org # Zone => Owns(q.org, q.app) /\ MayAttach((q.roles \ db.app[q.app].roles), q.org)
             /\ db'.app = [db.app EXCEPT ![q.app] = [db.app[q.app] EXCEPT !.roles = q.roles]]
        BY <2>1, <2>2, AppUpdatedWrites
    <2>4. \A p \in Apps : AppEdit(q, p)
        <3> DEFINE row == [db.app[q.app] EXCEPT !.roles = q.roles]
        <3>1. db.app[q.app] \in AppRows
            BY <2>1, RowsTyped
        <3>2. row.state = db.app[q.app].state /\ row.owner = db.app[q.app].owner /\ row.links = db.app[q.app].links /\ row.roles = q.roles
            BY <3>1 DEF AppRows
        <3> HIDE DEF row
        <3>3. db' = db \/ (/\ LiveApp(q.app) /\ AllLive(q.roles \ db.app[q.app].roles)
                           /\ q.org # Zone => Owns(q.org, q.app) /\ MayAttach(q.roles \ db.app[q.app].roles, q.org)
                           /\ db'.app = [db.app EXCEPT ![q.app] = row])
            BY <2>3 DEF row
        <3> QED BY <1>2, <2>1, <3>2, <3>3, RowsTyped DEF AppEdit, LiveApp, Owns
    <2>5. AccessEdited(q)
        BY <1>2, <2>1, <2>3 DEF AccessEdited, LiveApp, Owns
    <2> QED BY <2>4, <2>5 DEF AppsEdited
<1>3. CASE q.kind = "deleteApp"
    <2>1. q.app \in Apps
        BY <1>3 DEF Shape
    <2>2. db' = AppDeleted(q)
        BY <1>3, EffectOf
    <2>3. /\ db' \in Tables /\ SameMembers(db') /\ SameRegistry(db') /\ SameOrgs(db')
          /\ db' = db \/
             /\ LiveApp(q.app) /\ (q.org = Zone \/ Owns(q.org, q.app))
             /\ db'.keys = db.keys \ {q.app} /\ db'.ips = db.ips \ {q.app}
             /\ db'.app = [db.app EXCEPT ![q.app] = [state |-> "gone", owner |-> Zone, roles |-> {}, links |-> {}]]
        BY <2>1, <2>2, AppDeletedWrites
    <2>4. \A p \in Apps : AppEdit(q, p)
        <3>1. \A p \in Apps : db.app[p] \in AppRows
            BY RowsTyped
        <3> QED BY <1>3, <2>1, <2>3, <3>1, RowsTyped DEF AppEdit, AppRows, LiveApp, Owns
    <2>5. AccessEdited(q)
        BY <1>3, <2>1, <2>3 DEF AccessEdited, LiveApp, Owns
    <2> QED BY <2>4, <2>5 DEF AppsEdited
<1>4. CASE q.kind = "linkApp"
    <2>1. q.app \in Apps /\ q.links \in SUBSET Orgs
        BY <1>4 DEF Shape
    <2>2. db' = Relinked(q)
        BY <1>4, EffectOf
    <2>3. /\ db' \in Tables /\ SameMembers(db') /\ SameRegistry(db') /\ SameOrgs(db') /\ db'.keys = db.keys /\ db'.ips = db.ips
          /\ db' = db \/
             /\ LiveApp(q.app) /\ \A l \in q.links : Live(l)
             /\ db'.app = [db.app EXCEPT ![q.app] = [db.app[q.app] EXCEPT !.links = q.links]]
        BY <2>1, <2>2, RelinkedWrites
    <2>4. \A p \in Apps : AppEdit(q, p)
        <3>1. \A p \in Apps : db.app[p] \in AppRows
            BY RowsTyped
        <3> QED BY <1>4, <2>1, <2>3, <3>1, RowsTyped DEF AppEdit, AppRows, LiveApp, Owns
    <2>5. AccessEdited(q)
        BY <1>4, <2>1, <2>3 DEF AccessEdited, LiveApp, Owns
    <2> QED BY <2>4, <2>5 DEF AppsEdited
<1>5. CASE q.kind = "access"
    <2>1. q.app \in Apps
        BY <1>5 DEF Shape
    <2>2. db' = db \/ (LiveApp(q.app) /\ db' \in {KeysChanged(q), IpsChanged(q)})
        BY <1>5, EffectOf, Zenon
    <2>3. \A d \in {KeysChanged(q), IpsChanged(q)} :
            /\ d.app = db.app
            /\ d.keys \in {db.keys, db.keys \cup {q.app}, db.keys \ {q.app}}
            /\ d.ips \in {db.ips, db.ips \cup {q.app}, db.ips \ {q.app}}
        BY <2>1, AccessWrites
    <2>4. \A p \in Apps : AppEdit(q, p)
        BY <2>2, <2>3 DEF AppEdit
    <2>5. AccessEdited(q)
        BY <1>5, <2>2, <2>3 DEF AccessEdited
    <2> QED BY <2>4, <2>5 DEF AppsEdited
<1>6. CASE q.kind = "deleteOrg"
    <2>1. q.org \in Orgs
        BY <1>6 DEF Shape
    <2>2. db' = OrgRevoked(q.org, Released(q.org))
        BY <1>6, EffectOf
    <2>3. db'.app = db.app
        <3>1. OrgRevoked(q.org, Released(q.org)).app = db.app
            BY <2>1, OrgRevokedWrites
        <3> QED BY <2>2, <3>1
    <2>4. db'.keys = {p \in db.keys : db.app[p].owner # q.org} /\ db'.ips = db.ips
        BY <2>1, <2>2 DEF OrgRevoked, Tables
    <2>5. \A p \in Apps : AppEdit(q, p)
        BY <2>3 DEF AppEdit
    <2>6. AccessEdited(q)
        BY <1>6, <2>4 DEF AccessEdited
    <2> QED BY <2>5, <2>6 DEF AppsEdited
<1>7. CASE q.kind = "deleteRole"
    <2>1. q.role \in Roles
        BY <1>7 DEF Shape
    <2>2. db' = db \/ (Scoped(q.role, q.org) /\ db' = DropRole(q.role))
        BY <1>7, EffectOf
    <2>3. LET d == DropRole(q.role) IN
          /\ d.keys = db.keys /\ d.ips = db.ips
          /\ d.app = [p \in Apps |-> [db.app[p] EXCEPT !.roles = db.app[p].roles \ {q.role}]]
        BY <2>1, DropRoleWrites
    <2>4. db' = db \/ (/\ Scoped(q.role, q.org) /\ db'.keys = db.keys /\ db'.ips = db.ips
                       /\ db'.app = [p \in Apps |-> [db.app[p] EXCEPT !.roles = db.app[p].roles \ {q.role}]])
        BY <2>2, <2>3
    <2>5. \A p \in Apps : AppEdit(q, p)
        <3>1. \A p \in Apps : db.app[p] \in AppRows
            BY RowsTyped
        <3> QED BY <1>7, <2>4, <3>1 DEF AppEdit, AppRows
    <2>6. AccessEdited(q)
        BY <1>7, <2>4 DEF AccessEdited
    <2> QED BY <2>5, <2>6 DEF AppsEdited
<1>8. CASE q.kind \notin AppKinds
    <2>1. SameApps(db')
        BY <1>8, Writes DEF WritesOwnTables
    <2>2. q.kind \notin {"deleteApp", "deleteOrg"}
        BY <1>8 DEF AppKinds
    <2> QED BY <2>1, <2>2 DEF SameApps, AppsEdited, AppEdit, AccessEdited
<1> QED BY <1>1, <1>2, <1>3, <1>4, <1>5, <1>6, <1>7, <1>8 DEF AppKinds

-----------------------------------------------------------------------------
(* What a request makes of contracts, permissions and templates            *)

\* What a request makes of one contract, and of one permission.
ContractEdit(q, a) ==
    LET old == db.contract[a]
        new == db'.contract[a] IN
    \/ new = old
    \/ /\ q.kind = "postContract" /\ a = q.addr /\ ~old.live
       /\ new.live /\ new.owner = q.org /\ new.template = q.template /\ new.disclose = q.disclose
    \/ /\ q.kind = "putContract" /\ a = q.to /\ db.contract[q.addr].live /\ (q.addr # q.to => ~old.live)
       /\ new.live /\ new.owner = OwnerOf(q.addr) /\ new.template = q.template /\ new.disclose = q.disclose
    \/ q.kind = "putContract" /\ a = q.addr /\ a # q.to /\ old.live /\ ~db.contract[q.to].live /\ ~new.live
    \/ q.kind = "deleteContract" /\ a = q.addr /\ ~new.live
    \/ q.kind \in {"template", "noTemplate"} /\ new.live = old.live /\ new.owner = old.owner

\* What a permission keeps that only loses a role.
SameRow(new, old) == new.live = old.live /\ new.addr = old.addr /\ new.orgOnly = old.orgOnly

\* What it makes of one permission on a function.
FnEdit(q, p) ==
    LET old == db.fn[p]
        new == db'.fn[p] IN
    \/ new = old
    \/ /\ q.kind = "postFn" /\ p = q.fn /\ ~old.live /\ db.contract[q.addr].live /\ AllLive(q.roles)
       /\ new.live /\ new.addr = q.addr /\ new.umbrella = q.umbrella /\ new.roles = q.roles
    \/ /\ q.kind = "putFn" /\ p = q.fn /\ old.live /\ old.addr = q.addr /\ AllLive(q.roles)
       /\ new.live /\ new.addr = old.addr /\ new.umbrella = q.umbrella /\ new.roles = q.roles
    \/ /\ q.kind = "deleteFn" /\ p = q.fn
       /\ ~new.live /\ new.addr = old.addr /\ new.umbrella = old.umbrella /\ new.roles = old.roles
    \/ /\ q.kind = "putContract" /\ old.live /\ old.addr = q.addr /\ db'.contract[q.to].live
       /\ db.contract[q.addr].live /\ (q.addr # q.to => ~db.contract[q.to].live)
       /\ new.live /\ new.addr = q.to /\ new.umbrella = old.umbrella /\ new.roles = old.roles
    \/ /\ q.kind = "deleteContract" /\ old.live /\ old.addr = q.addr
       /\ ~new.live /\ new.addr = old.addr /\ new.umbrella = old.umbrella /\ new.roles = old.roles
    \/ /\ q.kind = "deleteRole" /\ Scoped(q.role, q.org)
       /\ SameRow(new, old) /\ new.umbrella = old.umbrella /\ new.roles = old.roles \ {q.role}

\* What it makes of one permission on an event.
EvEdit(q, p) ==
    LET old == db.ev[p]
        new == db'.ev[p] IN
    \/ new = old
    \/ /\ q.kind \in {"postEv", "putEv"} /\ p = q.ev /\ (q.kind = "postEv" => ~old.live)
       /\ db.contract[q.addr].live /\ AllLive(q.roles)
       /\ new.live /\ new.addr = q.addr /\ new.roles = q.roles
    \/ /\ q.kind = "deleteEv" /\ p = q.ev
       /\ ~new.live /\ new.addr = old.addr /\ new.roles = old.roles
    \/ /\ q.kind = "putContract" /\ old.live /\ old.addr = q.addr /\ db'.contract[q.to].live
       /\ db.contract[q.addr].live /\ (q.addr # q.to => ~db.contract[q.to].live)
       /\ new.live /\ new.addr = q.to /\ new.roles = old.roles
    \/ /\ q.kind = "deleteContract" /\ old.live /\ old.addr = q.addr
       /\ ~new.live /\ new.addr = old.addr /\ new.roles = old.roles
    \/ /\ q.kind = "deleteRole" /\ Scoped(q.role, q.org)
       /\ SameRow(new, old) /\ new.roles = old.roles \ {q.role}

\* No permission stays behind at an address that loses its contract.
NoneLeft(q) ==
    q.kind = "deleteContract" \/ (q.kind = "putContract" /\ q.addr # q.to /\ db' # db) =>
        /\ \A p \in FnPerms : db'.fn[p].live => db'.fn[p].addr # q.addr
        /\ \A p \in EvPerms : db'.ev[p].live => db'.ev[p].addr # q.addr

\* What a request makes of contracts, permissions and templates.
RegistryEdited(q) ==
    /\ \A a \in Addrs : ContractEdit(q, a)
    /\ \A p \in FnPerms : FnEdit(q, p)
    /\ \A p \in EvPerms : EvEdit(q, p)
    /\ NoneLeft(q)
    /\ q.kind \notin {"template", "noTemplate"} => db'.umbrella = db.umbrella

LEMMA EditsOfRegistry ==
    ASSUME db \in Tables, NEW q, q # Idle, Shape(q), db' = Effect(q)
    PROVE  RegistryEdited(q)
<1>1. CASE q.kind = "postContract"
    <2>1. q.addr \in Addrs /\ q.org \in Scopes /\ q.template \in Templates \cup {NoTemplate} /\ q.disclose \in BOOLEAN
        BY <1>1 DEF Shape
    <2>2. db' = ContractInserted(q)
        BY <1>1, EffectOf
    <2>3. /\ db' \in Tables /\ SameMembers(db') /\ SameApps(db') /\ SameOrgs(db')
          /\ db'.fn = db.fn /\ db'.ev = db.ev /\ db'.umbrella = db.umbrella
          /\ db' = db \/
             /\ ~db.contract[q.addr].live
             /\ db'.contract = [db.contract EXCEPT ![q.addr] =
                                 [live |-> TRUE, owner |-> q.org, template |-> q.template, disclose |-> q.disclose]]
        BY <2>1, <2>2, ContractInsertedWrites
    <2>4. \A a \in Addrs : ContractEdit(q, a)
        <3>1. \A p \in Addrs : db.contract[p] \in Deployed
            BY RowsTyped
        <3> QED BY <1>1, <2>1, <2>3, <3>1, RowsTyped DEF ContractEdit, Deployed, OwnerOf, NotRegistered
    <2>5. \A p \in FnPerms : FnEdit(q, p)
        BY <2>3 DEF FnEdit
    <2>6. \A p \in EvPerms : EvEdit(q, p)
        BY <2>3 DEF EvEdit
    <2>7. NoneLeft(q)
        BY <1>1 DEF NoneLeft
    <2> QED BY <1>1, <2>3, <2>4, <2>5, <2>6, <2>7 DEF RegistryEdited
<1>2. CASE q.kind = "putContract"
    <2>1. q.addr \in Addrs /\ q.to \in Addrs /\ q.template \in Templates \cup {NoTemplate} /\ q.disclose \in BOOLEAN
        BY <1>2 DEF Shape
    <2>2. db' = Rewritten(q)
        BY <1>2, EffectOf
    <2>3. /\ db'.umbrella = db.umbrella
          /\ db' = db \/
             /\ db.contract[q.addr].live /\ (q.addr # q.to => ~db.contract[q.to].live)
             /\ db'.contract = MovedContracts(q) /\ db'.fn = MovedFns(q) /\ db'.ev = MovedEvs(q)
        BY <2>1, <2>2, RewrittenWrites
    <2>4. /\ db.contract[q.addr].live => NewRow(q).live
          /\ NewRow(q).owner = OwnerOf(q.addr) /\ NewRow(q).template = q.template /\ NewRow(q).disclose = q.disclose
        <3>1. db.contract[q.addr] \in Deployed
            BY <2>1, RowsTyped
        <3> QED BY <3>1 DEF Deployed, OwnerOf, NewRow
    <2>5. \A a \in Addrs : ContractEdit(q, a)
        BY <1>2, <2>1, <2>3, <2>4 DEF ContractEdit, NotRegistered, MovedContracts
    <2>6. db' # db => db'.contract[q.to].live
        BY <2>1, <2>3, <2>4 DEF MovedContracts
    <2>7. \A p \in FnPerms : FnEdit(q, p)
        <3> SUFFICES ASSUME NEW p \in FnPerms, db' # db
                     PROVE  FnEdit(q, p)
            BY DEF FnEdit
        <3>1. db.fn[p] \in FnRows
            BY RowsTyped
        <3>2. CASE db.fn[p].live /\ db.fn[p].addr = q.addr
            <4>1. db'.fn[p] = [db.fn[p] EXCEPT !.addr = q.to]
                BY <2>3, <3>2 DEF MovedFns
            <4>2. db'.fn[p].live /\ db'.fn[p].addr = q.to /\ db'.fn[p].umbrella = db.fn[p].umbrella /\ db'.fn[p].roles = db.fn[p].roles
                BY <3>1, <3>2, <4>1 DEF FnRows
            <4> QED BY <1>2, <2>3, <2>6, <3>2, <4>2 DEF FnEdit
        <3>3. CASE ~(db.fn[p].live /\ db.fn[p].addr = q.addr)
            BY <2>3, <3>3 DEF FnEdit, MovedFns
        <3> QED BY <3>2, <3>3
    <2>8. \A p \in EvPerms : EvEdit(q, p)
        <3> SUFFICES ASSUME NEW p \in EvPerms, db' # db
                     PROVE  EvEdit(q, p)
            BY DEF EvEdit
        <3>1. db.ev[p] \in EvRows
            BY RowsTyped
        <3>2. CASE db.ev[p].live /\ db.ev[p].addr = q.addr
            <4>1. db'.ev[p] = [db.ev[p] EXCEPT !.addr = q.to]
                BY <2>3, <3>2 DEF MovedEvs
            <4>2. db'.ev[p].live /\ db'.ev[p].addr = q.to /\ db'.ev[p].roles = db.ev[p].roles
                BY <3>1, <3>2, <4>1 DEF EvRows
            <4> QED BY <1>2, <2>3, <2>6, <3>2, <4>2 DEF EvEdit
        <3>3. CASE ~(db.ev[p].live /\ db.ev[p].addr = q.addr)
            BY <2>3, <3>3 DEF EvEdit, MovedEvs
        <3> QED BY <3>2, <3>3
    <2>9. NoneLeft(q)
        <3>1. \A p \in FnPerms : db.fn[p] \in FnRows
            BY RowsTyped
        <3>2. \A p \in EvPerms : db.ev[p] \in EvRows
            BY RowsTyped
        <3> QED BY <1>2, <2>1, <2>3, <3>1, <3>2 DEF NoneLeft, FnRows, EvRows, MovedFns, MovedEvs
    <2> QED BY <1>2, <2>3, <2>5, <2>7, <2>8, <2>9 DEF RegistryEdited
<1>3. CASE q.kind = "deleteContract"
    <2>1. q.addr \in Addrs
        BY <1>3 DEF Shape
    <2>2. db' = ContractDeleted(q.addr)
        BY <1>3, EffectOf
    <2>3. /\ db' \in Tables /\ SameMembers(db') /\ SameApps(db') /\ SameOrgs(db') /\ db'.umbrella = db.umbrella
          /\ db'.contract = [db.contract EXCEPT ![q.addr] = NotRegistered]
          /\ db'.fn = [p \in FnPerms |-> IF db.fn[p].addr = q.addr THEN [db.fn[p] EXCEPT !.live = FALSE] ELSE db.fn[p]]
          /\ db'.ev = [p \in EvPerms |-> IF db.ev[p].addr = q.addr THEN [db.ev[p] EXCEPT !.live = FALSE] ELSE db.ev[p]]
        BY <2>1, <2>2, ContractDeletedWrites
    <2>4. \A a \in Addrs : ContractEdit(q, a)
        <3>1. \A p \in Addrs : db.contract[p] \in Deployed
            BY RowsTyped
        <3> QED BY <1>3, <2>1, <2>3, <3>1, RowsTyped DEF ContractEdit, Deployed, OwnerOf, NotRegistered
    <2>5. \A p \in FnPerms : FnEdit(q, p)
        <3> SUFFICES ASSUME NEW p \in FnPerms
                     PROVE  FnEdit(q, p)
            OBVIOUS
        <3>1. db.fn[p] \in FnRows
            BY RowsTyped
        <3>2. db'.fn[p] = IF db.fn[p].addr = q.addr THEN [db.fn[p] EXCEPT !.live = FALSE] ELSE db.fn[p]
            BY <2>3
        <3>3. ~db.fn[p].live => db'.fn[p] = db.fn[p]
            BY <3>1, <3>2 DEF FnRows
        <3>4. db.fn[p].addr = q.addr =>
                ~db'.fn[p].live /\ db'.fn[p].addr = db.fn[p].addr /\ db'.fn[p].umbrella = db.fn[p].umbrella /\ db'.fn[p].roles = db.fn[p].roles
            BY <3>1, <3>2 DEF FnRows
        <3> QED BY <1>3, <3>2, <3>3, <3>4 DEF FnEdit
    <2>6. \A p \in EvPerms : EvEdit(q, p)
        <3> SUFFICES ASSUME NEW p \in EvPerms
                     PROVE  EvEdit(q, p)
            OBVIOUS
        <3>1. db.ev[p] \in EvRows
            BY RowsTyped
        <3>2. db'.ev[p] = IF db.ev[p].addr = q.addr THEN [db.ev[p] EXCEPT !.live = FALSE] ELSE db.ev[p]
            BY <2>3
        <3>3. ~db.ev[p].live => db'.ev[p] = db.ev[p]
            BY <3>1, <3>2 DEF EvRows
        <3>4. db.ev[p].addr = q.addr =>
                ~db'.ev[p].live /\ db'.ev[p].addr = db.ev[p].addr /\ db'.ev[p].roles = db.ev[p].roles
            BY <3>1, <3>2 DEF EvRows
        <3> QED BY <1>3, <3>2, <3>3, <3>4 DEF EvEdit
    <2>7. NoneLeft(q)
        <3>1. \A p \in FnPerms : db.fn[p] \in FnRows
            BY RowsTyped
        <3>2. \A p \in EvPerms : db.ev[p] \in EvRows
            BY RowsTyped
        <3> QED BY <1>3, <2>1, <2>3, <3>1, <3>2 DEF NoneLeft, FnRows, EvRows
    <2> QED BY <1>3, <2>3, <2>4, <2>5, <2>6, <2>7 DEF RegistryEdited
<1>4. CASE q.kind = "postFn"
    <2>1. q.fn \in FnPerms /\ q.addr \in Addrs /\ q.roles \in SUBSET Roles /\ q.orgOnly \in BOOLEAN /\ q.umbrella \in BOOLEAN
        BY <1>4 DEF Shape
    <2>2. db' = FnInserted(q)
        BY <1>4, EffectOf
    <2>3. /\ db' \in Tables /\ SameMembers(db') /\ SameApps(db') /\ SameOrgs(db')
          /\ db'.contract = db.contract /\ db'.ev = db.ev /\ db'.umbrella = db.umbrella
          /\ db' = db \/
             /\ ~db.fn[q.fn].live /\ db.contract[q.addr].live /\ AllLive(q.roles)
             /\ db'.fn = [db.fn EXCEPT ![q.fn] = [live |-> TRUE, addr |-> q.addr, orgOnly |-> q.orgOnly,
                                                umbrella |-> q.umbrella, roles |-> q.roles]]
        BY <2>1, <2>2, FnInsertedWrites
    <2>4. \A a \in Addrs : ContractEdit(q, a)
        BY <1>4, <2>1, <2>3 DEF ContractEdit
    <2>5. \A p \in FnPerms : FnEdit(q, p)
        <3>1. \A p \in FnPerms : db.fn[p] \in FnRows
            BY RowsTyped
        <3> QED BY <1>4, <2>1, <2>3, <3>1, RowsTyped DEF FnEdit, FnRows, SameRow
    <2>6. \A p \in EvPerms : EvEdit(q, p)
        BY <2>3 DEF EvEdit
    <2>7. NoneLeft(q)
        BY <1>4 DEF NoneLeft
    <2> QED BY <1>4, <2>3, <2>4, <2>5, <2>6, <2>7 DEF RegistryEdited
<1>5. CASE q.kind = "putFn"
    <2>1. q.fn \in FnPerms /\ q.roles \in SUBSET Roles /\ q.orgOnly \in BOOLEAN /\ q.umbrella \in BOOLEAN
        BY <1>5 DEF Shape
    <2>2. db' = FnUpdated(q)
        BY <1>5, EffectOf
    <2>3. /\ db' \in Tables /\ SameMembers(db') /\ SameApps(db') /\ SameOrgs(db')
          /\ db'.contract = db.contract /\ db'.ev = db.ev /\ db'.umbrella = db.umbrella
          /\ db' = db \/
             /\ db.fn[q.fn].live /\ db.fn[q.fn].addr = q.addr /\ AllLive(q.roles)
             /\ db'.fn = [db.fn EXCEPT ![q.fn] = [db.fn[q.fn] EXCEPT !.orgOnly = q.orgOnly, !.umbrella = q.umbrella,
                                                                   !.roles = q.roles]]
        BY <2>1, <2>2, FnUpdatedWrites
    <2>4. \A a \in Addrs : ContractEdit(q, a)
        BY <1>5, <2>1, <2>3 DEF ContractEdit
    <2>5. \A p \in FnPerms : FnEdit(q, p)
        <3> DEFINE row == [db.fn[q.fn] EXCEPT !.orgOnly = q.orgOnly, !.umbrella = q.umbrella, !.roles = q.roles]
        <3>1. db.fn[q.fn] \in FnRows
            BY <2>1, RowsTyped
        <3>2. row.live = db.fn[q.fn].live /\ row.addr = db.fn[q.fn].addr /\ row.umbrella = q.umbrella /\ row.roles = q.roles
            BY <3>1 DEF FnRows
        <3> HIDE DEF row
        <3>3. db' = db \/ (/\ db.fn[q.fn].live /\ db.fn[q.fn].addr = q.addr /\ AllLive(q.roles)
                           /\ db'.fn = [db.fn EXCEPT ![q.fn] = row])
            BY <2>3 DEF row
        <3> QED BY <1>5, <2>1, <3>2, <3>3, RowsTyped DEF FnEdit
    <2>6. \A p \in EvPerms : EvEdit(q, p)
        BY <2>3 DEF EvEdit
    <2>7. NoneLeft(q)
        BY <1>5 DEF NoneLeft
    <2> QED BY <1>5, <2>3, <2>4, <2>5, <2>6, <2>7 DEF RegistryEdited
<1>6. CASE q.kind = "deleteFn"
    <2>1. q.fn \in FnPerms
        BY <1>6 DEF Shape
    <2>2. db' = [db EXCEPT !.fn[q.fn].live = FALSE]
        BY <1>6, EffectOf
    <2>3. /\ db' \in Tables /\ SameMembers(db') /\ SameApps(db') /\ SameOrgs(db')
          /\ db'.contract = db.contract /\ db'.ev = db.ev /\ db'.umbrella = db.umbrella
          /\ db'.fn = [db.fn EXCEPT ![q.fn] = [db.fn[q.fn] EXCEPT !.live = FALSE]]
        BY <2>1, <2>2, FnDeletedWrites
    <2>4. \A a \in Addrs : ContractEdit(q, a)
        BY <1>6, <2>1, <2>3 DEF ContractEdit
    <2>5. \A p \in FnPerms : FnEdit(q, p)
        <3>1. \A p \in FnPerms : db.fn[p] \in FnRows
            BY RowsTyped
        <3> QED BY <1>6, <2>1, <2>3, <3>1, RowsTyped DEF FnEdit, FnRows, SameRow
    <2>6. \A p \in EvPerms : EvEdit(q, p)
        BY <2>3 DEF EvEdit
    <2>7. NoneLeft(q)
        BY <1>6 DEF NoneLeft
    <2> QED BY <1>6, <2>3, <2>4, <2>5, <2>6, <2>7 DEF RegistryEdited
<1>7. CASE q.kind = "postEv"
    <2>1. q.ev \in EvPerms /\ q.addr \in Addrs /\ q.roles \in SUBSET Roles /\ q.orgOnly \in BOOLEAN
        BY <1>7 DEF Shape
    <2>2. db' = EvInserted(q)
        BY <1>7, EffectOf
    <2>3. /\ db'.contract = db.contract /\ db'.fn = db.fn /\ db'.umbrella = db.umbrella
          /\ db' = db \/
             /\ db.contract[q.addr].live /\ AllLive(q.roles)
             /\ db'.ev = [db.ev EXCEPT ![q.ev] = [live |-> TRUE, addr |-> q.addr, orgOnly |-> q.orgOnly, roles |-> q.roles]]
        BY <2>1, <2>2, EvWritten
    <2>4. \A a \in Addrs : ContractEdit(q, a)
        BY <1>7, <2>1, <2>3 DEF ContractEdit
    <2>5. \A p \in FnPerms : FnEdit(q, p)
        BY <2>3 DEF FnEdit
    <2>6. \A p \in EvPerms : EvEdit(q, p)
        <3>1. \A p \in EvPerms : db.ev[p] \in EvRows
            BY RowsTyped
        <3> QED BY <1>7, <2>1, <2>3, <3>1, RowsTyped, EvInsertedNew, <2>2 DEF EvEdit, EvRows, SameRow
    <2>7. NoneLeft(q)
        BY <1>7 DEF NoneLeft
    <2> QED BY <1>7, <2>3, <2>4, <2>5, <2>6, <2>7 DEF RegistryEdited
<1>8. CASE q.kind = "putEv"
    <2>1. q.ev \in EvPerms /\ q.addr \in Addrs /\ q.roles \in SUBSET Roles /\ q.orgOnly \in BOOLEAN
        BY <1>8 DEF Shape
    <2>2. db' = EvUpdated(q)
        BY <1>8, EffectOf
    <2>3. /\ db'.contract = db.contract /\ db'.fn = db.fn /\ db'.umbrella = db.umbrella
          /\ db' = db \/
             /\ db.contract[q.addr].live /\ AllLive(q.roles)
             /\ db'.ev = [db.ev EXCEPT ![q.ev] = [live |-> TRUE, addr |-> q.addr, orgOnly |-> q.orgOnly, roles |-> q.roles]]
        BY <2>1, <2>2, EvWritten
    <2>4. \A a \in Addrs : ContractEdit(q, a)
        BY <1>8, <2>1, <2>3 DEF ContractEdit
    <2>5. \A p \in FnPerms : FnEdit(q, p)
        BY <2>3 DEF FnEdit
    <2>6. \A p \in EvPerms : EvEdit(q, p)
        <3>1. \A p \in EvPerms : db.ev[p] \in EvRows
            BY RowsTyped
        <3> QED BY <1>8, <2>1, <2>3, <3>1, RowsTyped DEF EvEdit, EvRows, SameRow
    <2>7. NoneLeft(q)
        BY <1>8 DEF NoneLeft
    <2> QED BY <1>8, <2>3, <2>4, <2>5, <2>6, <2>7 DEF RegistryEdited
<1>9. CASE q.kind = "deleteEv"
    <2>1. q.ev \in EvPerms
        BY <1>9 DEF Shape
    <2>2. db' = [db EXCEPT !.ev[q.ev].live = FALSE]
        BY <1>9, EffectOf
    <2>3. /\ db' \in Tables /\ SameMembers(db') /\ SameApps(db') /\ SameOrgs(db')
          /\ db'.contract = db.contract /\ db'.fn = db.fn /\ db'.umbrella = db.umbrella
          /\ db'.ev = [db.ev EXCEPT ![q.ev] = [db.ev[q.ev] EXCEPT !.live = FALSE]]
        BY <2>1, <2>2, EvDeletedWrites
    <2>4. \A a \in Addrs : ContractEdit(q, a)
        BY <1>9, <2>1, <2>3 DEF ContractEdit
    <2>5. \A p \in FnPerms : FnEdit(q, p)
        BY <2>3 DEF FnEdit
    <2>6. \A p \in EvPerms : EvEdit(q, p)
        <3>1. \A p \in EvPerms : db.ev[p] \in EvRows
            BY RowsTyped
        <3> QED BY <1>9, <2>1, <2>3, <3>1, RowsTyped DEF EvEdit, EvRows, SameRow
    <2>7. NoneLeft(q)
        BY <1>9 DEF NoneLeft
    <2> QED BY <1>9, <2>3, <2>4, <2>5, <2>6, <2>7 DEF RegistryEdited
<1>10. CASE q.kind = "template"
    <2>1. q.template \in Templates
        BY <1>10 DEF Shape
    <2>2. db' \in {TemplateUmbrella(q.template), TemplatePlain(q.template), TemplateDeleted(q.template)}
        BY <1>10, EffectOf
    <2>3. /\ db'.fn = db.fn /\ db'.ev = db.ev
          /\ \A a \in Addrs : /\ db'.contract[a].live = db.contract[a].live
                              /\ db'.contract[a].owner = db.contract[a].owner
        BY <2>1, <2>2, TemplateWrites
    <2>4. \A a \in Addrs : ContractEdit(q, a)
        BY <1>10, <2>1, <2>3 DEF ContractEdit
    <2>5. \A p \in FnPerms : FnEdit(q, p)
        BY <2>3 DEF FnEdit
    <2>6. \A p \in EvPerms : EvEdit(q, p)
        BY <2>3 DEF EvEdit
    <2>7. NoneLeft(q)
        BY <1>10 DEF NoneLeft
    <2> QED BY <1>10, <2>3, <2>4, <2>5, <2>6, <2>7 DEF RegistryEdited
<1>11. CASE q.kind = "noTemplate"
    <2>1. q.template \in Templates
        BY <1>11 DEF Shape
    <2>2. db' \in {TemplateUmbrella(q.template), TemplatePlain(q.template), TemplateDeleted(q.template)}
        BY <1>11, EffectOf
    <2>3. /\ db'.fn = db.fn /\ db'.ev = db.ev
          /\ \A a \in Addrs : /\ db'.contract[a].live = db.contract[a].live
                              /\ db'.contract[a].owner = db.contract[a].owner
        BY <2>1, <2>2, TemplateWrites
    <2>4. \A a \in Addrs : ContractEdit(q, a)
        BY <1>11, <2>1, <2>3 DEF ContractEdit
    <2>5. \A p \in FnPerms : FnEdit(q, p)
        BY <2>3 DEF FnEdit
    <2>6. \A p \in EvPerms : EvEdit(q, p)
        BY <2>3 DEF EvEdit
    <2>7. NoneLeft(q)
        BY <1>11 DEF NoneLeft
    <2> QED BY <1>11, <2>3, <2>4, <2>5, <2>6, <2>7 DEF RegistryEdited
<1>12. CASE q.kind = "deleteRole"
    <2>1. q.role \in Roles
        BY <1>12 DEF Shape
    <2>2. db' = db \/ (Scoped(q.role, q.org) /\ db' = DropRole(q.role))
        BY <1>12, EffectOf
    <2>3. LET d == DropRole(q.role) IN
          /\ d.contract = db.contract /\ d.umbrella = db.umbrella
          /\ d.fn = [p \in FnPerms |-> [db.fn[p] EXCEPT !.roles = db.fn[p].roles \ {q.role}]]
          /\ d.ev = [p \in EvPerms |-> [db.ev[p] EXCEPT !.roles = db.ev[p].roles \ {q.role}]]
        BY <2>1, DropRoleWrites
    <2>4. db' = db \/
          /\ Scoped(q.role, q.org) /\ db'.contract = db.contract /\ db'.umbrella = db.umbrella
          /\ db'.fn = [p \in FnPerms |-> [db.fn[p] EXCEPT !.roles = db.fn[p].roles \ {q.role}]]
          /\ db'.ev = [p \in EvPerms |-> [db.ev[p] EXCEPT !.roles = db.ev[p].roles \ {q.role}]]
        BY <2>2, <2>3
    <2>5. \A a \in Addrs : ContractEdit(q, a)
        BY <1>12, <2>1, <2>4 DEF ContractEdit
    <2>6. \A p \in FnPerms : FnEdit(q, p)
        <3>1. \A p \in FnPerms : db.fn[p] \in FnRows
            BY RowsTyped
        <3> QED BY <1>12, <2>1, <2>4, <3>1, RowsTyped DEF FnEdit, FnRows, SameRow
    <2>7. \A p \in EvPerms : EvEdit(q, p)
        <3>1. \A p \in EvPerms : db.ev[p] \in EvRows
            BY RowsTyped
        <3> QED BY <1>12, <2>1, <2>4, <3>1, RowsTyped DEF EvEdit, EvRows, SameRow
    <2>8. NoneLeft(q)
        BY <1>12 DEF NoneLeft
    <2> QED BY <1>12, <2>4, <2>5, <2>6, <2>7, <2>8 DEF RegistryEdited
<1>13. CASE q.kind \notin RegistryKinds
    <2>1. SameRegistry(db')
        BY <1>13, Writes DEF WritesOwnTables
    <2>2. q.kind \notin {"deleteContract", "putContract"}
        BY <1>13 DEF RegistryKinds
    <2> QED BY <2>1, <2>2 DEF SameRegistry, RegistryEdited, ContractEdit, FnEdit, EvEdit, NoneLeft
<1> QED BY <1>1, <1>2, <1>3, <1>4, <1>5, <1>6, <1>7, <1>8, <1>9, <1>10, <1>11, <1>12, <1>13
           DEF RegistryKinds

-----------------------------------------------------------------------------
(* What a request makes of an organization, and of all the tables          *)

\* What a request makes of one organization.
OrgEdit(q, o) ==
    \/ db'.org[o] = db.org[o]
    \/ q.kind = "createOrg" /\ o = q.org /\ db.org[o] = "none" /\ db'.org[o] = "live"
    \/ q.kind = "deleteOrg" /\ o = q.org /\ db'.org[o] = "deleted"

LEMMA EditsOfOrgs ==
    ASSUME db \in Tables, NEW q, q # Idle, Shape(q), db' = Effect(q), NEW o \in Orgs
    PROVE  OrgEdit(q, o)
<1>1. CASE q.kind = "createOrg"
    <2>1. q.org \in Orgs /\ q.roles \in SUBSET Roles
        BY <1>1 DEF Shape
    <2>2. db' = OrgInserted(q)
        BY <1>1, EffectOf
    <2>3. db' = db \/ (db.org[q.org] = "none" /\ db'.org = [db.org EXCEPT ![q.org] = "live"])
        BY <2>1, <2>2, OrgInsertedWrites
    <2> QED BY <1>1, <2>1, <2>3, RowsTyped DEF OrgEdit
<1>2. CASE q.kind = "deleteOrg"
    <2>1. q.org \in Orgs
        BY <1>2 DEF Shape
    <2>2. db' = OrgRevoked(q.org, Released(q.org))
        BY <1>2, EffectOf
    <2>3. db'.org = [db.org EXCEPT ![q.org] = "deleted"]
        <3>1. \A R : OrgRevoked(q.org, R).org = [db.org EXCEPT ![q.org] = "deleted"]
            BY <2>1, OrgRevokedWrites
        <3> QED BY <2>2, <3>1
    <2> QED BY <1>2, <2>1, <2>3, RowsTyped DEF OrgEdit
<1>3. CASE q.kind \notin OrgKinds
    BY <1>3, Writes DEF WritesOwnTables, SameOrgs, OrgEdit
<1> QED BY <1>1, <1>2, <1>3 DEF OrgKinds

\* What a request writes, row by row.
Edited(q) ==
    /\ WritesOwnTables(q, db') /\ MembersEdited(q) /\ AppsEdited(q) /\ RegistryEdited(q)
    /\ \A o \in Orgs : OrgEdit(q, o)

\* Nothing that is left refers to a role that is deleted.
DroppedEverywhere(q) ==
    (q.kind = "deleteRole" /\ db' # db) =>
        /\ db'.role[q.role].state = "gone"
        /\ \A p \in Apps : q.role \notin db'.app[p].roles
        /\ \A p \in FnPerms : q.role \notin db'.fn[p].roles
        /\ \A p \in EvPerms : q.role \notin db'.ev[p].roles

LEMMA EffectEdits ==
    ASSUME db \in Tables, NEW q, q # Idle, Shape(q), db' = Effect(q)
    PROVE  Edited(q)
BY Writes, EditsOfMembers, EditsOfApps, EditsOfRegistry, EditsOfOrgs, Zenon DEF Edited

LEMMA DropReaches ==
    ASSUME db \in Tables, NEW q, q # Idle, Shape(q), db' = Effect(q)
    PROVE  DroppedEverywhere(q)
<1> SUFFICES ASSUME q.kind = "deleteRole", db' # db
             PROVE  /\ db'.role[q.role].state = "gone"
                    /\ \A p \in Apps : q.role \notin db'.app[p].roles
                    /\ \A p \in FnPerms : q.role \notin db'.fn[p].roles
                    /\ \A p \in EvPerms : q.role \notin db'.ev[p].roles
    BY DEF DroppedEverywhere
<1>1. q.role \in Roles
    BY DEF Shape
<1>2. db' = DropRole(q.role)
    BY EffectOf
<1>3. /\ db'.app = [p \in Apps |-> [db.app[p] EXCEPT !.roles = db.app[p].roles \ {q.role}]]
      /\ db'.fn = [p \in FnPerms |-> [db.fn[p] EXCEPT !.roles = db.fn[p].roles \ {q.role}]]
      /\ db'.ev = [p \in EvPerms |-> [db.ev[p] EXCEPT !.roles = db.ev[p].roles \ {q.role}]]
    <2>1. LET d == DropRole(q.role) IN
          /\ d.app = [p \in Apps |-> [db.app[p] EXCEPT !.roles = db.app[p].roles \ {q.role}]]
          /\ d.fn = [p \in FnPerms |-> [db.fn[p] EXCEPT !.roles = db.fn[p].roles \ {q.role}]]
          /\ d.ev = [p \in EvPerms |-> [db.ev[p] EXCEPT !.roles = db.ev[p].roles \ {q.role}]]
        BY <1>1, DropRoleWrites
    <2> QED BY <1>2, <2>1
<1>4. ASSUME NEW p \in Apps
      PROVE  q.role \notin db'.app[p].roles
    <2>1. db.app[p] \in AppRows
        BY RowsTyped
    <2>2. db'.app[p] = [db.app[p] EXCEPT !.roles = db.app[p].roles \ {q.role}]
        BY <1>3
    <2> QED BY <2>1, <2>2 DEF AppRows
<1>5. ASSUME NEW p \in FnPerms
      PROVE  q.role \notin db'.fn[p].roles
    <2>1. db.fn[p] \in FnRows
        BY RowsTyped
    <2>2. db'.fn[p] = [db.fn[p] EXCEPT !.roles = db.fn[p].roles \ {q.role}]
        BY <1>3
    <2> QED BY <2>1, <2>2 DEF FnRows
<1>6. ASSUME NEW p \in EvPerms
      PROVE  q.role \notin db'.ev[p].roles
    <2>1. db.ev[p] \in EvRows
        BY RowsTyped
    <2>2. db'.ev[p] = [db.ev[p] EXCEPT !.roles = db.ev[p].roles \ {q.role}]
        BY <1>3
    <2> QED BY <2>1, <2>2 DEF EvRows
<1>7. db'.role[q.role].state = "gone"
    <2>1. db.role[q.role] \in RoleRows
        BY <1>1, RowsTyped
    <2>2. db'.role = [db.role EXCEPT ![q.role].state = "gone"]
        <3>1. DropRole(q.role).role = [db.role EXCEPT ![q.role].state = "gone"]
            BY <1>1, DropRoleWrites
        <3> QED BY <1>2, <3>1
    <2> QED BY <1>1, <2>1, <2>2, RowsTyped DEF RoleRows
<1> QED BY <1>4, <1>5, <1>6, <1>7

-----------------------------------------------------------------------------
(* The invariant is kept                                                   *)

\* A role of an organization stays one of its roles, and within the ceiling if it is.
LEMMA RolesKept ==
    ASSUME db \in Tables, db' \in Tables, NEW q, Shape(q), Scope(q), Granted(q), MembersEdited(q), NEW r \in Roles
    PROVE  /\ db'.role[r].system = db.role[r].system
           /\ db.role[r].system => db'.role[r].org = db.role[r].org /\ db'.role[r].admin = db.role[r].admin
           /\ \A o \in Orgs : OrgRole(r, o) =>
                /\ OrgRole(r, o)'
                /\ ~db.role[r].admin => ~db'.role[r].admin
<1>1. RoleEdit(q, r)
    BY DEF MembersEdited
<1>2. db.role[r] \in RoleRows
    BY RowsTyped
<1>3. \A o \in Orgs : o # Zone
    BY AdminAssumption
<1>4. CASE db'.role[r] = db.role[r]
    BY <1>4 DEF OrgRole
<1>5. CASE q.kind = "firstLogin" /\ db'.role[r] # db.role[r]
    BY <1>1, <1>5 DEF RoleEdit, OrgRole
<1>6. CASE q.kind = "createRole" /\ db'.role[r] # db.role[r]
    <2>1. r = q.role /\ ~db.role[r].system /\ db.role[r].state = "none" /\ db'.role[r].system = FALSE
        BY <1>1, <1>6 DEF RoleEdit, Granted
    <2> QED BY <1>2, <2>1 DEF OrgRole, RoleRows
<1>7. CASE q.kind = "updateRole" /\ db'.role[r] # db.role[r]
    <2>1. /\ r = q.role /\ ~db.role[r].system /\ db.role[r].org = q.org
          /\ db'.role[r].state = "live" /\ db'.role[r].org = q.moved /\ db'.role[r].admin = q.admin
          /\ db'.role[r].system = db.role[r].system
        BY <1>1, <1>7 DEF RoleEdit, Scoped
    <2>2. q.org # Zone => ~q.admin /\ q.moved = q.org
        BY <1>7 DEF Scope
    <2> QED BY <1>2, <1>3, <2>1, <2>2 DEF OrgRole, RoleRows
<1>8. CASE q.kind = "deleteRole" /\ db'.role[r] # db.role[r]
    BY <1>1, <1>8 DEF RoleEdit, OrgRole
<1> QED BY <1>1, <1>4, <1>5, <1>6, <1>7, <1>8 DEF RoleEdit

LEMMA GrantedKept ==
    ASSUME db \in Tables, db' \in Tables, NEW q, q # Idle, Shape(q), Scope(q), Granted(q), Edited(q),
           NEW t \in Slots, NEW w, req[t] = w, w # Idle, Shape(w), Scope(w), Granted(w),
           raced' = IF Current(q) \/ db' = db THEN raced ELSE raced \cup Subjects(q)
    PROVE  Granted(w)'
<1>0. raced \subseteq raced'
    OBVIOUS
<1>1. \A r \in Roles :
        /\ db'.role[r].system = db.role[r].system
        /\ db.role[r].system => db'.role[r].org = db.role[r].org /\ db'.role[r].admin = db.role[r].admin
        /\ \A o \in Orgs : OrgRole(r, o) => OrgRole(r, o)' /\ (~db.role[r].admin => ~db'.role[r].admin)
    BY RolesKept DEF Edited
<1>2. \A o \in Scopes : o # Zone => o \in Orgs
    BY DEF Scopes
<1>3. w.kind = "firstLogin" => \A r \in w.roles : w.org \in Orgs /\ OrgRole(r, w.org)' /\ db'.role[r].system
    <2> SUFFICES ASSUME w.kind = "firstLogin", NEW r \in w.roles
                 PROVE  w.org \in Orgs /\ OrgRole(r, w.org)' /\ db'.role[r].system
        OBVIOUS
    <2>1. r \in Roles
        BY DEF Shape
    <2>2. w.org \in Orgs /\ OrgRole(r, w.org) /\ db.role[r].system
        BY DEF Granted
    <2> QED BY <1>1, <2>1, <2>2
<1>4. w.kind = "createRole" => ~db'.role[w.role].system
    <2>1. w.kind = "createRole" => w.role \in Roles /\ ~db.role[w.role].system
        BY DEF Shape, Granted
    <2> QED BY <1>1, <2>1
<1>5. w.kind \in {"setRoles", "commitRoles"} =>
         /\ \A r \in w.add \cup w.del : OrgRole(r, w.org)'
         /\ ~w.zone => \A r \in w.add : db'.role[r].system \/ ~db'.role[r].admin
    <2> SUFFICES ASSUME w.kind \in {"setRoles", "commitRoles"}
                 PROVE  /\ \A r \in w.add \cup w.del : OrgRole(r, w.org)'
                        /\ ~w.zone => \A r \in w.add : db'.role[r].system \/ ~db'.role[r].admin
        OBVIOUS
    <2>1. w.add \in SUBSET Roles /\ w.del \in SUBSET Roles /\ w.org \in Orgs
        BY DEF Shape
    <2>2. /\ \A r \in w.add \cup w.del : OrgRole(r, w.org)
          /\ ~w.zone => \A r \in w.add : db.role[r].system \/ ~db.role[r].admin
        BY DEF Granted
    <2> QED BY <1>1, <2>1, <2>2
<1>6. (~w.zone /\ w.kind = "createApp") => \A r \in w.roles : OrgRole(r, w.org)' /\ ~db'.role[r].admin
    <2> SUFFICES ASSUME ~w.zone, w.kind = "createApp"
                 PROVE  \A r \in w.roles : OrgRole(r, w.org)' /\ ~db'.role[r].admin
        OBVIOUS
    <2>1. w.roles \in SUBSET Roles /\ w.org \in Orgs
        BY <1>2 DEF Shape, Scope
    <2>2. \A r \in w.roles : OrgRole(r, w.org) /\ ~db.role[r].admin
        BY DEF Granted
    <2> QED BY <1>1, <2>1, <2>2
<1>7. (~w.zone /\ w.kind \in {"postFn", "putFn", "postEv", "putEv"}) =>
         w.org # Zone /\ \A r \in w.roles : OrgRole(r, w.org)'
    <2> SUFFICES ASSUME ~w.zone, w.kind \in {"postFn", "putFn", "postEv", "putEv"}
                 PROVE  w.org # Zone /\ \A r \in w.roles : OrgRole(r, w.org)'
        OBVIOUS
    <2>1. w.roles \in SUBSET Roles /\ w.org \in Scopes
        BY DEF Shape
    <2>2. w.org # Zone /\ \A r \in w.roles : OrgRole(r, w.org)
        BY DEF Granted
    <2> QED BY <1>1, <1>2, <2>1, <2>2
<1>8. (w.kind = "readKeys" \/ (w.kind = "access" /\ w.org # Zone)) =>
         (db'.app[w.app].state # "none" /\ (LiveApp(w.app)' => db'.app[w.app].owner = w.org))
    <2> SUFFICES ASSUME w.kind = "readKeys" \/ (w.kind = "access" /\ w.org # Zone)
                 PROVE  db'.app[w.app].state # "none" /\ (LiveApp(w.app)' => db'.app[w.app].owner = w.org)
        OBVIOUS
    <2>1. w.app \in Apps
        BY DEF Shape
    <2>2. db.app[w.app].state # "none" /\ (LiveApp(w.app) => db.app[w.app].owner = w.org)
        BY DEF Granted
    <2>3. AppEdit(q, w.app)
        BY <2>1 DEF Edited, AppsEdited
    <2> QED BY <2>1, <2>2, <2>3 DEF AppEdit, LiveApp
<1>9. w.kind \in {"readFns", "readEvs"} =>
         (db'.contract[w.addr].live => (OwnerOf(w.addr)' = w.org \/ w.addr \in raced'))
    <2> SUFFICES ASSUME w.kind \in {"readFns", "readEvs"}, db'.contract[w.addr].live, w.addr \notin raced'
                 PROVE  OwnerOf(w.addr)' = w.org
        OBVIOUS
    <2>1. w.addr \in Addrs /\ UnderRead(w.addr)
        BY DEF Shape, UnderRead
    <2>2. db.contract[w.addr].live => OwnerOf(w.addr) = w.org
        BY <1>0 DEF Granted
    <2>3. ContractEdit(q, w.addr)
        BY <2>1 DEF Edited, RegistryEdited
    <2>4. ~(q.kind = "postContract" /\ q.addr = w.addr /\ db' # db)
        BY <2>1 DEF Current, Subjects
    <2>5. ~(q.kind = "putContract" /\ q.to = w.addr /\ q.addr # q.to /\ db' # db)
        BY <2>1 DEF Current, Subjects
    <2> QED BY <2>1, <2>2, <2>3, <2>4, <2>5 DEF ContractEdit, OwnerOf
<1>10. \A o \in Orgs : db.org[o] # "none" => db'.org[o] # "none"
    BY DEF Edited, OrgEdit
<1>11. w.kind \in {"createApp", "updateApp", "deleteApp"} => (w.org \in Orgs => db'.org[w.org] # "none")
    BY <1>10 DEF Granted
<1>12. w.kind = "createApp" => \A l \in w.links : db'.org[l] # "none"
    BY <1>10 DEF Granted, Shape
<1> QED BY <1>3, <1>4, <1>5, <1>6, <1>7, <1>8, <1>9, <1>11, <1>12 DEF Granted

\* The inductive invariant: the tables keep their types and their foreign keys, and what a
\* request has checked stays true of the organization it acts on until it lands.
AdminInvariant ==
    /\ db \in Tables
    /\ Outstanding /\ AdminRoles /\ HeldRows /\ Attached /\ Anchored /\ KeysLive

\* A request that was admitted, and what has become of the tables.
Admitted(q) == q # Idle /\ Shape(q) /\ Scope(q) /\ Granted(q)

LEMMA HeldRowsKept ==
    ASSUME db \in Tables, HeldRows, NEW q, Admitted(q), Edited(q)
    PROVE  HeldRows'
<1> SUFFICES ASSUME NEW h \in db'.holds
             PROVE  db'.user[h[1]].live /\ LiveRole(h[2])'
    BY DEF HeldRows
<1>1. h[1] \in Users /\ h[2] \in Roles
    <2>1. db'.holds \in SUBSET (Users \X Roles)
        BY DEF Edited, WritesOwnTables, Tables
    <2> QED BY <2>1
<1>2. /\ UserEdit(q, h[1]) /\ RoleEdit(q, h[2])
      /\ HoldKept(q, h) /\ (h \notin db.holds => HoldGained(q, h))
    BY <1>1 DEF Edited, MembersEdited
<1>3. CASE h \in db.holds
    <2>1. db.user[h[1]].live /\ db.role[h[2]].state = "live"
        BY <1>3 DEF HeldRows, LiveRole
    <2>2. db'.user[h[1]].live
        BY <1>2, <2>1 DEF UserEdit, HoldKept
    <2>3. db'.role[h[2]].state = "live"
        BY <1>2, <2>1 DEF RoleEdit, HoldKept
    <2> QED BY <2>2, <2>3 DEF LiveRole
<1>4. CASE h \notin db.holds
    <2>1. HoldGained(q, h)
        BY <1>2, <1>4
    <2>2. q.kind = "elevate" => db.role[h[2]].state = "live"
        BY <2>1 DEF HoldGained, MayHold, Assignable, LiveRole
    <2>3. q.kind \in {"createUser", "appUser", "tenantUser"} => db.role[h[2]].state = "live"
        BY <2>1 DEF HoldGained, RolesMatch, Assignable, LiveRole
    <2>4. q.kind \in {"updateUser", "commitRoles"} => db.role[h[2]].state = "live"
        BY <2>1 DEF HoldGained, AllLive, LiveRole
    <2>5. db'.role[h[2]].state = "live"
        BY <1>2, <2>1, <2>2, <2>3, <2>4 DEF RoleEdit, HoldGained
    <2> QED BY <2>1, <2>5 DEF HoldGained, LiveRole
<1> QED BY <1>3, <1>4

LEMMA AdminRolesKept ==
    ASSUME db \in Tables, AdminRoles, NEW q, Admitted(q), Edited(q)
    PROVE  AdminRoles'
<1>1. \A r \in Roles : /\ db'.role[r].system = db.role[r].system
                       /\ db.role[r].system => db'.role[r].org = db.role[r].org
    BY RolesKept DEF Edited, WritesOwnTables, Admitted
<1> QED BY <1>1 DEF AdminRoles

\* Where the state of a role is gone, either it was, or this request deletes it.
LEMMA WhoIsGone ==
    ASSUME db \in Tables, NEW q, Edited(q), NEW r \in Roles, db'.role[r].state = "gone"
    PROVE  db.role[r].state = "gone" \/ (q.kind = "deleteRole" /\ r = q.role /\ db' # db)
BY DEF Edited, MembersEdited, RoleEdit

LEMMA AttachedKept ==
    ASSUME db \in Tables, Attached, NEW q, Admitted(q), Edited(q), DroppedEverywhere(q)
    PROVE  Attached'
<1>1. ASSUME NEW p \in Apps, NEW r \in db'.app[p].roles
      PROVE  db'.role[r].state # "gone"
    <2>1. r \in Roles /\ AppEdit(q, p)
        <3>1. db'.app[p] \in AppRows
            BY DEF Edited, WritesOwnTables, Tables
        <3> QED BY <1>1, <3>1 DEF Edited, AppsEdited, AppRows
    <2>2. ~(q.kind = "deleteRole" /\ r = q.role /\ db' # db)
        BY <1>1 DEF DroppedEverywhere
    <2>3. db.role[r].state # "gone"
        BY <1>1, <2>1 DEF AppEdit, Attached, AllLive, LiveRole
    <2> QED BY <2>1, <2>2, <2>3, WhoIsGone
<1>2. ASSUME NEW p \in FnPerms, NEW r \in db'.fn[p].roles
      PROVE  db'.role[r].state # "gone"
    <2>1. r \in Roles /\ FnEdit(q, p)
        <3>1. db'.fn[p] \in FnRows
            BY DEF Edited, WritesOwnTables, Tables
        <3> QED BY <1>2, <3>1 DEF Edited, RegistryEdited, FnRows
    <2>2. ~(q.kind = "deleteRole" /\ r = q.role /\ db' # db)
        BY <1>2 DEF DroppedEverywhere
    <2>3. db.role[r].state # "gone"
        BY <1>2, <2>1 DEF FnEdit, Attached, AllLive, LiveRole
    <2> QED BY <2>1, <2>2, <2>3, WhoIsGone
<1>3. ASSUME NEW p \in EvPerms, NEW r \in db'.ev[p].roles
      PROVE  db'.role[r].state # "gone"
    <2>1. r \in Roles /\ EvEdit(q, p)
        <3>1. db'.ev[p] \in EvRows
            BY DEF Edited, WritesOwnTables, Tables
        <3> QED BY <1>3, <3>1 DEF Edited, RegistryEdited, EvRows
    <2>2. ~(q.kind = "deleteRole" /\ r = q.role /\ db' # db)
        BY <1>3 DEF DroppedEverywhere
    <2>3. db.role[r].state # "gone"
        BY <1>3, <2>1 DEF EvEdit, Attached, AllLive, LiveRole
    <2> QED BY <2>1, <2>2, <2>3, WhoIsGone
<1> QED BY <1>1, <1>2, <1>3 DEF Attached

LEMMA AnchoredKept ==
    ASSUME db \in Tables, Anchored, NEW q, Admitted(q), Edited(q)
    PROVE  Anchored'
<1>0. /\ \A p \in FnPerms : db'.fn[p].addr \in Addrs
      /\ \A p \in EvPerms : db'.ev[p].addr \in Addrs
    <2>1. /\ \A p \in FnPerms : db'.fn[p] \in FnRows
          /\ \A p \in EvPerms : db'.ev[p] \in EvRows
        BY DEF Edited, WritesOwnTables, Tables
    <2> QED BY <2>1 DEF FnRows, EvRows
\* A contract that goes takes its address along.
<1>1. \A a \in Addrs : db.contract[a].live =>
        \/ db'.contract[a].live
        \/ a = q.addr /\ (q.kind = "deleteContract" \/ (q.kind = "putContract" /\ q.addr # q.to /\ db' # db))
    BY DEF Edited, RegistryEdited, ContractEdit
<1>2. ASSUME NEW p \in FnPerms, db'.fn[p].live
      PROVE  db'.contract[db'.fn[p].addr].live
    <2>1. FnEdit(q, p) /\ NoneLeft(q)
        BY DEF Edited, RegistryEdited
    <2>2. CASE q.kind = "putContract" /\ db'.fn[p].addr = q.to /\ db'.contract[q.to].live
        BY <2>2
    <2>3. CASE ~(q.kind = "putContract" /\ db'.fn[p].addr = q.to /\ db'.contract[q.to].live)
        <3>1. db.contract[db'.fn[p].addr].live
            BY <1>2, <2>1, <2>3 DEF FnEdit, Anchored, SameRow
        <3> QED BY <1>0, <1>1, <1>2, <2>1, <3>1 DEF NoneLeft
    <2> QED BY <2>2, <2>3
<1>3. ASSUME NEW p \in EvPerms, db'.ev[p].live
      PROVE  db'.contract[db'.ev[p].addr].live
    <2>1. EvEdit(q, p) /\ NoneLeft(q)
        BY DEF Edited, RegistryEdited
    <2>2. CASE q.kind = "putContract" /\ db'.ev[p].addr = q.to /\ db'.contract[q.to].live
        BY <2>2
    <2>3. CASE ~(q.kind = "putContract" /\ db'.ev[p].addr = q.to /\ db'.contract[q.to].live)
        <3>1. db.contract[db'.ev[p].addr].live
            BY <1>3, <2>1, <2>3 DEF EvEdit, Anchored, SameRow
        <3> QED BY <1>0, <1>1, <1>3, <2>1, <3>1 DEF NoneLeft
    <2> QED BY <2>2, <2>3
<1> QED BY <1>2, <1>3 DEF Anchored

LEMMA KeysLiveKept ==
    ASSUME db \in Tables, KeysLive, NEW q, Admitted(q), Edited(q)
    PROVE  KeysLive'
<1> SUFFICES ASSUME NEW p \in db'.keys
             PROVE  LiveApp(p)'
    BY DEF KeysLive
<1>1. p \in Apps /\ AppEdit(q, p) /\ AccessEdited(q)
    BY DEF Edited, AppsEdited, WritesOwnTables, Tables
<1>2. LiveApp(p)
    BY <1>1 DEF AccessEdited, KeysLive
<1> QED BY <1>1, <1>2 DEF AppEdit, AccessEdited, LiveApp

\* What holds of the tables holds where they are unchanged.
TablesPart == db \in Tables /\ AdminRoles /\ HeldRows /\ Attached /\ Anchored /\ KeysLive

LEMMA TablesUnchanged ==
    ASSUME TablesPart, db' = db
    PROVE  TablesPart'
BY DEF TablesPart, AdminRoles, HeldRows, Attached, Anchored, KeysLive, LiveRole, LiveApp

LEMMA GrantedUnchanged ==
    ASSUME NEW q, Granted(q), db' = db, raced' = raced
    PROVE  Granted(q)'
BY DEF Granted, OrgRole, LiveApp, OwnerOf

LEMMA ArrivalKeeps ==
    ASSUME AdminInvariant, NEW s \in Slots, Arrival(s)
    PROVE  AdminInvariant'
<1>1. PICK q : Fresh(q) /\ Arrive(s, q)
    BY DEF Arrival
<1>2. TablesPart'
    BY <1>1, TablesUnchanged DEF AdminInvariant, TablesPart, Arrive
<1>3. Outstanding'
    <2>1. /\ req' = [req EXCEPT ![s] = q] /\ db' = db /\ raced' = raced
          /\ q # Idle /\ Shape(q) /\ Scope(q) /\ Granted(q)
        BY <1>1 DEF Arrive, Fresh
    <2>2. /\ DOMAIN req = Slots /\ req = [t \in Slots |-> req[t]]
          /\ \A t \in Slots : Shape(req[t]) /\ (req[t] # Idle => Scope(req[t]) /\ Granted(req[t]))
        BY DEF AdminInvariant, Outstanding
    <2>3. DOMAIN req' = Slots /\ req' = [t \in Slots |-> req'[t]]
        BY <2>1, <2>2
    <2>4. ASSUME NEW t \in Slots, NEW w, w = req'[t]
          PROVE  Shape(w) /\ (w # Idle => Scope(w) /\ Granted(w)')
        <3>1. Shape(w) /\ (w # Idle => Scope(w) /\ Granted(w))
            BY <2>1, <2>2, <2>4
        <3> QED BY <2>1, <3>1, GrantedUnchanged
    <2> QED BY <2>3, <2>4 DEF Outstanding
<1> QED BY <1>2, <1>3 DEF AdminInvariant, TablesPart

LEMMA LandingEdits ==
    ASSUME AdminInvariant, NEW s \in Slots, Landing(s), NEW q, req[s] = q
    PROVE  /\ Admitted(q) /\ q.kind \notin {"setRoles", "clearUmbrella"}
           /\ Edited(q) /\ DroppedEverywhere(q) /\ db' = Effect(q)
           /\ raced' = IF Current(q) \/ db' = db THEN raced ELSE raced \cup Subjects(q)
           /\ req' = [req EXCEPT ![s] = Idle]
           /\ approved' = InForce(db)' \cap
                (IF q.zone THEN approved \cup (InForce(db)' \ InForce(db)) ELSE approved)
           /\ events' = events \cup AuditEvents(q, db') /\ trail' = trail
<1>1. Admitted(q) /\ q.kind \notin {"setRoles", "clearUmbrella"}
    BY DEF Landing, AdminInvariant, Outstanding, Admitted
<1>2. /\ db' = Effect(q)
      /\ raced' = IF Current(q) \/ Effect(q) = db THEN raced ELSE raced \cup Subjects(q)
      /\ req' = [req EXCEPT ![s] = Idle]
      /\ approved' = InForce(Effect(q)) \cap
           (IF q.zone THEN approved \cup (InForce(Effect(q)) \ InForce(db)) ELSE approved)
      /\ events' = events \cup AuditEvents(q, Effect(q)) /\ trail' = trail
    BY DEF Landing, Land
<1>3. InForce(db)' = InForce(db')
    BY DEF InForce, Umbrellas, Disclosed, FromTemplate, Owned
<1> QED BY <1>1, <1>2, <1>3, EffectEdits, DropReaches DEF AdminInvariant, Admitted

LEMMA LandingKeeps ==
    ASSUME AdminInvariant, NEW s \in Slots, Landing(s)
    PROVE  AdminInvariant'
<1>1. PICK q : req[s] = q
    OBVIOUS
<1>2. /\ Admitted(q) /\ Edited(q) /\ DroppedEverywhere(q)
      /\ raced' = IF Current(q) \/ db' = db THEN raced ELSE raced \cup Subjects(q)
      /\ req' = [req EXCEPT ![s] = Idle]
    BY <1>1, LandingEdits
<1>3. TablesPart'
    BY <1>2, AdminRolesKept, HeldRowsKept, AttachedKept, AnchoredKept, KeysLiveKept
       DEF AdminInvariant, TablesPart, Edited, WritesOwnTables
<1>4. Outstanding'
    <2>2. /\ DOMAIN req = Slots /\ req = [t \in Slots |-> req[t]]
          /\ \A t \in Slots : Shape(req[t]) /\ (req[t] # Idle => Scope(req[t]) /\ Granted(req[t]))
        BY DEF AdminInvariant, Outstanding
    <2>3. DOMAIN req' = Slots /\ req' = [t \in Slots |-> req'[t]]
        BY <1>2, <2>2
    <2>4. ASSUME NEW t \in Slots, NEW w, w = req'[t]
          PROVE  Shape(w) /\ (w # Idle => Scope(w) /\ Granted(w)')
        <3>1. CASE w = Idle
            BY <3>1 DEF Shape
        <3>2. CASE w # Idle
            <4>1. req[t] = w
                BY <1>2, <2>2, <2>4, <3>2
            <4>2. Shape(w) /\ Scope(w) /\ Granted(w)
                BY <2>2, <3>2, <4>1
            <4>3. Granted(w)'
                BY <1>2, <3>2, <4>1, <4>2, GrantedKept
                   DEF AdminInvariant, Admitted, Edited, WritesOwnTables
            <4> QED BY <4>2, <4>3
        <3> QED BY <3>1, <3>2
    <2> QED BY <2>3, <2>4 DEF Outstanding
<1> QED BY <1>3, <1>4 DEF AdminInvariant, TablesPart

LEMMA ProceedsKeeps ==
    ASSUME AdminInvariant, NEW s \in Slots, Proceeds(s)
    PROVE  AdminInvariant'
<1>1. TablesPart' /\ raced' = raced /\ db' = db
    BY TablesUnchanged DEF AdminInvariant, TablesPart, Proceeds
<1>2. PICK q : req[s] = q
    OBVIOUS
<1>3. /\ DOMAIN req = Slots /\ req = [t \in Slots |-> req[t]]
      /\ \A t \in Slots : Shape(req[t]) /\ (req[t] # Idle => Scope(req[t]) /\ Granted(req[t]))
    BY DEF AdminInvariant, Outstanding
<1>4. q.kind = "setRoles" /\ q # Idle
    BY <1>2 DEF Proceeds, Idle
<1> DEFINE z == [q EXCEPT !.kind = "commitRoles"]
<1>5. z # Idle => Shape(z) /\ Scope(z) /\ Granted(z)
    <2>1. Shape(q) /\ Scope(q) /\ Granted(q)
        BY <1>2, <1>3, <1>4
    <2>2. q = [kind |-> q.kind, by |-> q.by, zone |-> q.zone, org |-> q.org, user |-> q.user,
               add |-> q.add, del |-> q.del]
        BY <1>4, <2>1 DEF Shape
    <2>3. /\ z.kind = "commitRoles" /\ z.zone = q.zone /\ z.org = q.org /\ z.user = q.user
          /\ z.add = q.add /\ z.del = q.del
        BY <2>2
    <2> HIDE DEF z
    <2>4. Shape(z)
        BY <1>4, <2>1, <2>3 DEF Shape
    <2>5. Scope(z)
        BY <1>4, <2>1, <2>3 DEF Scope
    <2>6. Granted(z)
        BY <1>4, <2>1, <2>3 DEF Granted
    <2> QED BY <2>4, <2>5, <2>6
<1>6. req' = [req EXCEPT ![s] = z] \/ req' = [req EXCEPT ![s] = Idle]
    BY <1>2, <1>3 DEF Proceeds
<1> HIDE DEF z
<1>7. Outstanding'
    <2>1. DOMAIN req' = Slots /\ req' = [t \in Slots |-> req'[t]]
        BY <1>3, <1>6
    <2>2. ASSUME NEW t \in Slots, NEW w, w = req'[t]
          PROVE  Shape(w) /\ (w # Idle => Scope(w) /\ Granted(w)')
        <3>1. Shape(w) /\ (w # Idle => Scope(w) /\ Granted(w))
            <4>1. CASE w = Idle
                BY <4>1 DEF Shape
            <4>2. CASE w = z /\ w # Idle
                BY <1>5, <4>2
            <4>3. CASE w = req[t]
                BY <1>3, <4>3
            <4> QED BY <1>3, <1>6, <2>2, <4>1, <4>2, <4>3
        <3> QED BY <1>1, <3>1, GrantedUnchanged
    <2> QED BY <2>1, <2>2 DEF Outstanding
<1> QED BY <1>1, <1>7 DEF AdminInvariant, TablesPart

LEMMA ClearsWrites ==
    ASSUME db \in Tables, NEW a, db' = ClearUmbrella(a)
    PROVE  /\ db' \in Tables
           /\ db'.multi = db.multi /\ db'.user = db.user /\ db'.holds = db.holds /\ db'.role = db.role
           /\ db'.app = db.app /\ db'.keys = db.keys /\ db'.ips = db.ips /\ db'.org = db.org
           /\ db'.contract = db.contract /\ db'.ev = db.ev /\ db'.umbrella = db.umbrella
           /\ \A p \in FnPerms :
                /\ db'.fn[p].live = db.fn[p].live /\ db'.fn[p].addr = db.fn[p].addr /\ db'.fn[p].roles = db.fn[p].roles
                /\ db'.fn[p].umbrella = (db.fn[p].umbrella /\ db.fn[p].addr # a)
<1>1. LET d == ClearUmbrella(a) IN
           /\ d \in Tables /\ SameMembers(d) /\ SameApps(d) /\ SameOrgs(d)
           /\ d.contract = db.contract /\ d.ev = db.ev /\ d.umbrella = db.umbrella
           /\ d.fn = [p \in FnPerms |-> IF db.fn[p].addr = a THEN [db.fn[p] EXCEPT !.umbrella = FALSE] ELSE db.fn[p]]
    BY ClearUmbrellaWrites
<1>2. \A p \in FnPerms : db.fn[p] \in FnRows
    BY RowsTyped
<1>3. ASSUME NEW p \in FnPerms
      PROVE  /\ db'.fn[p].live = db.fn[p].live /\ db'.fn[p].addr = db.fn[p].addr /\ db'.fn[p].roles = db.fn[p].roles
             /\ db'.fn[p].umbrella = (db.fn[p].umbrella /\ db.fn[p].addr # a)
    <2>1. db'.fn[p] = IF db.fn[p].addr = a THEN [db.fn[p] EXCEPT !.umbrella = FALSE] ELSE db.fn[p]
        BY <1>1
    <2> QED BY <1>2, <2>1 DEF FnRows
<1> QED BY <1>1, <1>3 DEF SameMembers, SameApps, SameOrgs

LEMMA ClearsKeeps ==
    ASSUME AdminInvariant, NEW s \in Slots, Clears(s)
    PROVE  AdminInvariant'
<1>1. PICK q : req[s] = q
    OBVIOUS
<1>2. q.kind = "clearUmbrella" /\ q # Idle /\ req' = [req EXCEPT ![s].kind = "putContract"] /\ raced' = raced
    BY <1>1 DEF Clears, Idle
<1>3. /\ db' \in Tables
      /\ db'.multi = db.multi /\ db'.user = db.user /\ db'.holds = db.holds /\ db'.role = db.role
      /\ db'.app = db.app /\ db'.keys = db.keys /\ db'.ips = db.ips /\ db'.org = db.org
      /\ db'.contract = db.contract /\ db'.ev = db.ev
      /\ \A p \in FnPerms :
           db'.fn[p].live = db.fn[p].live /\ db'.fn[p].addr = db.fn[p].addr /\ db'.fn[p].roles = db.fn[p].roles
    BY <1>1, ClearsWrites DEF Clears, AdminInvariant
<1>4. TablesPart'
    BY <1>3
       DEF AdminInvariant, TablesPart, AdminRoles, HeldRows, Attached, Anchored, KeysLive, LiveRole,
           LiveApp
<1>5. /\ DOMAIN req = Slots /\ req = [t \in Slots |-> req[t]]
      /\ \A t \in Slots : Shape(req[t]) /\ (req[t] # Idle => Scope(req[t]) /\ Granted(req[t]))
    BY DEF AdminInvariant, Outstanding
<1> DEFINE z == [q EXCEPT !.kind = "putContract"]
<1>6. z # Idle => Shape(z) /\ Scope(z) /\ Granted(z)
    <2>1. Shape(q) /\ Scope(q) /\ Granted(q)
        BY <1>1, <1>2, <1>5
    <2>2. q = [kind |-> q.kind, by |-> q.by, zone |-> q.zone, org |-> q.org, addr |-> q.addr, to |-> q.to,
               template |-> q.template, disclose |-> q.disclose, read |-> q.read]
        BY <1>2, <2>1 DEF Shape
    <2>3. /\ z.kind = "putContract" /\ z.zone = q.zone /\ z.org = q.org /\ z.addr = q.addr /\ z.to = q.to
          /\ z.template = q.template /\ z.disclose = q.disclose /\ z.read = q.read
        BY <2>2
    <2> HIDE DEF z
    <2>4. Shape(z)
        BY <1>2, <2>1, <2>3 DEF Shape
    <2>5. Scope(z)
        BY <1>2, <2>1, <2>3 DEF Scope
    <2>6. Granted(z)
        BY <1>2, <2>1, <2>3 DEF Granted
    <2> QED BY <2>4, <2>5, <2>6
<1>7. req' = [req EXCEPT ![s] = z]
    BY <1>1, <1>2, <1>5
<1> HIDE DEF z
<1>8. Outstanding'
    <2>1. DOMAIN req' = Slots /\ req' = [t \in Slots |-> req'[t]]
        BY <1>5, <1>7
    <2>2. ASSUME NEW t \in Slots, NEW w, w = req'[t]
          PROVE  Shape(w) /\ (w # Idle => Scope(w) /\ Granted(w)')
        <3>1. Shape(w) /\ (w # Idle => Scope(w) /\ Granted(w))
            <4>1. CASE w = Idle
                BY <4>1 DEF Shape
            <4>2. CASE w = z /\ w # Idle
                BY <1>6, <4>2
            <4>3. CASE w = req[t]
                BY <1>5, <4>3
            <4> QED BY <1>5, <1>7, <2>2, <4>1, <4>2, <4>3
        <3> QED BY <1>2, <1>3, <3>1 DEF Granted, OrgRole, LiveApp, OwnerOf
    <2> QED BY <2>1, <2>2 DEF Outstanding
<1> QED BY <1>4, <1>8 DEF AdminInvariant, TablesPart

LEMMA RestKeeps ==
    ASSUME AdminInvariant, db' = db, req' = req, raced' = raced
    PROVE  AdminInvariant'
<1>1. TablesPart'
    BY TablesUnchanged DEF AdminInvariant, TablesPart
<1>2. ASSUME NEW t \in Slots, NEW w, w = req'[t]
      PROVE  Shape(w) /\ (w # Idle => Scope(w) /\ Granted(w)')
    BY <1>2, GrantedUnchanged DEF AdminInvariant, Outstanding
<1>3. DOMAIN req' = Slots /\ req' = [t \in Slots |-> req'[t]]
    BY DEF AdminInvariant, Outstanding
<1>4. Outstanding'
    BY <1>2, <1>3 DEF Outstanding
<1> QED BY <1>1, <1>4 DEF AdminInvariant, TablesPart

LEMMA AdminStep ==
    ASSUME AdminInvariant, [Next]_vars
    PROVE  AdminInvariant'
<1>1. Ready
    BY DEF AdminInvariant, Ready
<1>2. CASE \E s \in Slots : Arrival(s) \/ Landing(s) \/ Proceeds(s) \/ Clears(s)
    BY <1>2, ArrivalKeeps, LandingKeeps, ProceedsKeeps, ClearsKeeps
<1>3. CASE WriteEvent
    BY <1>3, RestKeeps DEF WriteEvent
<1>4. CASE UNCHANGED vars
    BY <1>4, RestKeeps DEF vars
<1> QED BY <1>1, <1>2, <1>3, <1>4, NextCases

LEMMA AdminInit ==
    ASSUME Init
    PROVE  AdminInvariant
<1>1. PICK start \in Starts : db = start.db
    BY DEF Init
<1>2. db \in Tables /\ Orderly(db)
    BY <1>1, StartsOrderly
<1>3. Outstanding
    <2>1. req = [s \in Slots |-> Idle]
        BY DEF Init
    <2> QED BY <2>1 DEF Outstanding, Shape
<1>4. \A p \in Apps : db.app[p].roles \subseteq Roles
    <2>1. \A p \in Apps : db.app[p] \in AppRows
        BY <1>2, RowsTyped
    <2> QED BY <2>1 DEF AppRows
<1>5. /\ \A p \in FnPerms : db.fn[p].roles \subseteq Roles
      /\ \A p \in EvPerms : db.ev[p].roles \subseteq Roles
    <2>1. /\ \A p \in FnPerms : db.fn[p] \in FnRows
          /\ \A p \in EvPerms : db.ev[p] \in EvRows
        BY <1>2, RowsTyped
    <2> QED BY <2>1 DEF FnRows, EvRows
<1>6. AdminRoles /\ HeldRows /\ Attached /\ Anchored /\ KeysLive
    BY <1>2, <1>4, <1>5
       DEF Orderly, AdminRoles, HeldRows, Attached, Anchored, KeysLive, LiveRole, LiveApp
<1> QED BY <1>2, <1>3, <1>6 DEF AdminInvariant

\* The tables keep their types and foreign keys, every request in flight is one its sender may
\* have sent, and what it has checked of the roles it hands out stays true until it lands,
\* whatever the others do in between.
THEOREM AdminTypeCorrect == Spec => []AdminInvariant
<1>1. Init => AdminInvariant
    BY AdminInit
<1>2. AdminInvariant /\ [Next]_vars => AdminInvariant'
    BY AdminStep
<1> QED BY <1>1, <1>2, PTL DEF Spec

-----------------------------------------------------------------------------
(* The steps, as the properties see them                                   *)

\* What a request about a credential has written, unless it changed nothing.
CredentialWritten(q) ==
    LET old == db.app[q.app]
        new == db'.app[q.app] IN
    db' # db =>
        /\ q.kind = "createApp" =>
             old.state = "none" /\ new.state = "live" /\ new.owner = q.org /\ new.links = q.links
        /\ q.kind = "updateApp" =>
             old.state = "live" /\ new.state = "live" /\ new.owner = old.owner /\ new.links = old.links
        /\ q.kind = "deleteApp" => old.state = "live" /\ new.state = "gone"
        /\ q.kind = "linkApp" =>
             /\ old.state = "live" /\ new.state = "live" /\ new.owner = old.owner /\ new.links = q.links
             /\ \A l \in q.links : Live(l)

LEMMA CredentialWrites ==
    ASSUME db \in Tables, NEW q, q # Idle, Shape(q), db' = Effect(q)
    PROVE  CredentialWritten(q)
<1> SUFFICES ASSUME db' # db
             PROVE  CredentialWritten(q)
    BY DEF CredentialWritten
<1>1. CASE q.kind = "createApp"
    <2>1. q.app \in Apps /\ q.org \in Scopes /\ q.roles \in SUBSET Roles /\ q.links \in SUBSET Orgs
        BY <1>1 DEF Shape
    <2>2. /\ db.app[q.app].state = "none"
          /\ db'.app = [db.app EXCEPT ![q.app] =
                          [state |-> "live", owner |-> q.org, links |-> q.links, roles |-> q.roles]]
        BY <1>1, <2>1, EffectOf, AppInsertedWrites
    <2> QED BY <1>1, <2>1, <2>2, RowsTyped DEF CredentialWritten
<1>2. CASE q.kind = "updateApp"
    <2>1. q.app \in Apps /\ q.roles \in SUBSET Roles
        BY <1>2 DEF Shape
    <2>2. db.app[q.app] \in AppRows
        BY <2>1, RowsTyped
    <2>3. LiveApp(q.app) /\ db'.app = [db.app EXCEPT ![q.app] = [db.app[q.app] EXCEPT !.roles = q.roles]]
        BY <1>2, <2>1, EffectOf, AppUpdatedWrites
    <2>4. db'.app[q.app] = [db.app[q.app] EXCEPT !.roles = q.roles]
        BY <2>1, <2>3, RowsTyped
    <2> QED BY <1>2, <2>2, <2>3, <2>4 DEF CredentialWritten, LiveApp, AppRows
<1>3. CASE q.kind = "deleteApp"
    <2>1. q.app \in Apps
        BY <1>3 DEF Shape
    <2>2. /\ LiveApp(q.app)
          /\ db'.app = [db.app EXCEPT ![q.app] = [state |-> "gone", owner |-> Zone, roles |-> {}, links |-> {}]]
        BY <1>3, <2>1, EffectOf, AppDeletedWrites
    <2> QED BY <1>3, <2>1, <2>2, RowsTyped DEF CredentialWritten, LiveApp
<1>4. CASE q.kind = "linkApp"
    <2>1. q.app \in Apps /\ q.links \in SUBSET Orgs
        BY <1>4 DEF Shape
    <2>2. db.app[q.app] \in AppRows
        BY <2>1, RowsTyped
    <2>3. /\ LiveApp(q.app) /\ \A l \in q.links : Live(l)
          /\ db'.app = [db.app EXCEPT ![q.app] = [db.app[q.app] EXCEPT !.links = q.links]]
        BY <1>4, <2>1, EffectOf, RelinkedWrites
    <2>4. db'.app[q.app] = [db.app[q.app] EXCEPT !.links = q.links]
        BY <2>1, <2>3, RowsTyped
    <2> QED BY <1>4, <2>2, <2>3, <2>4 DEF CredentialWritten, LiveApp, AppRows
<1> QED BY <1>1, <1>2, <1>3, <1>4 DEF CredentialWritten

\* The steps, as the properties see them: a request lands, one clears the umbrella flags at its
\* address, or the tables stay as they are.
Landed(s, q) ==
    /\ req[s] = q /\ Admitted(q)
    /\ Edited(q) /\ DroppedEverywhere(q) /\ CredentialWritten(q)
    /\ raced' = IF Current(q) \/ db' = db THEN raced ELSE raced \cup Subjects(q)
    /\ req' = [req EXCEPT ![s] = Idle]
    /\ approved' = InForce(db)' \cap
         (IF q.zone THEN approved \cup (InForce(db)' \ InForce(db)) ELSE approved)
    /\ events' = events \cup AuditEvents(q, db') /\ trail' = trail

\* The umbrella flags of a contract are cleared, and the edit goes on.
Cleared(s, q) ==
    /\ req[s] = q /\ Admitted(q) /\ q.kind = "clearUmbrella"
    /\ db' \in Tables
    /\ db'.multi = db.multi /\ db'.user = db.user /\ db'.holds = db.holds /\ db'.role = db.role
    /\ db'.app = db.app /\ db'.keys = db.keys /\ db'.ips = db.ips /\ db'.org = db.org
    /\ db'.contract = db.contract /\ db'.ev = db.ev /\ db'.umbrella = db.umbrella
    /\ \A p \in FnPerms :
         /\ db'.fn[p].live = db.fn[p].live /\ db'.fn[p].addr = db.fn[p].addr /\ db'.fn[p].roles = db.fn[p].roles
         /\ db'.fn[p].umbrella = (db.fn[p].umbrella /\ db.fn[p].addr # q.addr)
    /\ req' = [req EXCEPT ![s].kind = "putContract"]
    /\ approved' = approved \cap InForce(db)'
    /\ raced' = raced /\ events' = events /\ trail' = trail

LEMMA LandedOf ==
    ASSUME AdminInvariant, NEW s \in Slots, Landing(s), NEW q, req[s] = q
    PROVE  Landed(s, q)
<1>1. db \in Tables
    BY DEF AdminInvariant
<1> QED BY <1>1, LandingEdits, CredentialWrites, Zenon DEF Landed, Admitted

LEMMA ClearedOf ==
    ASSUME AdminInvariant, NEW s \in Slots, Clears(s), NEW q, req[s] = q
    PROVE  Cleared(s, q)
<1>1. db \in Tables /\ db' = ClearUmbrella(q.addr)
    BY DEF AdminInvariant, Clears
<1>2. Admitted(q) /\ q.kind = "clearUmbrella"
    BY DEF AdminInvariant, Outstanding, Admitted, Clears, Idle
<1>3. InForce(db)' = InForce(db')
    BY DEF InForce, Umbrellas, Disclosed, FromTemplate, Owned
<1>4. /\ req' = [req EXCEPT ![s].kind = "putContract"]
      /\ approved' = approved \cap InForce(db')
      /\ raced' = raced /\ events' = events /\ trail' = trail
    BY DEF Clears
<1> QED BY <1>1, <1>2, <1>3, <1>4, ClearsWrites DEF Cleared

LEMMA StepCases ==
    ASSUME AdminInvariant, [Next]_vars
    PROVE  \/ \E s \in Slots : \E q : Landed(s, q)
           \/ \E s \in Slots : \E q : Cleared(s, q)
           \/ /\ db' = db /\ raced' = raced /\ approved' = approved
              /\ WriteEvent \/ (events' = events /\ trail' = trail)
<1>1. Ready
    BY DEF AdminInvariant, Ready
<1>2. ASSUME NEW s \in Slots, Arrival(s) \/ Proceeds(s)
      PROVE  db' = db /\ raced' = raced /\ approved' = approved /\ events' = events /\ trail' = trail
    BY <1>2 DEF Arrival, Arrive, Proceeds
<1>3. WriteEvent => db' = db /\ raced' = raced /\ approved' = approved
    BY DEF WriteEvent
<1>4. UNCHANGED vars => db' = db /\ raced' = raced /\ approved' = approved /\ events' = events /\ trail' = trail
    BY DEF vars
<1> QED BY <1>1, <1>2, <1>3, <1>4, NextCases, LandedOf, ClearedOf

-----------------------------------------------------------------------------
(* What a deleted organization leaves behind, and who holds which roles    *)

\* The members of a deleted organization have no wallets, but for those added under way.
WalletsReleased ==
    \A o \in Orgs : db.org[o] = "deleted" =>
        \A u \in Users : db.user[u].org = o /\ db.user[u].wallet => u \in raced

LEMMA WalletsReleasedStep ==
    ASSUME AdminInvariant, WalletsReleased, [Next]_vars
    PROVE  WalletsReleased'
<1>1. ASSUME NEW s \in Slots, NEW q, Landed(s, q)
      PROVE  WalletsReleased'
    <2> SUFFICES ASSUME NEW o \in Orgs, db'.org[o] = "deleted", NEW u \in Users,
                        db'.user[u].org = o, db'.user[u].wallet
                 PROVE  u \in raced'
        BY DEF WalletsReleased
    <2>1. Admitted(q) /\ OrgEdit(q, o) /\ UserEdit(q, u)
        BY <1>1 DEF Landed, Edited, MembersEdited
    <2>2. raced \subseteq raced' /\ (~Current(q) /\ db' # db => Subjects(q) \subseteq raced')
        BY <1>1 DEF Landed
    <2>3. o # Zone
        BY AdminAssumption
    <2>4. CASE q.kind = "deleteOrg"
        <3>1. db.user[u].org = q.org => ~db'.user[u].wallet
            BY <1>1, <2>4 DEF Landed, Edited, MembersEdited
        <3> QED BY <2>1, <2>2, <2>4, <3>1 DEF UserEdit, OrgEdit, WalletsReleased
    <2>5. CASE q.kind # "deleteOrg" /\ db'.user[u] = db.user[u]
        BY <2>1, <2>2, <2>5 DEF OrgEdit, WalletsReleased
    <2>6. CASE q.kind # "deleteOrg" /\ db'.user[u] # db.user[u]
        <3>1. ~Live(o)
            BY <2>1, <2>6 DEF OrgEdit, Live
        <3>2. CASE q.kind \in {"firstLogin", "invite"}
            BY <2>1, <2>6, <3>2 DEF UserEdit
        <3>3. CASE q.kind \in {"createUser", "tenantUser", "removeUser", "deleteUser"}
            BY <2>1, <2>3, <2>6, <3>3 DEF UserEdit, Admitted, Scope
        <3>4. CASE q.kind = "appUser"
            <4>1. u = q.user /\ q.org = o
                BY <2>1, <2>6, <3>4 DEF UserEdit
            <4> QED BY <2>2, <2>6, <3>1, <3>4, <4>1 DEF Current, Subjects
        <3>5. CASE q.kind = "addUser"
            <4>1. u = q.user /\ q.org = o
                BY <2>1, <2>6, <3>5 DEF UserEdit
            <4> QED BY <2>2, <2>6, <3>1, <3>5, <4>1 DEF Current, Subjects, MayJoin
        <3>6. CASE q.kind = "updateUser"
            <4>1. u = q.user /\ db.user[u].org = o
                BY <2>1, <2>6, <3>6 DEF UserEdit
            <4> QED BY <2>2, <2>3, <2>6, <3>1, <3>6, <4>1 DEF Current, Subjects
        <3>7. CASE q.kind = "appWallet"
            <4>1. u = q.user /\ db.user[u].org = o
                BY <2>1, <2>6, <3>7 DEF UserEdit
            <4> QED BY <2>2, <2>6, <3>1, <3>7, <4>1 DEF Current, Subjects, Member
        <3> QED BY <2>1, <2>6, <3>2, <3>3, <3>4, <3>5, <3>6, <3>7 DEF UserEdit
    <2> QED BY <2>4, <2>5, <2>6
<1>2. ASSUME NEW s \in Slots, NEW q, Cleared(s, q)
      PROVE  WalletsReleased'
    BY <1>2 DEF Cleared, WalletsReleased
<1>3. CASE db' = db /\ raced' = raced
    BY <1>3 DEF WalletsReleased
<1> QED BY <1>1, <1>2, <1>3, StepCases

\* Once an organization is deleted nothing of it authenticates or acts, ever again.
THEOREM DeletedInert == Spec => []DeletedOrgInert
<1>1. Init => WalletsReleased
    <2> SUFFICES ASSUME Init, NEW o \in Orgs
                 PROVE  db.org[o] # "deleted"
        BY DEF WalletsReleased
    <2>1. PICK start \in Starts : db = start.db
        BY DEF Init
    <2> QED BY <2>1, StartsOrderly DEF Orderly
<1>2. AdminInvariant /\ WalletsReleased /\ [Next]_vars => WalletsReleased'
    BY WalletsReleasedStep
<1>3. WalletsReleased => DeletedOrgInert
    <2> SUFFICES ASSUME WalletsReleased, NEW o \in Orgs, db.org[o] = "deleted"
                 PROVE  /\ \A p \in Apps : ~ActsFor(p, o) /\ (db.app[p].owner = o => ~Authenticates(p))
                        /\ \A u \in Users : db.user[u].org = o /\ db.user[u].wallet => u \in raced
        BY DEF DeletedOrgInert
    <2>1. ~Live(o) /\ o # Zone
        BY AdminAssumption DEF Live
    <2> QED BY <2>1 DEF ActsFor, Authenticates, WalletsReleased
<1> QED BY <1>1, <1>2, <1>3, AdminTypeCorrect, PTL DEF Spec

LEMMA RoleScopeLanded ==
    ASSUME AdminInvariant, RoleScope, NEW s \in Slots, NEW q, Landed(s, q)
    PROVE  RoleScope'
<1> SUFFICES ASSUME NEW h \in db'.holds, h[1] \notin raced', h[2] \notin raced'
             PROVE  Assignable(h[2], db.user[h[1]].org)'
    BY DEF RoleScope
<1>1. h[1] \in Users /\ h[2] \in Roles
    <2>1. db'.holds \in SUBSET (Users \X Roles)
        BY DEF Landed, Edited, WritesOwnTables, Tables
    <2> QED BY <2>1
<1>2. /\ Admitted(q) /\ UserEdit(q, h[1]) /\ RoleEdit(q, h[2]) /\ db'.multi = db.multi
      /\ HoldKept(q, h) /\ (h \notin db.holds => HoldGained(q, h))
    BY <1>1 DEF Landed, Edited, MembersEdited
<1>3. /\ h[1] \notin raced /\ h[2] \notin raced
      /\ db' # db /\ (h[1] \in Subjects(q) \/ h[2] \in Subjects(q)) => Current(q)
    BY DEF Landed
<1>4. db'.role[h[2]].state = "live"
    <2>1. HeldRows'
        BY HeldRowsKept DEF AdminInvariant, Landed
    <2> QED BY <2>1 DEF HeldRows, LiveRole
<1>5. h \in db.holds =>
        /\ db.user[h[1]].live /\ db.role[h[2]].state = "live"
        /\ db.role[h[2]].org = db.user[h[1]].org \/ (~db.multi /\ db.role[h[2]].org = Zone)
    BY <1>3 DEF RoleScope, AdminInvariant, HeldRows, Assignable, LiveRole
<1>6. db'.role[h[2]].org = db.role[h[2]].org
    <2>1. q.kind = "createRole" => db'.role[h[2]] = db.role[h[2]]
        BY <1>2, <1>5 DEF RoleEdit, HoldGained
    <2>2. q.kind = "updateRole" /\ h[2] = q.role => db' = db \/ q.moved = q.org
        BY <1>3 DEF Current, Subjects
    <2> QED BY <1>2, <1>4, <2>1, <2>2 DEF RoleEdit, Scoped
<1>7. CASE h \in db.holds
    <2>1. CASE q.kind = "addUser" /\ h[1] = q.user /\ db' # db
        <3>1. MayJoin(h[1], q.org)
            BY <1>3, <2>1 DEF Current, Subjects
        <3>2. ~db.multi /\ db.user[h[1]].org = Zone
            <4>1. <<h[1], h[2]>> \in db.holds
                <5>1. db.holds \in SUBSET (Users \X Roles)
                    BY RowsTyped DEF AdminInvariant
                <5> QED BY <1>7, <5>1
            <4>2. h[2] \in RolesOf(h[1])
                BY <1>1, <4>1 DEF RolesOf
            <4> QED BY <3>1, <4>2 DEF MayJoin
        <3> QED BY <1>2, <1>4, <1>5, <1>6, <1>7, <3>2 DEF Assignable, LiveRole
    <2>2. CASE q.kind = "removeUser" /\ h[1] = q.user /\ db' # db
        <3>1. db.user[h[1]].org = q.org /\ db.role[h[2]].org # q.org
            BY <1>2, <1>3, <2>2 DEF Current, Subjects, HoldKept
        <3> QED BY <1>2, <1>4, <1>5, <1>6, <1>7, <2>2, <3>1 DEF Assignable, LiveRole, UserEdit
    <2>3. db'.user[h[1]].org = db.user[h[1]].org \/ (q.kind \in {"addUser", "removeUser"} /\ h[1] = q.user /\ db' # db)
        BY <1>2, <1>5, <1>7 DEF UserEdit, HoldKept
    <2>4. CASE db'.user[h[1]].org = db.user[h[1]].org
        BY <1>2, <1>4, <1>5, <1>6, <1>7, <2>4 DEF Assignable, LiveRole
    <2> QED BY <2>1, <2>2, <2>3, <2>4
<1>8. CASE h \notin db.holds
    <2>0. HoldGained(q, h) /\ db' # db
        BY <1>2, <1>8
    <2>1. CASE q.kind = "firstLogin"
        <3>1. db.role[h[2]].org = q.org /\ db'.user[h[1]].org = q.org
            BY <1>2, <2>0, <2>1 DEF HoldGained, Admitted, Granted, OrgRole
        <3> QED BY <1>2, <1>4, <1>6, <3>1 DEF Assignable, LiveRole
    <2>2. CASE q.kind = "elevate"
        <3>1. Assignable(h[2], db.user[h[1]].org) /\ db'.user[h[1]] = db.user[h[1]]
            BY <1>2, <2>0, <2>2 DEF HoldGained, MayHold, UserEdit
        <3> QED BY <1>2, <1>4, <1>6, <3>1 DEF Assignable, LiveRole
    <2>3. CASE q.kind \in {"createUser", "appUser", "tenantUser"}
        <3>1. Assignable(h[2], q.org) /\ db'.user[h[1]].org = q.org
            BY <2>0, <2>3 DEF HoldGained, RolesMatch
        <3> QED BY <1>2, <1>4, <1>6, <3>1 DEF Assignable, LiveRole
    <2>4. CASE q.kind = "updateUser"
        <3>1. h[1] = q.user /\ h[2] \in q.roles
            BY <2>0, <2>4 DEF HoldGained
        <3>2. db.user[h[1]].org = q.org /\ Assignable(h[2], q.org)
            BY <1>3, <2>0, <2>4, <3>1 DEF Current, Subjects, RolesMatch
        <3>3. db'.user[h[1]].org = db.user[h[1]].org
            BY <1>2, <2>4 DEF UserEdit
        <3> QED BY <1>2, <1>4, <1>6, <3>2, <3>3 DEF Assignable, LiveRole
    <2>5. CASE q.kind = "commitRoles"
        <3>1. h[1] = q.user /\ h[2] \in q.add
            BY <2>0, <2>5 DEF HoldGained
        <3>2. db.user[h[1]].org = q.org /\ db.role[h[2]].org = q.org
            BY <1>2, <1>3, <2>0, <2>5, <3>1 DEF Current, Subjects, Member, Admitted, Granted, OrgRole
        <3>3. db'.user[h[1]] = db.user[h[1]]
            BY <1>2, <2>5 DEF UserEdit
        <3> QED BY <1>2, <1>4, <1>6, <3>2, <3>3 DEF Assignable, LiveRole
    <2> QED BY <2>0, <2>1, <2>2, <2>3, <2>4, <2>5 DEF HoldGained
<1> QED BY <1>7, <1>8

LEMMA RoleScopeStep ==
    ASSUME AdminInvariant, RoleScope, [Next]_vars
    PROVE  RoleScope'
<1>1. ASSUME NEW s \in Slots, NEW q, Cleared(s, q)
      PROVE  RoleScope'
    BY <1>1 DEF Cleared, RoleScope, Assignable, LiveRole
<1>2. CASE db' = db /\ raced' = raced
    BY <1>2 DEF RoleScope, Assignable, LiveRole
<1> QED BY <1>1, <1>2, StepCases, RoleScopeLanded

\* Users hold roles of their own organization, but for what was overtaken on its way.
THEOREM RolesInScope == Spec => []RoleScope
<1>1. Init => RoleScope
    <2> SUFFICES ASSUME Init, NEW h \in db.holds
                 PROVE  Assignable(h[2], db.user[h[1]].org)
        BY DEF RoleScope
    <2>1. PICK start \in Starts : db = start.db
        BY DEF Init
    <2> QED BY <2>1, StartsOrderly DEF Orderly, Assignable, LiveRole
<1>2. AdminInvariant /\ RoleScope /\ [Next]_vars => RoleScope'
    BY RoleScopeStep
<1> QED BY <1>1, <1>2, AdminTypeCorrect, PTL DEF Spec

-----------------------------------------------------------------------------
(* The flags that an operator reserves to itself                           *)

\* The three kinds of flags, one by one.
LEMMA FlagsInForce ==
    /\ \A p \in FnPerms : db.fn[p].live /\ db.fn[p].umbrella /\ Owned(db, db.fn[p].addr) =>
         <<"umbrella", p, db.fn[p].addr>> \in InForce(db)
    /\ \A a \in Addrs : Owned(db, a) /\ db.contract[a].disclose => <<"disclose", a, a>> \in InForce(db)
    /\ \A a \in Addrs : Owned(db, a) /\ db.contract[a].template \in db.umbrella =>
         <<"template", db.contract[a].template, a>> \in InForce(db)
BY DEF InForce, Umbrellas, Disclosed, FromTemplate

LEMMA FlagCasesAfter ==
    ASSUME NEW f \in InForce(db)'
    PROVE  \/ \E p \in FnPerms : /\ f = <<"umbrella", p, db'.fn[p].addr>>
                                 /\ db'.fn[p].live /\ db'.fn[p].umbrella /\ Owned(db, db.fn[p].addr)'
           \/ \E a \in Addrs : f = <<"disclose", a, a>> /\ Owned(db, a)' /\ db'.contract[a].disclose
           \/ \E a \in Addrs : /\ f = <<"template", db'.contract[a].template, a>>
                               /\ Owned(db, a)' /\ db'.contract[a].template \in db'.umbrella
BY DEF InForce, Umbrellas, Disclosed, FromTemplate

\* What comes from an organization's admin brings no flag into force.
LEMMA NoNewFlag ==
    ASSUME AdminInvariant, NEW s \in Slots, NEW q, Landed(s, q), ~q.zone,
           NEW f \in InForce(db)', f[2] \notin raced', f[3] \notin raced'
    PROVE  f \in InForce(db)
<1>0. SUFFICES ASSUME db' # db
               PROVE  f \in InForce(db)
    BY DEF InForce, Umbrellas, Disclosed, FromTemplate, Owned
<1>1. /\ Admitted(q) /\ Scope(q) /\ RegistryEdited(q) /\ db'.umbrella = db.umbrella
      /\ q.kind \notin {"template", "noTemplate"}
    BY DEF Landed, Edited, Admitted, Scope, RegistryEdited
<1>2. f[2] \in Subjects(q) \/ f[3] \in Subjects(q) => Current(q)
    BY <1>0 DEF Landed
<1>3. /\ \A p \in FnPerms : db.fn[p].addr \in Addrs /\ (db.fn[p].live => db.contract[db.fn[p].addr].live)
      /\ \A p \in FnPerms : db'.fn[p].addr \in Addrs /\ (db'.fn[p].live => db'.contract[db'.fn[p].addr].live)
    <2>1. Anchored /\ Anchored'
        BY AnchoredKept DEF AdminInvariant, Landed
    <2>2. db \in Tables /\ db' \in Tables
        BY DEF AdminInvariant, Landed, Edited, WritesOwnTables
    <2>3. \A p \in FnPerms : db.fn[p] \in FnRows /\ db'.fn[p] \in FnRows
        BY <2>2 DEF Tables
    <2> QED BY <2>1, <2>3 DEF Anchored, FnRows
<1>4. \A a \in Addrs : ContractEdit(q, a)
    BY <1>1 DEF RegistryEdited
\* A contract that is owned after it, and was not raced, was owned, and its flags were the same.
<1>5. ASSUME NEW a \in Addrs, Owned(db, a)', a \notin raced'
      PROVE  /\ Owned(db, a) \/ q.kind \in {"postContract", "putContract"}
             /\ db'.contract[a].disclose => Owned(db, a) /\ db.contract[a].disclose
             /\ db'.contract[a].template \in db.umbrella =>
                  Owned(db, a) /\ db'.contract[a].template = db.contract[a].template
    <2>1. a \in Subjects(q) => Current(q)
        BY <1>0, <1>5 DEF Landed
    <2>2. CASE db'.contract[a] = db.contract[a]
        BY <1>5, <2>2 DEF Owned
    <2>3. CASE db'.contract[a] # db.contract[a] /\ q.kind = "postContract"
        BY <1>1, <1>4, <2>1, <2>3 DEF ContractEdit, Subjects, Current, TemplateAllowed, Scope
    <2>4. CASE db'.contract[a] # db.contract[a] /\ q.kind = "putContract"
        <3>1. a = q.to /\ db'.contract[a].template = q.template /\ db'.contract[a].disclose = q.disclose
              /\ db'.contract[a].owner = OwnerOf(q.addr) /\ db.contract[q.addr].live
            BY <1>4, <1>5, <2>4 DEF ContractEdit, Owned
        <3>2. AsRead(q)
            BY <1>1, <2>1, <2>4, <3>1 DEF Subjects, Current
        <3> QED BY <1>1, <1>5, <2>4, <3>1, <3>2 DEF AsRead, TemplateAllowed, Scope, Owned, OwnerOf
    <2> QED BY <1>1, <1>4, <1>5, <2>2, <2>3, <2>4 DEF ContractEdit, Owned
<1>6. CASE \E a \in Addrs : f = <<"disclose", a, a>> /\ Owned(db, a)' /\ db'.contract[a].disclose
    <2>1. PICK a \in Addrs : f = <<"disclose", a, a>> /\ Owned(db, a)' /\ db'.contract[a].disclose
        BY <1>6
    <2>2. a \notin raced'
        BY <2>1
    <2> QED BY <1>5, <2>1, <2>2, FlagsInForce
<1>7. CASE \E a \in Addrs : /\ f = <<"template", db'.contract[a].template, a>>
                            /\ Owned(db, a)' /\ db'.contract[a].template \in db'.umbrella
    <2>1. PICK a \in Addrs : /\ f = <<"template", db'.contract[a].template, a>>
                             /\ Owned(db, a)' /\ db'.contract[a].template \in db'.umbrella
        BY <1>7
    <2>2. a \notin raced'
        BY <2>1
    <2> QED BY <1>1, <1>5, <2>1, <2>2, FlagsInForce
<1>8. CASE \E p \in FnPerms : /\ f = <<"umbrella", p, db'.fn[p].addr>>
                              /\ db'.fn[p].live /\ db'.fn[p].umbrella /\ Owned(db, db.fn[p].addr)'
    <2>1. PICK p \in FnPerms : /\ f = <<"umbrella", p, db'.fn[p].addr>>
                               /\ db'.fn[p].live /\ db'.fn[p].umbrella /\ Owned(db, db.fn[p].addr)'
        BY <1>8
    <2>2. p \in Subjects(q) => Current(q)
        BY <1>2, <2>1
    <2>3. FnEdit(q, p) /\ NoneLeft(q)
        BY <1>1 DEF RegistryEdited
    <2>4. db.fn[p].live /\ db.fn[p].umbrella /\ db'.fn[p].addr = db.fn[p].addr
        <3>1. CASE q.kind = "putContract" /\ db.fn[p].addr = q.addr /\ db'.fn[p] # db.fn[p]
            <4>1. db.fn[p].live /\ db'.fn[p].addr = q.to /\ db.fn[p].umbrella
                BY <2>1, <2>3, <3>1 DEF FnEdit
            <4>2. p \in Subjects(q)
                BY <3>1, <4>1 DEF Subjects, OnAddr
            <4>3. AsRead(q)
                BY <1>1, <2>2, <3>1, <4>2 DEF Current
            <4> QED BY <3>1, <4>1, <4>3 DEF AsRead, OnAddr
        <3>2. CASE q.kind = "putFn" /\ db'.fn[p] # db.fn[p]
            <4>1. p = q.fn /\ db.fn[p].live /\ db'.fn[p].addr = db.fn[p].addr /\ db'.fn[p].umbrella = q.umbrella
                BY <2>3, <3>2 DEF FnEdit
            <4> QED BY <1>1, <2>1, <2>2, <3>2, <4>1 DEF Current, Subjects, Scope
        <3> QED BY <1>1, <2>1, <2>3, <3>1, <3>2 DEF FnEdit, Scope, SameRow
    <2>5. Owned(db, db.fn[p].addr)
        <3>1. db.contract[db.fn[p].addr].live /\ db'.contract[db.fn[p].addr].live /\ db'.contract[db.fn[p].addr].owner # Zone
            BY <1>3, <2>1, <2>4 DEF Owned
        <3>2. db'.contract[db.fn[p].addr].owner = db.contract[db.fn[p].addr].owner
            BY <1>3, <1>4, <3>1 DEF ContractEdit, OwnerOf
        <3> QED BY <3>1, <3>2 DEF Owned
    <2> QED BY <2>1, <2>4, <2>5, FlagsInForce
<1> QED BY <1>6, <1>7, <1>8, FlagCasesAfter, SMTT(60)

LEMMA OnlyApprovedStep ==
    ASSUME AdminInvariant, OnlyApproved, [Next]_vars
    PROVE  OnlyApproved'
<1> SUFFICES ASSUME NEW f \in InForce(db)', f[2] \notin raced', f[3] \notin raced'
             PROVE  f \in approved'
    BY DEF OnlyApproved
<1>1. ASSUME NEW s \in Slots, NEW q, Landed(s, q)
      PROVE  f \in approved'
    <2>1. raced \subseteq raced'
        BY <1>1 DEF Landed
    <2>2. f \in InForce(db) => f \in approved
        BY <2>1 DEF OnlyApproved
    <2>3. ~q.zone => f \in InForce(db)
        BY <1>1, NoNewFlag
    <2> QED BY <1>1, <2>2, <2>3 DEF Landed
<1>2. ASSUME NEW s \in Slots, NEW q, Cleared(s, q)
      PROVE  f \in approved'
    <2>1. f \in InForce(db)
        <3>1. \A a \in Addrs : Owned(db, a)' = Owned(db, a)
            BY <1>2 DEF Cleared, Owned
        <3>2. CASE \E p \in FnPerms : /\ f = <<"umbrella", p, db'.fn[p].addr>>
                                      /\ db'.fn[p].live /\ db'.fn[p].umbrella /\ Owned(db, db.fn[p].addr)'
            <4>1. PICK p \in FnPerms : /\ f = <<"umbrella", p, db'.fn[p].addr>>
                                       /\ db'.fn[p].live /\ db'.fn[p].umbrella /\ Owned(db, db.fn[p].addr)'
                BY <3>2
            <4>2. db.fn[p].live /\ db.fn[p].umbrella /\ db'.fn[p].addr = db.fn[p].addr
                BY <1>2, <4>1 DEF Cleared
            <4>3. Owned(db, db.fn[p].addr)
                BY <1>2, <4>1, <4>2 DEF Cleared, Owned
            <4> QED BY <4>1, <4>2, <4>3, FlagsInForce
        <3>3. db'.contract = db.contract /\ db'.umbrella = db.umbrella
            BY <1>2 DEF Cleared
        <3> QED BY <3>1, <3>2, <3>3, FlagCasesAfter, FlagsInForce
    <2> QED BY <1>2, <2>1 DEF Cleared, OnlyApproved
<1>3. CASE db' = db /\ raced' = raced /\ approved' = approved
    BY <1>3 DEF OnlyApproved, InForce, Umbrellas, Disclosed, FromTemplate, Owned
<1> QED BY <1>1, <1>2, <1>3, StepCases

\* Nothing an organization's admin sends, however it races with the operator's decisions, sets a
\* flag that the operator reserves to itself.
THEOREM FlagsApproved == Spec => []OnlyApproved
<1>1. Init => OnlyApproved
    BY DEF Init, OnlyApproved
<1>2. AdminInvariant /\ OnlyApproved /\ [Next]_vars => OnlyApproved'
    BY OnlyApprovedStep
<1> QED BY <1>1, <1>2, AdminTypeCorrect, PTL DEF Spec

-----------------------------------------------------------------------------
(* What an organization's admin is told                                    *)

LEMMA ListsOwn ==
    ASSUME NEW o, NEW what \in Lists
    PROVE  Listed(what, o) \subseteq RowsOf(o)
<1>1. Listed("users", o) \subseteq RowsOf(o) /\ Listed("admins", o) \subseteq RowsOf(o)
    BY DEF Listed, UsersFor, AdminsFor, Member, RowsOf
<1>2. Listed("roles", o) \subseteq RowsOf(o)
    BY DEF Listed, RolesFor, RoleOwnedBy, RowsOf
<1>3. Listed("apps", o) \subseteq RowsOf(o)
    BY DEF Listed, VisibleToOrg, RowsOf
<1>4. Listed("contracts", o) \subseteq RowsOf(o)
    BY DEF Listed, ContractsFor, OwnsContract, RowsOf
<1> QED BY <1>1, <1>2, <1>3, <1>4 DEF Lists

LEMMA AnswersOwn ==
    ASSUME AdminInvariant, NEW q, Admitted(q)
    PROVE  Answer(q) \subseteq RowsOf(q.org)
<1>1. CASE q.kind = "readFns"
    <2>1. ASSUME NEW p \in OnAddr(q.addr)
          PROVE  p \in FnPerms /\ (OwnerOf(db.fn[p].addr) = q.org \/ db.fn[p].addr \in raced)
        BY <1>1 DEF OnAddr, AdminInvariant, Anchored, Admitted, Granted
    <2>2. Answer(q) = {"fn"} \X OnAddr(q.addr)
        BY <1>1 DEF Answer
    <2> QED BY <2>1, <2>2 DEF RowsOf
<1>2. CASE q.kind = "readEvs"
    <2>1. ASSUME NEW p \in EventsOn(q.addr)
          PROVE  p \in EvPerms /\ (OwnerOf(db.ev[p].addr) = q.org \/ db.ev[p].addr \in raced)
        BY <1>2 DEF EventsOn, AdminInvariant, Anchored, Admitted, Granted
    <2>2. Answer(q) = {"ev"} \X EventsOn(q.addr)
        BY <1>2 DEF Answer
    <2> QED BY <2>1, <2>2 DEF RowsOf
<1>3. CASE q.kind = "readRole"
    <2>1. Answer(q) = {"fn"} \X FnsOfRole(q.role, q.org)
        BY <1>3 DEF Answer
    <2> QED BY <2>1 DEF FnsOfRole, RowsOf
<1>4. CASE q.kind = "readKeys"
    <2>1. Answer(q) = {"key"} \X ({q.app} \cap db.keys)
        BY <1>4 DEF Answer
    <2>2. q.app \in Apps /\ (q.app \in db.keys => db.app[q.app].owner = q.org)
        BY <1>4 DEF AdminInvariant, KeysLive, Admitted, Granted, Shape
    <2> QED BY <2>1, <2>2 DEF RowsOf
<1>5. CASE q.kind = "list"
    <2>1. Answer(q) = Listed(q.what, q.org) /\ q.what \in Lists
        BY <1>5 DEF Answer, Admitted, Shape
    <2> QED BY <2>1, ListsOwn
<1>6. CASE q.kind \notin {"readFns", "readEvs", "readRole", "readKeys", "list"}
    BY <1>6 DEF Answer
<1> QED BY <1>1, <1>2, <1>3, <1>4, <1>5, <1>6

\* Whenever the answer to an organization's admin is read, it tells of its organization only.
THEOREM AdminToldOnlyOwn == Spec => []TellsOnlyOwn
<1>1. AdminInvariant => TellsOnlyOwn
    <2> SUFFICES ASSUME AdminInvariant, NEW s \in Slots, req[s] # Idle, ~req[s].zone
                 PROVE  Answer(req[s]) \subseteq RowsOf(req[s].org)
        BY DEF TellsOnlyOwn
    <2>1. Admitted(req[s])
        BY DEF AdminInvariant, Outstanding, Admitted
    <2> QED BY <2>1, AnswersOwn
<1> QED BY <1>1, AdminTypeCorrect, PTL

-----------------------------------------------------------------------------
(* What an organization's admin may change                                 *)

\* A request that is over has landed, or has written nothing.
LEMMA LandsCases ==
    ASSUME AdminInvariant, [Next]_vars, NEW s \in Slots, Lands(s), NEW q, req[s] = q
    PROVE  Landed(s, q) \/ db' = db
<1>1. Ready /\ DOMAIN req = Slots /\ req = [t \in Slots |-> req[t]]
    BY DEF AdminInvariant, Ready, Outstanding
<1>2. req[s] # Idle /\ req'[s] = Idle
    BY DEF Lands
<1>3. ASSUME NEW t \in Slots, Landing(t)
      PROVE  Landed(s, q)
    <2>1. t = s
        BY <1>1, <1>2, <1>3 DEF Landing, Land
    <2> QED BY <1>3, <2>1, LandedOf
<1>4. ASSUME NEW t \in Slots, Clears(t)
      PROVE  FALSE
    <2>1. t = s
        BY <1>1, <1>2, <1>4 DEF Clears
    <2>2. Shape(q) /\ q.kind = "clearUmbrella" /\ q # Idle
        BY <1>4, <2>1 DEF Clears, AdminInvariant, Outstanding, Idle
    <2>3. q = [kind |-> q.kind, by |-> q.by, zone |-> q.zone, org |-> q.org, addr |-> q.addr, to |-> q.to,
               template |-> q.template, disclose |-> q.disclose, read |-> q.read]
        BY <2>2 DEF Shape
    <2>4. [q EXCEPT !.kind = "putContract"].kind = "putContract"
        BY <2>3
    <2>5. req'[s] = [q EXCEPT !.kind = "putContract"]
        BY <1>1, <1>4, <2>1 DEF Clears
    <2> QED BY <1>2, <2>4, <2>5 DEF Idle
<1>5. ASSUME NEW t \in Slots, Arrival(t) \/ Proceeds(t)
      PROVE  db' = db
    BY <1>5 DEF Arrival, Arrive, Proceeds
<1>6. WriteEvent \/ UNCHANGED vars => db' = db
    BY DEF WriteEvent, vars
<1> QED BY <1>1, <1>3, <1>4, <1>5, <1>6, NextCases

\* What comes from an organization is not an operator's, and is about an organization.
LEMMA NotOperators ==
    ASSUME NEW q, Admitted(q), ~q.zone
    PROVE  /\ q.kind \notin {"createOrg", "updateOrg", "deleteOrg", "seedAdmin", "withdrawAdmin",
                             "setIdp", "elevate",
                             "addUser", "createUser", "updateUser", "deleteUser", "linkApp",
                             "updateTenant",
                             "tenantUser", "template", "noTemplate"}
           /\ q.kind # "firstLogin" => q.org \in Orgs /\ q.org # Zone
BY DEF Admitted, Scope, Shape, Scopes

LEMMA ReachStep ==
    ASSUME AdminInvariant, [Next]_vars, NEW s \in Slots, Lands(s)
    PROVE  GrantsOwn(s)
<1>1. PICK q : req[s] = q
    OBVIOUS
<1> DEFINE own(R) == \A r \in R : db.role[r].org = q.org
<1> SUFFICES ASSUME db' # db
             PROVE  /\ \A h \in db'.holds \ db.holds :
                         IF q.kind = "appUser" THEN Assignable(h[2], q.org)
                         ELSE own({h[2]}) /\ (db.role[h[2]].admin => db.role[h[2]].system)
                    /\ \A p \in Apps : \A r \in db'.app[p].roles \ db.app[p].roles :
                         db.role[r].org = q.org /\ ~db.role[r].admin
                    /\ \A p \in FnPerms : own(db'.fn[p].roles \ db.fn[p].roles)
                    /\ \A p \in EvPerms : own(db'.ev[p].roles \ db.ev[p].roles)
    BY <1>1 DEF GrantsOwn
<1>2. Landed(s, q) /\ Admitted(q) /\ ~q.zone
    BY <1>1, LandsCases DEF Lands, Landed
<1>3. ASSUME NEW h \in db'.holds \ db.holds
      PROVE  IF q.kind = "appUser" THEN Assignable(h[2], q.org)
             ELSE own({h[2]}) /\ (db.role[h[2]].admin => db.role[h[2]].system)
    <2>1. HoldGained(q, h)
        BY <1>2 DEF Landed, Edited, MembersEdited
    <2>2. CASE q.kind = "appUser"
        BY <2>1, <2>2 DEF HoldGained, RolesMatch
    <2>3. CASE q.kind = "firstLogin" /\ h[2] \in q.roles
        BY <1>2, <2>3 DEF Admitted, Granted, OrgRole
    <2>4. CASE q.kind = "commitRoles" /\ h[2] \in q.add
        BY <1>2, <2>4 DEF Admitted, Granted, OrgRole
    <2> QED BY <1>2, <2>1, <2>2, <2>3, <2>4, NotOperators DEF HoldGained
<1>4. ASSUME NEW p \in Apps, NEW r \in db'.app[p].roles \ db.app[p].roles
      PROVE  db.role[r].org = q.org /\ ~db.role[r].admin
    <2>1. AppEdit(q, p)
        BY <1>2 DEF Landed, Edited, AppsEdited
    <2>2. CASE q.kind = "createApp" /\ r \in q.roles
        BY <1>2, <2>2 DEF Admitted, Granted, OrgRole
    <2>3. CASE q.kind = "updateApp" /\ MayAttach(q.roles \ db.app[p].roles, q.org) /\ r \in q.roles
        BY <2>3 DEF MayAttach, RoleOwnedBy
    <2> QED BY <1>2, <2>1, <2>2, <2>3, NotOperators DEF AppEdit
<1>5. ASSUME NEW p \in FnPerms, NEW r \in db'.fn[p].roles \ db.fn[p].roles
      PROVE  db.role[r].org = q.org
    <2>1. FnEdit(q, p)
        BY <1>2 DEF Landed, Edited, RegistryEdited
    <2>2. q.kind \in {"postFn", "putFn"} /\ r \in q.roles
        BY <2>1 DEF FnEdit
    <2> QED BY <1>2, <2>2 DEF Admitted, Granted, OrgRole
<1>6. ASSUME NEW p \in EvPerms, NEW r \in db'.ev[p].roles \ db.ev[p].roles
      PROVE  db.role[r].org = q.org
    <2>1. EvEdit(q, p)
        BY <1>2 DEF Landed, Edited, RegistryEdited
    <2>2. q.kind \in {"postEv", "putEv"} /\ r \in q.roles
        BY <2>1 DEF EvEdit
    <2> QED BY <1>2, <2>2 DEF Admitted, Granted, OrgRole
<1> QED BY <1>3, <1>4, <1>5, <1>6

\* What an organization's admin, or a credential of it, hands out stays below the ceiling.
THEOREM AdminGrantsWithinReach == Spec => GrantsWithinReach
<1>1. AdminInvariant /\ [Next]_vars => \A s \in Slots : Lands(s) => GrantsOwn(s)
    BY ReachStep
<1> QED BY <1>1, AdminTypeCorrect, PTL DEF Spec, GrantsWithinReach

LEMMA ComesFromFresh ==
    ASSUME AdminInvariant, RoleScope, [Next]_vars, NEW s \in Slots, Comes(s)
    PROVE  ActsAtHome(s)
<1>1. Ready /\ DOMAIN req = Slots /\ req = [t \in Slots |-> req[t]]
    BY DEF AdminInvariant, Ready, Outstanding
<1>2. Arrival(s)
    <2>1. req[s] = Idle /\ req'[s] # Idle
        BY DEF Comes
    <2>2. ASSUME NEW t \in Slots, Landing(t) \/ Proceeds(t) \/ Clears(t)
          PROVE  FALSE
        <3>1. t # s
            BY <2>1, <2>2 DEF Landing, Proceeds, Clears, Idle
        <3> QED BY <1>1, <2>1, <2>2, <3>1 DEF Landing, Land, Proceeds, Clears
    <2>3. ASSUME NEW t \in Slots, Arrival(t), t # s
          PROVE  FALSE
        BY <1>1, <2>1, <2>3 DEF Arrival, Arrive
    <2>4. ~(WriteEvent \/ UNCHANGED vars)
        BY <2>1 DEF WriteEvent, vars
    <2> QED BY <1>1, <2>2, <2>3, <2>4, NextCases
<1>3. PICK q : Fresh(q) /\ req'[s] = q
    BY <1>1, <1>2 DEF Arrival, Arrive
<1>4. SUFFICES ASSUME db.user[q.by].live, ({q.by} \cup RolesOf(q.by)) \cap raced = {}
               PROVE  db.user[q.by].org = q.org
    BY <1>3 DEF ActsAtHome
<1>5. q.by \in Users /\ ~ZoneAdmin(q.by) /\ OrgAdmin(q.by, q.org)
    BY <1>3, <1>4 DEF Comes, Fresh, Sent
<1>6. PICK r \in RolesOf(q.by) : db.role[r].admin /\ db.role[r].org \in {Zone, q.org}
    BY <1>5 DEF OrgAdmin
<1>7. db.role[r].org # Zone
    BY <1>5, <1>6 DEF ZoneAdmin, OrgAdmin
<1>8. <<q.by, r>> \in db.holds /\ q.by \notin raced /\ r \notin raced
    BY <1>4 DEF RolesOf
<1>9. Assignable(r, db.user[q.by].org)
    BY <1>8 DEF RoleScope
<1> QED BY <1>6, <1>7, <1>9 DEF Assignable

LEMMA UsersOwn ==
    ASSUME db \in Tables, NEW s \in Slots, NEW q, Landed(s, q), ~q.zone,
           NEW u \in Users, db'.user[u] # db.user[u]
    PROVE  db.user[u].org = q.org \/ u \in raced' \/ ~db.user[u].live
<1>1. UserEdit(q, u) /\ Admitted(q) /\ (~Current(q) => Subjects(q) \subseteq raced')
    BY DEF Landed, Edited, MembersEdited
<1>2. CASE q.kind = "removeUser" /\ u = q.user
    BY <1>1, <1>2 DEF Current, Subjects
<1>3. CASE q.kind = "appWallet" /\ u = q.user
    BY <1>1, <1>3 DEF Current, Subjects, Member
<1> QED BY <1>1, <1>2, <1>3, NotOperators DEF UserEdit

LEMMA HoldsOwn ==
    ASSUME AdminInvariant, NEW s \in Slots, NEW q, Landed(s, q), ~q.zone,
           NEW h \in SymmetricDiff(db.holds, db'.holds)
    PROVE  db.role[h[2]].org = q.org \/ (q.kind = "appUser" /\ Assignable(h[2], q.org))
<1>1. Admitted(q) /\ MembersEdited(q)
    BY DEF Landed, Edited
<1>2. CASE h \in db'.holds \ db.holds
    <2>1. HoldGained(q, h)
        BY <1>1, <1>2 DEF MembersEdited
    <2>2. CASE q.kind = "firstLogin" /\ h[2] \in q.roles
        BY <1>1, <2>2 DEF Admitted, Granted, OrgRole
    <2>3. CASE q.kind = "commitRoles" /\ h[2] \in q.add
        BY <1>1, <2>3 DEF Admitted, Granted, OrgRole
    <2>4. CASE q.kind = "appUser"
        BY <2>1, <2>4 DEF HoldGained, RolesMatch
    <2> QED BY <1>1, <2>1, <2>2, <2>3, <2>4, NotOperators DEF HoldGained
<1>3. CASE h \in db.holds \ db'.holds
    <2>1. HoldLost(q, h) /\ db.user[h[1]].live
        BY <1>1, <1>3 DEF MembersEdited, AdminInvariant, HeldRows
    <2>2. CASE q.kind = "commitRoles" /\ h[2] \in q.del
        BY <1>1, <2>2 DEF Admitted, Granted, OrgRole
    <2> QED BY <1>1, <2>1, <2>2, NotOperators DEF HoldLost, Scoped
<1> QED BY <1>2, <1>3 DEF SymmetricDiff

LEMMA RolesOwn ==
    ASSUME db \in Tables, NEW s \in Slots, NEW q, Landed(s, q), ~q.zone,
           NEW r \in Roles, db'.role[r] # db.role[r]
    PROVE  db'.role[r].org = q.org
<1>1. Admitted(q) /\ RoleEdit(q, r)
    BY DEF Landed, Edited, MembersEdited
<1>2. CASE q.kind = "firstLogin" /\ r \in q.roles
    BY <1>1, <1>2 DEF Admitted, Granted, OrgRole, RoleEdit
<1>3. CASE q.kind = "updateRole"
    BY <1>1, <1>3, NotOperators DEF RoleEdit, Admitted, Scope
<1> QED BY <1>1, <1>2, <1>3 DEF RoleEdit, Scoped

\* A row that keeps its roles, or loses one that is deleted, is not changed.
Kept(row, new) == new = [row EXCEPT !.roles = {r \in @ : db'.role[r].state # "gone"}]

LEMMA RolesStillThere ==
    ASSUME AdminInvariant, NEW s \in Slots, NEW q, Landed(s, q)
    PROVE  /\ Attached'
           /\ q.kind = "deleteRole" /\ db' # db =>
                \A R \in SUBSET Roles : (\A r \in R : db.role[r].state # "gone") =>
                    {r \in R : db'.role[r].state # "gone"} = R \ {q.role}
<1>1. Attached'
    BY AttachedKept DEF AdminInvariant, Landed
<1>2. ASSUME q.kind = "deleteRole", db' # db, NEW R \in SUBSET Roles, \A r \in R : db.role[r].state # "gone"
      PROVE  {r \in R : db'.role[r].state # "gone"} = R \ {q.role}
    <2>1. db'.role[q.role].state = "gone"
        BY <1>2 DEF Landed, DroppedEverywhere
    <2>2. \A r \in Roles : r # q.role => db'.role[r] = db.role[r]
        BY <1>2 DEF Landed, Edited, MembersEdited, RoleEdit
    <2> QED BY <1>2, <2>1, <2>2
<1> QED BY <1>1, <1>2

LEMMA AppsOwn ==
    ASSUME AdminInvariant, NEW s \in Slots, NEW q, Landed(s, q), ~q.zone,
           NEW p \in Apps, ~Kept(db.app[p], db'.app[p])
    PROVE  (IF LiveApp(p) THEN db ELSE db').app[p].owner = q.org
<1>1. Admitted(q) /\ AppEdit(q, p)
    BY DEF Landed, Edited, AppsEdited
<1>2. db.app[p] \in AppRows /\ db'.app[p] \in AppRows
    BY DEF AdminInvariant, Landed, Edited, WritesOwnTables, Tables
<1>3. db'.app[p] # db.app[p]
    <2>1. SUFFICES ASSUME db'.app[p] = db.app[p]
                   PROVE  Kept(db.app[p], db'.app[p])
        OBVIOUS
    <2>2. \A r \in db'.app[p].roles : db'.role[r].state # "gone"
        BY RolesStillThere DEF Attached
    <2>3. {r \in db.app[p].roles : db'.role[r].state # "gone"} = db.app[p].roles
        BY <2>1, <2>2
    <2> QED BY <1>2, <2>1, <2>3 DEF Kept, AppRows
<1>4. q.kind # "deleteRole"
    <2> SUFFICES ASSUME q.kind = "deleteRole"
                 PROVE  Kept(db.app[p], db'.app[p])
        OBVIOUS
    <2>1. /\ db'.app[p].state = db.app[p].state /\ db'.app[p].owner = db.app[p].owner
          /\ db'.app[p].links = db.app[p].links /\ db'.app[p].roles = db.app[p].roles \ {q.role}
        BY <1>1, <1>3 DEF AppEdit
    <2>2. db.app[p].roles \in SUBSET Roles /\ \A r \in db.app[p].roles : db.role[r].state # "gone"
        BY <1>2 DEF AppRows, AdminInvariant, Attached
    <2>3. {r \in db.app[p].roles : db'.role[r].state # "gone"} = db.app[p].roles \ {q.role}
        BY <1>3, <2>2, RolesStillThere
    <2> QED BY <1>2, <2>1, <2>3 DEF Kept, AppRows
<1> QED BY <1>1, <1>3, <1>4, NotOperators DEF AppEdit, LiveApp

LEMMA FnsOwn ==
    ASSUME AdminInvariant, NEW s \in Slots, NEW q, Landed(s, q), ~q.zone,
           NEW p \in FnPerms, ~Kept(db.fn[p], db'.fn[p])
    PROVE  OwnerOf(q.addr) = q.org \/ p \in raced'
<1>1. Admitted(q) /\ FnEdit(q, p)
    BY DEF Landed, Edited, RegistryEdited
<1>2. db.fn[p] \in FnRows /\ db'.fn[p] \in FnRows
    BY DEF AdminInvariant, Landed, Edited, WritesOwnTables, Tables
<1>3. db'.fn[p] # db.fn[p]
    <2>1. SUFFICES ASSUME db'.fn[p] = db.fn[p]
                   PROVE  Kept(db.fn[p], db'.fn[p])
        OBVIOUS
    <2>2. \A r \in db'.fn[p].roles : db'.role[r].state # "gone"
        BY RolesStillThere DEF Attached
    <2>3. {r \in db.fn[p].roles : db'.role[r].state # "gone"} = db.fn[p].roles
        BY <2>1, <2>2
    <2> QED BY <1>2, <2>1, <2>3 DEF Kept, FnRows
<1>4. q.kind # "deleteRole"
    <2> SUFFICES ASSUME q.kind = "deleteRole"
                 PROVE  Kept(db.fn[p], db'.fn[p])
        OBVIOUS
    <2>1. /\ db'.fn[p].live = db.fn[p].live /\ db'.fn[p].addr = db.fn[p].addr /\ db'.fn[p].orgOnly = db.fn[p].orgOnly /\ db'.fn[p].umbrella = db.fn[p].umbrella
          /\ db'.fn[p].roles = db.fn[p].roles \ {q.role}
        BY <1>1, <1>3 DEF FnEdit, SameRow
    <2>2. db.fn[p].roles \in SUBSET Roles /\ \A r \in db.fn[p].roles : db.role[r].state # "gone"
        BY <1>2 DEF FnRows, AdminInvariant, Attached
    <2>3. {r \in db.fn[p].roles : db'.role[r].state # "gone"} = db.fn[p].roles \ {q.role}
        BY <1>3, <2>2, RolesStillThere
    <2> QED BY <1>2, <2>1, <2>3 DEF Kept, FnRows
<1>5. p \in Subjects(q) => p \in raced' \/ Current(q)
    BY <1>3 DEF Landed
<1>6. CASE q.kind = "putContract" /\ db.fn[p].live /\ db.fn[p].addr = q.addr
    <2>1. p \in Subjects(q)
        BY <1>6 DEF Subjects, OnAddr
    <2> QED BY <1>5, <1>6, <2>1 DEF Current, AsRead, OwnsContract
<1>7. CASE q.kind = "deleteContract" /\ db.fn[p].live /\ db.fn[p].addr = q.addr
    <2>1. p \in Subjects(q)
        BY <1>7 DEF Subjects, OnAddr
    <2> QED BY <1>5, <1>7, <2>1 DEF Current, StillOwns, OwnsContract
<1>8. CASE q.kind \in {"postFn", "putFn", "deleteFn"} /\ p = q.fn
    BY <1>5, <1>8 DEF Subjects, Current, StillOwns, OwnsContract
<1> QED BY <1>1, <1>3, <1>4, <1>6, <1>7, <1>8 DEF FnEdit

LEMMA EvsOwn ==
    ASSUME AdminInvariant, NEW s \in Slots, NEW q, Landed(s, q), ~q.zone,
           NEW p \in EvPerms, ~Kept(db.ev[p], db'.ev[p])
    PROVE  OwnerOf(q.addr) = q.org \/ p \in raced'
<1>1. Admitted(q) /\ EvEdit(q, p)
    BY DEF Landed, Edited, RegistryEdited
<1>2. db.ev[p] \in EvRows /\ db'.ev[p] \in EvRows
    BY DEF AdminInvariant, Landed, Edited, WritesOwnTables, Tables
<1>3. db'.ev[p] # db.ev[p]
    <2>1. SUFFICES ASSUME db'.ev[p] = db.ev[p]
                   PROVE  Kept(db.ev[p], db'.ev[p])
        OBVIOUS
    <2>2. \A r \in db'.ev[p].roles : db'.role[r].state # "gone"
        BY RolesStillThere DEF Attached
    <2>3. {r \in db.ev[p].roles : db'.role[r].state # "gone"} = db.ev[p].roles
        BY <2>1, <2>2
    <2> QED BY <1>2, <2>1, <2>3 DEF Kept, EvRows
<1>4. q.kind # "deleteRole"
    <2> SUFFICES ASSUME q.kind = "deleteRole"
                 PROVE  Kept(db.ev[p], db'.ev[p])
        OBVIOUS
    <2>1. /\ db'.ev[p].live = db.ev[p].live /\ db'.ev[p].addr = db.ev[p].addr /\ db'.ev[p].orgOnly = db.ev[p].orgOnly
          /\ db'.ev[p].roles = db.ev[p].roles \ {q.role}
        BY <1>1, <1>3 DEF EvEdit, SameRow
    <2>2. db.ev[p].roles \in SUBSET Roles /\ \A r \in db.ev[p].roles : db.role[r].state # "gone"
        BY <1>2 DEF EvRows, AdminInvariant, Attached
    <2>3. {r \in db.ev[p].roles : db'.role[r].state # "gone"} = db.ev[p].roles \ {q.role}
        BY <1>3, <2>2, RolesStillThere
    <2> QED BY <1>2, <2>1, <2>3 DEF Kept, EvRows
<1>5. p \in Subjects(q) => p \in raced' \/ Current(q)
    BY <1>3 DEF Landed
<1>6. CASE q.kind = "putContract" /\ db.ev[p].live /\ db.ev[p].addr = q.addr
    <2>1. p \in Subjects(q)
        BY <1>6 DEF Subjects, EventsOn
    <2> QED BY <1>5, <1>6, <2>1 DEF Current, AsRead, OwnsContract
<1>7. CASE q.kind = "deleteContract" /\ db.ev[p].live /\ db.ev[p].addr = q.addr
    <2>1. p \in Subjects(q)
        BY <1>7 DEF Subjects, EventsOn
    <2> QED BY <1>5, <1>7, <2>1 DEF Current, StillOwns, OwnsContract
<1>8. CASE q.kind \in {"postEv", "putEv", "deleteEv"} /\ p = q.ev
    BY <1>5, <1>8 DEF Subjects, Current, StillOwns, OwnsContract
<1> QED BY <1>1, <1>3, <1>4, <1>6, <1>7, <1>8 DEF EvEdit

LEMMA ContractsOwn ==
    ASSUME AdminInvariant, NEW s \in Slots, NEW q, Landed(s, q), ~q.zone,
           NEW a \in Addrs, db'.contract[a] # db.contract[a], a \notin raced'
    PROVE  /\ db.contract[a].live => OwnerOf(a) = q.org
           /\ db'.contract[a].live => db'.contract[a].owner = q.org
<1>1. Admitted(q) /\ ContractEdit(q, a) /\ q.kind \notin {"template", "noTemplate"}
    BY NotOperators DEF Landed, Edited, RegistryEdited
<1>2. a \in Subjects(q) => Current(q)
    BY DEF Landed
<1>3. CASE q.kind = "postContract"
    BY <1>1, <1>3 DEF ContractEdit
<1>4. CASE q.kind = "putContract"
    <2>1. a \in Subjects(q)
        BY <1>1, <1>4 DEF ContractEdit, Subjects
    <2>2. OwnsContract(q.org, q.addr)
        BY <1>2, <1>4, <2>1 DEF Current, AsRead
    <2> QED BY <1>1, <1>4, <2>2 DEF ContractEdit, OwnsContract, OwnerOf
<1>5. CASE q.kind = "deleteContract"
    <2>1. a = q.addr /\ a \in Subjects(q) /\ ~db'.contract[a].live
        BY <1>1, <1>5 DEF ContractEdit, Subjects
    <2> QED BY <1>2, <1>5, <2>1 DEF Current, StillOwns, OwnsContract
<1> QED BY <1>1, <1>3, <1>4, <1>5 DEF ContractEdit

LEMMA AccessOwn ==
    ASSUME AdminInvariant, NEW s \in Slots, NEW q, Landed(s, q), ~q.zone,
           NEW p \in SymmetricDiff(db.keys, db'.keys) \cup SymmetricDiff(db.ips, db'.ips)
    PROVE  db.app[p].owner = q.org
<1>1. Admitted(q) /\ AccessEdited(q)
    BY DEF Landed, Edited, AppsEdited
<1>2. CASE q.kind = "access" /\ p = q.app /\ LiveApp(p)
    BY <1>1, <1>2, NotOperators DEF Admitted, Granted
<1> QED BY <1>1, <1>2, NotOperators DEF AccessEdited, SymmetricDiff

LEMMA LandsOwn ==
    ASSUME AdminInvariant, [Next]_vars, NEW s \in Slots, Lands(s)
    PROVE  ChangesOwn(s)
<1>1. PICK q : req[s] = q
    OBVIOUS
<1>2. db \in Tables /\ ~q.zone /\ (Landed(s, q) \/ db' = db)
    BY <1>1, LandsCases DEF Lands, AdminInvariant
<1>3. CASE db' = db
    <2>1. ASSUME NEW p \in Apps
          PROVE  Kept(db.app[p], db'.app[p])
        <3>1. db.app[p] \in AppRows
            BY <1>2, RowsTyped
        <3>2. {r \in db.app[p].roles : db'.role[r].state # "gone"} = db.app[p].roles
            BY <1>3 DEF AdminInvariant, Attached
        <3> QED BY <1>3, <3>1, <3>2 DEF Kept, AppRows
    <2>2. ASSUME NEW p \in FnPerms
          PROVE  Kept(db.fn[p], db'.fn[p])
        <3>1. db.fn[p] \in FnRows
            BY <1>2, RowsTyped
        <3>2. {r \in db.fn[p].roles : db'.role[r].state # "gone"} = db.fn[p].roles
            BY <1>3 DEF AdminInvariant, Attached
        <3> QED BY <1>3, <3>1, <3>2 DEF Kept, FnRows
    <2>3. ASSUME NEW p \in EvPerms
          PROVE  Kept(db.ev[p], db'.ev[p])
        <3>1. db.ev[p] \in EvRows
            BY <1>2, RowsTyped
        <3>2. {r \in db.ev[p].roles : db'.role[r].state # "gone"} = db.ev[p].roles
            BY <1>3 DEF AdminInvariant, Attached
        <3> QED BY <1>3, <3>1, <3>2 DEF Kept, EvRows
    <2> QED BY <1>3, <2>1, <2>2, <2>3 DEF ChangesOwn, SymmetricDiff, Kept
<1>4. CASE Landed(s, q)
    <2>1. \A u \in Users : db'.user[u] # db.user[u] => db.user[u].org = q.org \/ u \in raced' \/ ~db.user[u].live
        BY <1>2, <1>4, UsersOwn
    <2>2. \A h \in SymmetricDiff(db.holds, db'.holds) :
            db.role[h[2]].org = q.org \/ (q.kind = "appUser" /\ Assignable(h[2], q.org))
        BY <1>2, <1>4, HoldsOwn
    <2>3. \A r \in Roles : db'.role[r] # db.role[r] => db'.role[r].org = q.org
        BY <1>2, <1>4, RolesOwn
    <2>4. \A p \in Apps : ~Kept(db.app[p], db'.app[p]) => (IF LiveApp(p) THEN db ELSE db').app[p].owner = q.org
        BY <1>2, <1>4, AppsOwn
    <2>5. \A p \in SymmetricDiff(db.keys, db'.keys) \cup SymmetricDiff(db.ips, db'.ips) : db.app[p].owner = q.org
        BY <1>2, <1>4, AccessOwn
    <2>6. \A a \in Addrs : db'.contract[a] # db.contract[a] /\ a \notin raced' =>
            /\ db.contract[a].live => OwnerOf(a) = q.org
            /\ db'.contract[a].live => db'.contract[a].owner = q.org
        BY <1>2, <1>4, ContractsOwn
    <2>7. \A p \in FnPerms : ~Kept(db.fn[p], db'.fn[p]) => OwnerOf(q.addr) = q.org \/ p \in raced'
        BY <1>2, <1>4, FnsOwn
    <2>8. \A p \in EvPerms : ~Kept(db.ev[p], db'.ev[p]) => OwnerOf(q.addr) = q.org \/ p \in raced'
        BY <1>2, <1>4, EvsOwn
    <2> QED BY <1>1, <2>1, <2>2, <2>3, <2>4, <2>5, <2>6, <2>7, <2>8 DEF ChangesOwn, Kept
<1> QED BY <1>2, <1>3, <1>4

\* Who is no operator acts at home, and changes rows of its own organization only.
THEOREM AdminOwnRowsOnly == Spec => OwnRowsOnly
<1>1. AdminInvariant /\ RoleScope /\ [Next]_vars =>
        \A s \in Slots : (Comes(s) => ActsAtHome(s)) /\ (Lands(s) => ChangesOwn(s))
    BY ComesFromFresh, LandsOwn
<1> QED BY <1>1, AdminTypeCorrect, RolesInScope, PTL DEF Spec, OwnRowsOnly

-----------------------------------------------------------------------------
(* What the audit trail tells an organization of the credentials           *)

\* The rows of the audit trail.
EventRows ==
    [action : {"createApp", "updateApp", "deleteApp", "linkApp"}, app : Apps, owner : Scopes,
     affected : SUBSET Orgs, added : SUBSET Orgs, removed : SUBSET Orgs, alone : BOOLEAN]

\* The rows about a credential, written or not; whether they leave no doubt about their order, and
\* about who owned it.
About(p) == {e \in events \cup Range(trail) : e.app = p}

Ordered(p) == \A e \in About(p) : e.alone

Regular(o, p) == \A e \in About(p) : e.owner = Zone \/ (e.owner = o /\ e.action # "linkApp")

\* What the organization has been told of a credential once what waits is written.
Tells(e, o, p) == e.app = p /\ o \in e.affected /\ Says(e, o) # "same"

WillTell(o, p) ==
    \/ \E e \in events : Tells(e, o, p) /\ Says(e, o) = "there"
    \/ (\A e \in events : ~Tells(e, o, p)) /\ LastTold(o, p)

\* Nothing refers to an organization that is not there yet.
NoneYet ==
    \A o \in Orgs : db.org[o] = "none" =>
        /\ \A p \in Apps : o \notin db.app[p].links /\ o # db.app[p].owner
        /\ \A e \in events \cup Range(trail) : o \notin e.affected

\* The last of the rows that tell of a credential is one of them.
HasLast == \A o \in Orgs, p \in Apps : ToldOf(o, p) # {} => Max(ToldOf(o, p)) \in ToldOf(o, p)

\* Where the rows leave no doubt, at most one waits, and written they tell what is visible.
Follows(o, p) ==
    Ordered(p) =>
        /\ \A e, f \in events : e.app = p /\ f.app = p => e = f
        /\ Live(o) /\ Regular(o, p) => (WillTell(o, p) <=> p \in VisibleToOrg(o))

\* The invariant of the trail.
TrailInvariant ==
    /\ events \in SUBSET EventRows /\ trail \in Seq(EventRows)
    /\ NoneYet /\ HasLast
    /\ \A o \in Orgs, p \in Apps : Follows(o, p)

\* What a request emits, by its kind.
LEMMA EventFacts ==
    ASSUME NEW q, NEW e \in AuditEvents(q, db')
    PROVE  /\ db' # db /\ q.kind \in {"createApp", "updateApp", "deleteApp", "linkApp"}
           /\ e.action = q.kind /\ e.app = q.app
           /\ e.alone = (\A f \in events : f.app # q.app)
           /\ LiveApp(q.app) => e.owner = db.app[q.app].owner
           /\ ~LiveApp(q.app) => e.owner = db'.app[q.app].owner
           /\ q.kind = "linkApp" =>
                /\ e.added = LiveLinks(db', q.app) \ LiveLinks(db, q.app)
                /\ e.removed = LiveLinks(db, q.app) \ LiveLinks(db', q.app)
                /\ e.affected = (({db.app[q.app].owner} \ {Zone}) \cup e.added \cup e.removed) \cup ({q.org} \ {Zone})
           /\ q.kind # "linkApp" => e.added = {} /\ e.removed = {}
           /\ q.kind = "deleteApp" => e.affected = Audience(db, q.app) \cup ({q.org} \ {Zone})
           /\ q.kind \in {"createApp", "updateApp"} => e.affected = Audience(db', q.app) \cup ({q.org} \ {Zone})
<1> DEFINE details == Details(q, db')
           owner == (IF LiveApp(q.app) THEN db ELSE db').app[q.app].owner
<1>1. /\ db' # db /\ q.kind \in {"createApp", "updateApp", "deleteApp", "linkApp"}
      /\ e = [action |-> q.kind, app |-> q.app, owner |-> owner,
              affected |-> details.affected \cup ({q.org} \ {Zone}),
              added |-> details.added, removed |-> details.removed,
              alone |-> \A f \in events : f.app # q.app]
    BY DEF AuditEvents
<1>2. /\ LiveApp(q.app) => owner = db.app[q.app].owner
      /\ ~LiveApp(q.app) => owner = db'.app[q.app].owner
    OBVIOUS
<1>3. /\ q.kind = "linkApp" =>
           /\ details.added = LiveLinks(db', q.app) \ LiveLinks(db, q.app)
           /\ details.removed = LiveLinks(db, q.app) \ LiveLinks(db', q.app)
           /\ details.affected = ({db.app[q.app].owner} \ {Zone}) \cup details.added \cup details.removed
      /\ q.kind # "linkApp" => details.added = {} /\ details.removed = {}
      /\ q.kind = "deleteApp" => details.affected = Audience(db, q.app)
      /\ q.kind \in {"createApp", "updateApp"} => details.affected = Audience(db', q.app)
    BY <1>1 DEF Details, RelinkDetails, Unlinked
<1> HIDE DEF details, owner
<1> QED BY <1>1, <1>2, <1>3

LEMMA EventTyped ==
    ASSUME db \in Tables, db' \in Tables, NEW q, q # Idle, Shape(q), NEW e \in AuditEvents(q, db')
    PROVE  e \in EventRows
<1> DEFINE details == Details(q, db')
           owner == (IF LiveApp(q.app) THEN db ELSE db').app[q.app].owner
<1>1. /\ q.kind \in {"createApp", "updateApp", "deleteApp", "linkApp"}
      /\ e = [action |-> q.kind, app |-> q.app, owner |-> owner,
              affected |-> details.affected \cup ({q.org} \ {Zone}),
              added |-> details.added, removed |-> details.removed,
              alone |-> \A f \in events : f.app # q.app]
    BY DEF AuditEvents
<1>2. q.app \in Apps /\ q.org \in Scopes
    BY <1>1 DEF Shape
<1>3. /\ db.app[q.app].owner \in Scopes /\ db.app[q.app].links \in SUBSET Orgs
      /\ db'.app[q.app].owner \in Scopes /\ db'.app[q.app].links \in SUBSET Orgs
    BY <1>2 DEF Tables, AppRows
<1>4. owner \in Scopes
    BY <1>3
<1>5. details.affected \in SUBSET Orgs /\ details.added \in SUBSET Orgs /\ details.removed \in SUBSET Orgs
    BY <1>3 DEF Details, RelinkDetails, Unlinked, LiveLinks, Audience, Scopes
<1>6. details.affected \cup ({q.org} \ {Zone}) \in SUBSET Orgs
    BY <1>2, <1>5 DEF Scopes
<1> HIDE DEF details, owner
<1> QED BY <1>1, <1>2, <1>4, <1>5, <1>6 DEF EventRows

LEMMA OneEvent ==
    ASSUME NEW q
    PROVE  \A e, f \in AuditEvents(q, db') : e = f
BY DEF AuditEvents

-----------------------------------------------------------------------------
(* A row is written                                                        *)

\* Writing a row: what was told before stays told, and the new row is the last.
LEMMA ToldWritten ==
    ASSUME TrailInvariant, NEW e \in events, trail' = Append(trail, e), NEW o \in Orgs, NEW p \in Apps
    PROVE  /\ Tells(e, o, p) => ToldOf(o, p)' = ToldOf(o, p) \cup {Len(trail) + 1}
           /\ ~Tells(e, o, p) => ToldOf(o, p)' = ToldOf(o, p)
<1> DEFINE n == Len(trail) + 1
<1>1. trail \in Seq(EventRows) /\ e \in EventRows
    BY DEF TrailInvariant
<1>2. /\ DOMAIN trail = 1..Len(trail) /\ DOMAIN trail' = 1..n /\ Len(trail) \in Nat
      /\ \A i \in DOMAIN trail : trail'[i] = trail[i]
      /\ trail'[n] = e
    BY <1>1
<1>3. DOMAIN trail' = DOMAIN trail \cup {n} /\ n \notin DOMAIN trail
    BY <1>2
<1> HIDE DEF n
<1>4. ToldOf(o, p)' = {i \in DOMAIN trail' : o \in trail'[i].affected /\ trail'[i].app = p /\ Says(trail'[i], o) # "same"}
    BY DEF ToldOf, RowsFor, Says
<1>5. ToldOf(o, p) = {i \in DOMAIN trail : o \in trail[i].affected /\ trail[i].app = p /\ Says(trail[i],
                      o) # "same"}
    BY DEF ToldOf, RowsFor
<1>6. \A i : i \in ToldOf(o, p)' <=> (i \in ToldOf(o, p) \/ (i = n /\ Tells(e, o, p)))
    <2> TAKE i
    <2>1. CASE i \in DOMAIN trail
        BY <1>2, <1>3, <1>4, <1>5, <2>1
    <2>2. CASE i = n
        BY <1>2, <1>3, <1>4, <1>5, <2>2 DEF Tells
    <2>3. CASE i \notin DOMAIN trail /\ i # n
        BY <1>3, <1>4, <1>5, <2>3
    <2> QED BY <2>1, <2>2, <2>3
<1> QED BY <1>6 DEF n

LEMMA LastWritten ==
    ASSUME TrailInvariant, NEW e \in events, trail' = Append(trail, e), NEW o \in Orgs, NEW p \in Apps
    PROVE  /\ ToldOf(o, p)' # {} => Max(ToldOf(o, p)') \in ToldOf(o, p)'
           /\ Tells(e, o, p) => (LastTold(o, p)' <=> Says(e, o) = "there")
           /\ ~Tells(e, o, p) => (LastTold(o, p)' <=> LastTold(o, p))
<1> DEFINE n == Len(trail) + 1
<1>1. trail \in Seq(EventRows) /\ e \in EventRows
    BY DEF TrailInvariant
<1>2. /\ DOMAIN trail = 1..Len(trail) /\ Len(trail) \in Nat
      /\ \A i \in DOMAIN trail : trail'[i] = trail[i]
      /\ trail'[n] = e
    BY <1>1
<1>3. ToldOf(o, p) \subseteq DOMAIN trail
    BY DEF ToldOf, RowsFor
<1>4. LastTold(o, p)' <=> (ToldOf(o, p)' # {} /\ Says(trail'[Max(ToldOf(o, p)')], o) = "there")
    BY DEF LastTold, Says, Max, ToldOf, RowsFor
<1>5. CASE Tells(e, o, p)
    <2>1. ToldOf(o, p)' = ToldOf(o, p) \cup {n}
        BY <1>5, ToldWritten
    <2>2. \A i \in ToldOf(o, p)' : n >= i
        BY <1>2, <1>3, <2>1
    <2>3. \A x \in ToldOf(o, p)' : (\A y \in ToldOf(o, p)' : x >= y) => x = n
        BY <1>2, <1>3, <2>1
    <2>4. Max(ToldOf(o, p)') = n
        BY <2>1, <2>2, <2>3 DEF Max
    <2> QED BY <1>2, <1>4, <1>5, <2>1, <2>4
<1>6. CASE ~Tells(e, o, p)
    <2>1. ToldOf(o, p)' = ToldOf(o, p)
        BY <1>6, ToldWritten
    <2>2. ToldOf(o, p) # {} => Max(ToldOf(o, p)) \in ToldOf(o, p)
        BY DEF TrailInvariant, HasLast
    <2>3. ToldOf(o, p) # {} => trail'[Max(ToldOf(o, p))] = trail[Max(ToldOf(o, p))]
        BY <1>2, <1>3, <2>2
    <2> QED BY <1>4, <1>6, <2>1, <2>2, <2>3 DEF LastTold
<1> QED BY <1>5, <1>6

LEMMA FollowsWritten ==
    ASSUME TrailInvariant, NEW e \in events, trail' = Append(trail, e), events' = events \ {e}, db' = db
    PROVE  TrailInvariant'
<1>1. trail \in Seq(EventRows) /\ e \in EventRows /\ events' \in SUBSET EventRows /\ trail' \in Seq(EventRows)
    BY DEF TrailInvariant
<1>2. events' \cup Range(trail') = events \cup Range(trail)
    <2>1. Range(trail') = Range(trail) \cup {e}
        <3>1. DOMAIN trail = 1..Len(trail) /\ DOMAIN trail' = 1..(Len(trail) + 1) /\ Len(trail) \in Nat
            BY <1>1
        <3>2. (\A i \in DOMAIN trail : i \in DOMAIN trail' /\ trail'[i] = trail[i]) /\ trail'[Len(trail) + 1] = e
            BY <1>1, <3>1
        <3>3. \A i \in DOMAIN trail' : i \in DOMAIN trail \/ i = Len(trail) + 1
            BY <3>1
        <3>4. Len(trail) + 1 \in DOMAIN trail'
            BY <3>1
        <3> QED BY <3>2, <3>3, <3>4 DEF Range
    <2> QED BY <2>1
<1>3. \A p \in Apps : About(p)' = About(p)
    BY <1>2 DEF About
<1>4. NoneYet'
    BY <1>2 DEF TrailInvariant, NoneYet
<1>5. HasLast'
    <2>1. \A o \in Orgs, p \in Apps : ToldOf(o, p)' # {} => Max(ToldOf(o, p)') \in ToldOf(o, p)'
        BY LastWritten
    <2> QED BY <2>1 DEF HasLast
<1>6. ASSUME NEW o \in Orgs, NEW p \in Apps, Ordered(p)'
      PROVE  /\ \A f, g \in events' : f.app = p /\ g.app = p => f = g
             /\ (Live(o) /\ Regular(o, p))' => (WillTell(o, p)' <=> (p \in VisibleToOrg(o))')
    <2>1. Ordered(p) /\ (Regular(o, p)' <=> Regular(o, p)) /\ (Live(o)' <=> Live(o))
        BY <1>3, <1>6 DEF Ordered, Regular, Live
    <2>2. /\ \A f, g \in events : f.app = p /\ g.app = p => f = g
          /\ Live(o) /\ Regular(o, p) => (WillTell(o, p) <=> p \in VisibleToOrg(o))
        BY <2>1 DEF TrailInvariant, Follows
    <2>3. (p \in VisibleToOrg(o))' <=> p \in VisibleToOrg(o)
        BY DEF VisibleToOrg, LiveApp
    <2>4. WillTell(o, p)' <=> (\/ \E f \in events' : Tells(f, o, p) /\ Says(f, o) = "there"
                               \/ (\A f \in events' : ~Tells(f, o, p)) /\ LastTold(o, p)')
        BY DEF WillTell, Tells, Says
    <2>5. /\ Tells(e, o, p) => (LastTold(o, p)' <=> Says(e, o) = "there")
          /\ ~Tells(e, o, p) => (LastTold(o, p)' <=> LastTold(o, p))
        BY LastWritten
    <2>6. \A f \in events : Tells(e, o, p) /\ Tells(f, o, p) => f = e
        BY <2>2 DEF Tells
    <2>7. WillTell(o, p)' <=> WillTell(o, p)
        BY <2>4, <2>5, <2>6 DEF WillTell
    <2> QED BY <2>1, <2>2, <2>3, <2>7
<1> QED BY <1>1, <1>4, <1>5, <1>6 DEF TrailInvariant, Follows

-----------------------------------------------------------------------------
(* A request lands                                                         *)

\* A request lands: what is about a credential stays, and its own event comes with it.
LEMMA LandedTyped ==
    ASSUME AdminInvariant, NEW s \in Slots, NEW q, Landed(s, q)
    PROVE  /\ db \in Tables /\ db' \in Tables /\ q # Idle /\ Shape(q) /\ Scope(q) /\ Granted(q)
           /\ \A o \in Orgs : OrgEdit(q, o)
           /\ \A p \in Apps : /\ AppEdit(q, p)
                              /\ db.app[p].owner \in Scopes /\ db.app[p].links \in SUBSET Orgs
                              /\ db'.app[p].owner \in Scopes /\ db'.app[p].links \in SUBSET Orgs
           /\ events' \cup Range(trail') = events \cup Range(trail) \cup AuditEvents(q, db')
<1>1. /\ db \in Tables /\ db' \in Tables /\ q # Idle /\ Shape(q) /\ Scope(q) /\ Granted(q)
      /\ \A o \in Orgs : OrgEdit(q, o)
      /\ \A p \in Apps : AppEdit(q, p)
    BY DEF AdminInvariant, Landed, Edited, Admitted, WritesOwnTables, AppsEdited
<1>2. \A p \in Apps : db.app[p] \in AppRows /\ db'.app[p] \in AppRows
    BY <1>1 DEF Tables
<1>3. events' \cup Range(trail') = events \cup Range(trail) \cup AuditEvents(q, db')
    BY DEF Landed
<1> QED BY <1>1, <1>2, <1>3 DEF AppRows

LEMMA NoneYetLanded ==
    ASSUME AdminInvariant, NoneYet, NEW s \in Slots, NEW q, Landed(s, q)
    PROVE  NoneYet'
<1> SUFFICES ASSUME NEW o \in Orgs, db'.org[o] = "none"
             PROVE  /\ \A p \in Apps : o \notin db'.app[p].links /\ o # db'.app[p].owner
                    /\ \A e \in events' \cup Range(trail') : o \notin e.affected
    BY DEF NoneYet
<1>1. OrgEdit(q, o) /\ Shape(q) /\ Scope(q) /\ Granted(q) /\ \A p \in Apps : AppEdit(q, p)
    BY LandedTyped
<1>2. db.org[o] = "none" /\ o # Zone
    BY <1>1, AdminAssumption DEF OrgEdit
<1>3. /\ \A p \in Apps : o \notin db.app[p].links /\ o # db.app[p].owner
      /\ \A e \in events \cup Range(trail) : o \notin e.affected
    BY <1>2 DEF NoneYet
<1>4. q.kind \in {"createApp", "updateApp", "deleteApp"} => o # q.org
    BY <1>1, <1>2 DEF Granted
<1>5. q.kind = "createApp" => o \notin q.links
    BY <1>1, <1>2 DEF Granted
<1>6. ASSUME NEW p \in Apps
      PROVE  o \notin db'.app[p].links /\ o # db'.app[p].owner
    <2>1. AppEdit(q, p)
        BY <1>1
    <2> QED BY <1>2, <1>3, <1>4, <1>5, <2>1 DEF AppEdit, Live
<1>7. ASSUME NEW e \in AuditEvents(q, db')
      PROVE  o \notin e.affected
    <2>1. q.kind \in {"createApp", "updateApp", "deleteApp", "linkApp"} /\ q.app \in Apps
        <3>1. q.kind \in {"createApp", "updateApp", "deleteApp", "linkApp"}
            BY EventFacts
        <3>2. q # Idle
            BY <3>1 DEF Idle
        <3> QED BY <1>1, <3>1, <3>2 DEF Shape
    <2>2. o \notin Audience(db, q.app) /\ o \notin Audience(db', q.app)
        BY <1>3, <1>6, <2>1 DEF Audience
    <2>3. o \notin LiveLinks(db, q.app) /\ o \notin LiveLinks(db', q.app) /\ o # db.app[q.app].owner
        BY <1>3, <1>6, <2>1 DEF LiveLinks
    <2>4. q.kind = "linkApp" => q.org = Zone
        BY <1>1 DEF Scope
    <2>5. /\ q.kind = "linkApp" =>
               /\ e.added = LiveLinks(db', q.app) \ LiveLinks(db, q.app)
               /\ e.removed = LiveLinks(db, q.app) \ LiveLinks(db', q.app)
               /\ e.affected = (({db.app[q.app].owner} \ {Zone}) \cup e.added \cup e.removed) \cup ({q.org} \ {Zone})
          /\ q.kind = "deleteApp" => e.affected = Audience(db, q.app) \cup ({q.org} \ {Zone})
          /\ q.kind \in {"createApp", "updateApp"} => e.affected = Audience(db', q.app) \cup ({q.org} \ {Zone})
        BY EventFacts
    <2>6. CASE q.kind = "linkApp"
        BY <2>3, <2>4, <2>5, <2>6
    <2>7. CASE q.kind = "deleteApp"
        BY <1>4, <2>2, <2>5, <2>7
    <2>8. CASE q.kind \in {"createApp", "updateApp"}
        BY <1>4, <2>2, <2>5, <2>8
    <2> QED BY <2>1, <2>6, <2>7, <2>8
<1>8. events' \cup Range(trail') = events \cup Range(trail) \cup AuditEvents(q, db')
    BY LandedTyped
<1> QED BY <1>3, <1>6, <1>7, <1>8

\* A request that says nothing of a credential leaves it as it was.
LEMMA FollowsUnsaid ==
    ASSUME AdminInvariant, TrailInvariant, NEW s \in Slots, NEW q, Landed(s, q), NEW o \in Orgs, NEW p \in Apps,
           \A e \in AuditEvents(q, db') : e.app # p
    PROVE  Follows(o, p)'
<1> SUFFICES ASSUME Ordered(p)'
             PROVE  /\ \A e, f \in events' : e.app = p /\ f.app = p => e = f
                    /\ (Live(o) /\ Regular(o, p))' => (WillTell(o, p)' <=> (p \in VisibleToOrg(o))')
    BY DEF Follows
<1>1. /\ events' = events \cup AuditEvents(q, db') /\ trail' = trail
      /\ db \in Tables /\ db' \in Tables /\ Shape(q) /\ OrgEdit(q, o) /\ AppEdit(q, p)
      /\ events' \cup Range(trail') = events \cup Range(trail) \cup AuditEvents(q, db')
    BY LandedTyped DEF Landed
<1>2. About(p)' = About(p)
    BY <1>1 DEF About
<1>3. Ordered(p) /\ (Regular(o, p)' <=> Regular(o, p))
    BY <1>2 DEF Ordered, Regular
<1>4. /\ \A e, f \in events : e.app = p /\ f.app = p => e = f
      /\ Live(o) /\ Regular(o, p) => (WillTell(o, p) <=> p \in VisibleToOrg(o))
    BY <1>3 DEF TrailInvariant, Follows
<1>5. db'.app[p].state = db.app[p].state /\ db'.app[p].owner = db.app[p].owner /\ db'.app[p].links = db.app[p].links
    <2>1. (q.kind \in {"createApp", "updateApp", "deleteApp", "linkApp"} /\ p = q.app) => db' = db
        BY DEF AuditEvents
    <2> QED BY <1>1, <2>1 DEF AppEdit
<1>6. (p \in VisibleToOrg(o))' <=> p \in VisibleToOrg(o)
    BY <1>5 DEF VisibleToOrg, LiveApp
<1>7. LastTold(o, p)' <=> LastTold(o, p)
    BY <1>1 DEF LastTold, ToldOf, RowsFor, Says, Max
<1>8. WillTell(o, p)' <=> (\/ \E f \in events' : Tells(f, o, p) /\ Says(f, o) = "there"
                           \/ (\A f \in events' : ~Tells(f, o, p)) /\ LastTold(o, p)')
    BY DEF WillTell, Tells, Says
<1>9. WillTell(o, p)' <=> WillTell(o, p)
    BY <1>1, <1>7, <1>8 DEF WillTell, Tells
<1>10. CASE Live(o)' => Live(o)
    BY <1>1, <1>3, <1>4, <1>6, <1>9, <1>10
<1>11. CASE db.org[o] = "none"
    <2>1. /\ o \notin db.app[p].links /\ o # db.app[p].owner
          /\ \A e \in events \cup Range(trail) : o \notin e.affected
        BY <1>11 DEF TrailInvariant, NoneYet
    <2>2. p \notin VisibleToOrg(o)
        BY <2>1 DEF VisibleToOrg
    <2>3. RowsFor(o) = {}
        BY <2>1 DEF RowsFor, Range
    <2>4. ~LastTold(o, p)
        BY <2>3 DEF LastTold, ToldOf
    <2>5. ~WillTell(o, p)
        BY <2>1, <2>4 DEF WillTell, Tells
    <2> QED BY <1>1, <1>4, <1>6, <1>9, <2>2, <2>5
<1> QED BY <1>1, <1>10, <1>11 DEF OrgEdit, Live

\* What the row about a credential says to an organization, by what was written of the credential.
LEMMA SaysVisible ==
    ASSUME AdminInvariant, NEW s \in Slots, NEW q, Landed(s, q), NEW o \in Orgs, NEW e \in AuditEvents(q, db'),
           Live(o)', e.owner = Zone \/ (e.owner = o /\ e.action # "linkApp")
    PROVE  /\ Live(o)
           /\ Tells(e, o, q.app) => (Says(e, o) = "there" <=> (q.app \in VisibleToOrg(o))')
           /\ ~Tells(e, o, q.app) => ((q.app \in VisibleToOrg(o))' <=> q.app \in VisibleToOrg(o))
<1> DEFINE p == q.app
           old == db.app[p]
           new == db'.app[p]
<1> SUFFICES /\ Live(o)
             /\ Tells(e, o, p) => (Says(e, o) = "there" <=> (p \in VisibleToOrg(o))')
             /\ ~Tells(e, o, p) => ((p \in VisibleToOrg(o))' <=> p \in VisibleToOrg(o))
    OBVIOUS
<1>1. /\ Shape(q) /\ Scope(q) /\ q # Idle /\ OrgEdit(q, o) /\ CredentialWritten(q)
      /\ q.kind \in {"createApp", "updateApp", "deleteApp", "linkApp"} /\ db' # db
    BY LandedTyped, EventFacts DEF Landed
<1>2. p \in Apps /\ q.org \in Scopes /\ o # Zone
    BY <1>1, AdminAssumption DEF Shape
<1>3. /\ old.owner \in Scopes /\ old.links \in SUBSET Orgs /\ new.owner \in Scopes /\ new.links \in SUBSET Orgs
    BY <1>2, LandedTyped
<1>4. Live(o)
    BY <1>1 DEF OrgEdit, Live
<1>5. p \in VisibleToOrg(o) <=> (old.state = "live" /\ (old.owner = o \/ (old.owner = Zone /\ o \in old.links)))
    BY <1>2 DEF VisibleToOrg, LiveApp
<1>6. (p \in VisibleToOrg(o))' <=> (new.state = "live" /\ (new.owner = o \/ (new.owner = Zone /\ o \in new.links)))
    BY <1>2 DEF VisibleToOrg, LiveApp
<1>7. /\ e.action = q.kind /\ e.app = p
      /\ old.state = "live" => e.owner = old.owner
      /\ old.state # "live" => e.owner = new.owner
      /\ q.kind = "linkApp" =>
           /\ e.added = LiveLinks(db', p) \ LiveLinks(db, p)
           /\ e.removed = LiveLinks(db, p) \ LiveLinks(db', p)
           /\ e.affected = (({old.owner} \ {Zone}) \cup e.added \cup e.removed) \cup ({q.org} \ {Zone})
      /\ q.kind # "linkApp" => e.added = {} /\ e.removed = {}
      /\ q.kind = "deleteApp" => e.affected = Audience(db, p) \cup ({q.org} \ {Zone})
      /\ q.kind \in {"createApp", "updateApp"} => e.affected = Audience(db', p) \cup ({q.org} \ {Zone})
    BY EventFacts DEF LiveApp
<1>8. /\ o \in LiveLinks(db, p) <=> o \in old.links
      /\ o \in LiveLinks(db', p) <=> o \in new.links
    BY <1>3, <1>4 DEF LiveLinks, Live
<1>9. /\ o \in Audience(db, p) <=> (old.owner = o \/ (old.owner = Zone /\ o \in old.links))
      /\ o \in Audience(db', p) <=> (new.owner = o \/ (new.owner = Zone /\ o \in new.links))
    BY <1>2, <1>3, <1>4 DEF Audience, Live
<1>10. /\ q.kind = "createApp" =>
            old.state = "none" /\ new.state = "live" /\ new.owner = q.org /\ new.links = q.links
       /\ q.kind = "updateApp" =>
            old.state = "live" /\ new.state = "live" /\ new.owner = old.owner /\ new.links = old.links
       /\ q.kind = "deleteApp" => old.state = "live" /\ new.state = "gone"
       /\ q.kind = "linkApp" =>
            old.state = "live" /\ new.state = "live" /\ new.owner = old.owner /\ new.links = q.links
    BY <1>1 DEF CredentialWritten
<1> HIDE DEF p, old, new
<1>11. Tells(e, o, p) <=> (o \in e.affected /\ Says(e, o) # "same")
    BY <1>7 DEF Tells
<1>12. CASE q.kind = "createApp"
    <2>1. Says(e, o) = "there" /\ "there" # "same"
        BY <1>7, <1>12 DEF Says
    <2>2. o \in e.affected <=> (new.owner = o \/ (new.owner = Zone /\ o \in new.links))
        BY <1>2, <1>7, <1>9, <1>10, <1>12
    <2> QED BY <1>4, <1>5, <1>6, <1>10, <1>11, <1>12, <2>1, <2>2
<1>13. CASE q.kind = "updateApp"
    <2>1. Says(e, o) = "same"
        BY <1>7, <1>13 DEF Says
    <2> QED BY <1>4, <1>5, <1>6, <1>10, <1>11, <1>13, <2>1
<1>14. CASE q.kind = "deleteApp"
    <2>1. Says(e, o) = "gone" /\ "gone" # "same" /\ "gone" # "there"
        BY <1>7, <1>14 DEF Says
    <2>2. (p \in VisibleToOrg(o)) => o \in e.affected
        BY <1>5, <1>7, <1>9, <1>14
    <2> QED BY <1>4, <1>6, <1>10, <1>11, <1>14, <2>1, <2>2
<1>15. CASE q.kind = "linkApp"
    <2>1. old.owner = Zone
        BY <1>7, <1>10, <1>15
    <2>2. /\ o \in e.added <=> (o \in new.links /\ o \notin old.links)
          /\ o \in e.removed <=> (o \in old.links /\ o \notin new.links)
        BY <1>7, <1>8, <1>15
    <2>3. /\ o \in e.added => Says(e, o) = "there"
          /\ o \notin e.added /\ o \in e.removed => Says(e, o) = "gone"
          /\ o \notin e.added /\ o \notin e.removed => Says(e, o) = "same"
        BY <1>7, <1>15 DEF Says
    <2>4. o \in e.added \/ o \in e.removed => o \in e.affected
        BY <1>7, <1>15
    <2> QED BY <1>2, <1>4, <1>5, <1>6, <1>10, <1>11, <1>15, <2>1, <2>2, <2>3, <2>4
<1>16. q.kind \in {"createApp", "updateApp", "deleteApp", "linkApp"}
    BY <1>1
<1> QED BY <1>4, <1>12, <1>13, <1>14, <1>15, <1>16

LEMMA FollowsSaid ==
    ASSUME AdminInvariant, TrailInvariant, NEW s \in Slots, NEW q, Landed(s, q), NEW o \in Orgs,
           NEW e \in AuditEvents(q, db')
    PROVE  Follows(o, q.app)'
<1> DEFINE p == q.app
<1> SUFFICES ASSUME Ordered(p)'
             PROVE  /\ \A f, g \in events' : f.app = p /\ g.app = p => f = g
                    /\ (Live(o) /\ Regular(o, p))' => (WillTell(o, p)' <=> (p \in VisibleToOrg(o))')
    BY DEF Follows
<1>1. /\ events' = events \cup AuditEvents(q, db') /\ trail' = trail
      /\ events' \cup Range(trail') = events \cup Range(trail) \cup AuditEvents(q, db')
    BY LandedTyped DEF Landed
<1>2. p \in Apps
    <2>1. q.kind \in {"createApp", "updateApp", "deleteApp", "linkApp"}
        BY EventFacts
    <2> QED BY <2>1, LandedTyped DEF Shape
<1>3. e.app = p /\ e.alone = (\A f \in events : f.app # p)
    BY EventFacts
<1>4. e \in About(p)' /\ About(p) \subseteq About(p)'
    BY <1>1, <1>3 DEF About
<1>5. Ordered(p) /\ e.alone
    BY <1>4 DEF Ordered
<1>6. (\A f \in events : f.app # p) /\ \A f \in AuditEvents(q, db') : f = e
    BY <1>3, <1>5, OneEvent
<1>7. ASSUME Live(o)', Regular(o, p)'
      PROVE  WillTell(o, p)' <=> (p \in VisibleToOrg(o))'
    <2>1. Regular(o, p) /\ (e.owner = Zone \/ (e.owner = o /\ e.action # "linkApp"))
        BY <1>4, <1>7 DEF Regular
    <2>2. /\ Live(o)
          /\ Tells(e, o, p) => (Says(e, o) = "there" <=> (p \in VisibleToOrg(o))')
          /\ ~Tells(e, o, p) => ((p \in VisibleToOrg(o))' <=> p \in VisibleToOrg(o))
        BY <1>7, <2>1, SaysVisible
    <2>3. WillTell(o, p) <=> p \in VisibleToOrg(o)
        BY <1>2, <1>5, <2>1, <2>2 DEF TrailInvariant, Follows
    <2>4. LastTold(o, p)' <=> LastTold(o, p)
        BY <1>1 DEF LastTold, ToldOf, RowsFor, Says, Max
    <2>5. WillTell(o, p)' <=> (\/ \E f \in events' : Tells(f, o, p) /\ Says(f, o) = "there"
                               \/ (\A f \in events' : ~Tells(f, o, p)) /\ LastTold(o, p)')
        BY DEF WillTell, Tells, Says
    <2>6. \A f \in events : ~Tells(f, o, p)
        BY <1>6 DEF Tells
    <2>7. WillTell(o, p) <=> LastTold(o, p)
        BY <2>6 DEF WillTell
    <2>8. /\ Tells(e, o, p) => (WillTell(o, p)' <=> Says(e, o) = "there")
          /\ ~Tells(e, o, p) => (WillTell(o, p)' <=> LastTold(o, p))
        BY <1>1, <1>6, <2>4, <2>5, <2>6
    <2> QED BY <2>2, <2>3, <2>7, <2>8
<1> QED BY <1>1, <1>6, <1>7

LEMMA TrailLanded ==
    ASSUME AdminInvariant, TrailInvariant, NEW s \in Slots, NEW q, Landed(s, q)
    PROVE  TrailInvariant'
<1>1. events' \in SUBSET EventRows /\ trail' \in Seq(EventRows)
    BY LandedTyped, EventTyped DEF Landed, TrailInvariant
<1>2. NoneYet'
    BY NoneYetLanded DEF TrailInvariant
<1>3. HasLast'
    <2>1. \A o, p : ToldOf(o, p)' = ToldOf(o, p)
        BY DEF Landed, ToldOf, RowsFor
    <2>2. \A o \in Orgs, p \in Apps : ToldOf(o, p)' # {} => Max(ToldOf(o, p)') \in ToldOf(o, p)'
        BY <2>1 DEF TrailInvariant, HasLast
    <2> QED BY <2>2 DEF HasLast
<1>4. ASSUME NEW o \in Orgs, NEW p \in Apps
      PROVE  Follows(o, p)'
    <2>1. CASE \A e \in AuditEvents(q, db') : e.app # p
        BY <2>1, FollowsUnsaid
    <2>2. CASE \E e \in AuditEvents(q, db') : e.app = p
        <3>1. PICK e \in AuditEvents(q, db') : e.app = p
            BY <2>2
        <3>2. q.app = p
            BY <3>1, EventFacts
        <3> QED BY <3>1, <3>2, FollowsSaid
    <2> QED BY <2>1, <2>2
<1> QED BY <1>1, <1>2, <1>3, <1>4 DEF TrailInvariant

-----------------------------------------------------------------------------
(* How the trail begins                                                    *)

\* SetToSeq lists a finite set, each element once.
LEMMA SeqOfSet ==
    ASSUME NEW S, IsFiniteSet(S)
    PROVE  SetToSeq(S) \in Seq(S) /\ Range(SetToSeq(S)) = S /\ IsInjective(SetToSeq(S))
<1> DEFINE n == Cardinality(S)
           f == SetToSeq(S)
<1>1. n \in Nat /\ ExistsBijection(1..n, S)
    BY FS_CardinalityType
<1>2. PICK g : g \in [1..n -> S] /\ IsInjective(g)
    BY <1>1 DEF ExistsBijection, Bijection, Injection
<1>3. f \in [1..n -> S] /\ IsInjective(f)
    BY <1>2 DEF SetToSeq
<1> HIDE DEF f, n
<1>4. Cardinality(1..n) = n
    <2>1. Cardinality(1..n) = IF 1 > n THEN 0 ELSE n - 1 + 1
        BY <1>1, FS_Interval
    <2> QED BY <1>1, <2>1
<1>5. f \in Injection(1..n, S)
    BY <1>3 DEF Injection
<1>6. f \in Surjection(1..n, S)
    BY <1>4, <1>5, FS_Injection DEF n
<1>7. Range(f) = S
    BY <1>3, <1>6 DEF Range, Surjection
<1>8. f \in Seq(S)
    BY <1>1, <1>3
<1> QED BY <1>3, <1>7, <1>8 DEF f

\* The row the trail begins with, for each credential.
FirstRow(p) ==
    [action |-> "createApp", app |-> p, owner |-> db.app[p].owner, added |-> {}, removed |-> {},
     affected |-> {o \in Orgs : p \in VisibleToOrg(o)}, alone |-> TRUE]

LEMMA FirstTrail ==
    ASSUME Init
    PROVE  /\ trail \in Seq(FirstRows) /\ Range(trail) = FirstRows /\ IsInjective(trail)
           /\ FirstRows = {FirstRow(p) : p \in Apps}
<1>1. FirstRows = {FirstRow(p) : p \in Apps}
    BY DEF FirstRows, FirstRow
<1> DEFINE f == [p \in Apps |-> FirstRow(p)]
<1>2. f \in Surjection(Apps, FirstRows)
    BY <1>1 DEF Surjection
<1>3. IsFiniteSet(FirstRows)
    BY <1>2, CredentialsFinite, FS_Surjection
<1> QED BY <1>1, <1>3, SeqOfSet DEF Init

LEMMA TrailInit ==
    ASSUME Init, AdminInvariant
    PROVE  TrailInvariant
<1>1. /\ events = {} /\ trail \in Seq(FirstRows) /\ Range(trail) = FirstRows /\ IsInjective(trail)
      /\ FirstRows = {FirstRow(p) : p \in Apps}
    BY FirstTrail DEF Init
<1>2. Orderly(db) /\ db \in Tables
    BY StartsOrderly DEF Init
<1>3. ASSUME NEW p \in Apps
      PROVE  /\ db.app[p].owner \in Scopes /\ db.app[p].links \in SUBSET Orgs
             /\ \A o \in db.app[p].links \cup ({db.app[p].owner} \ {Zone}) : db.org[o] = "live"
             /\ FirstRow(p) \in EventRows
    <2>1. db.app[p] \in AppRows
        BY <1>2 DEF Tables
    <2>2. db.app[p].owner \in Scopes /\ db.app[p].links \in SUBSET Orgs
        BY <2>1 DEF AppRows
    <2> QED BY <1>2, <2>2 DEF Orderly, FirstRow, EventRows
<1>4. events \in SUBSET EventRows /\ trail \in Seq(EventRows)
    <2>1. FirstRows \subseteq EventRows
        BY <1>1, <1>3
    <2> QED BY <1>1, <2>1
<1>5. NoneYet
    <2> SUFFICES ASSUME NEW o \in Orgs, db.org[o] = "none"
                 PROVE  /\ \A p \in Apps : o \notin db.app[p].links /\ o # db.app[p].owner
                        /\ \A e \in events \cup Range(trail) : o \notin e.affected
        BY DEF NoneYet
    <2>1. \A p \in Apps : o \notin db.app[p].links /\ o # db.app[p].owner
        BY <1>3, AdminAssumption
    <2>2. \A p \in Apps : p \notin VisibleToOrg(o)
        BY <2>1 DEF VisibleToOrg
    <2>3. \A p \in Apps : o \notin FirstRow(p).affected
        BY <2>2 DEF FirstRow
    <2> QED BY <1>1, <2>1, <2>3
<1>6. ASSUME NEW o \in Orgs, NEW p \in Apps
      PROVE  /\ ToldOf(o, p) # {} => Max(ToldOf(o, p)) \in ToldOf(o, p)
             /\ LastTold(o, p) <=> p \in VisibleToOrg(o)
    <2>1. DOMAIN trail = 1..Len(trail) /\ Len(trail) \in Nat
        BY <1>1
    <2>2. PICK i \in DOMAIN trail : trail[i] = FirstRow(p)
        <3>1. FirstRow(p) \in Range(trail)
            BY <1>1
        <3> QED BY <3>1 DEF Range
    <2>3. ASSUME NEW j \in DOMAIN trail, trail[j].app = p
          PROVE  j = i
        <3>1. trail[j] \in FirstRows
            BY <1>1 DEF Range
        <3>2. PICK r \in Apps : trail[j] = FirstRow(r)
            BY <1>1, <3>1
        <3>3. r = p
            BY <2>3, <3>2 DEF FirstRow
        <3> QED BY <1>1, <2>2, <3>2, <3>3 DEF IsInjective
    <2>4. /\ trail[i].app = p /\ Says(trail[i], o) = "there"
          /\ o \in trail[i].affected <=> p \in VisibleToOrg(o)
        BY <2>2 DEF FirstRow, Says
    <2>5. ToldOf(o, p) \subseteq {i}
        BY <2>3 DEF ToldOf, RowsFor
    <2>6. i \in ToldOf(o, p) <=> p \in VisibleToOrg(o)
        BY <2>4 DEF ToldOf, RowsFor
    <2>7. CASE i \in ToldOf(o, p)
        <3>1. ToldOf(o, p) = {i} /\ i >= i
            BY <2>1, <2>5, <2>7
        <3>2. Max(ToldOf(o, p)) = i
            BY <3>1 DEF Max
        <3> QED BY <2>4, <2>6, <2>7, <3>1, <3>2 DEF LastTold
    <2>8. CASE i \notin ToldOf(o, p)
        <3>1. ToldOf(o, p) = {}
            BY <2>5, <2>8
        <3> QED BY <2>6, <2>8, <3>1 DEF LastTold
    <2> QED BY <2>7, <2>8
<1>7. HasLast
    BY <1>6 DEF HasLast
<1>8. \A o \in Orgs, p \in Apps : WillTell(o, p) <=> LastTold(o, p)
    BY <1>1 DEF WillTell
<1>9. \A o \in Orgs, p \in Apps : Follows(o, p)
    BY <1>1, <1>6, <1>8 DEF Follows
<1> QED BY <1>4, <1>5, <1>7, <1>9 DEF TrailInvariant

LEMMA TrailStep ==
    ASSUME AdminInvariant, TrailInvariant, [Next]_vars
    PROVE  TrailInvariant'
<1>1. ASSUME NEW s \in Slots, NEW q, Landed(s, q)
      PROVE  TrailInvariant'
    BY <1>1, TrailLanded
<1>2. CASE events' = events /\ trail' = trail /\ db'.app = db.app /\ db'.org = db.org
    <2>1. NoneYet'
        BY <1>2 DEF TrailInvariant, NoneYet
    <2>2. \A o, p : ToldOf(o, p)' = ToldOf(o, p) /\ (LastTold(o, p)' <=> LastTold(o, p))
        BY <1>2 DEF ToldOf, RowsFor, LastTold, Says, Max
    <2>3. HasLast'
        <3>1. \A o \in Orgs, p \in Apps : ToldOf(o, p)' # {} => Max(ToldOf(o, p)') \in ToldOf(o, p)'
            BY <2>2 DEF TrailInvariant, HasLast
        <3> QED BY <3>1 DEF HasLast
    <2>4. ASSUME NEW o \in Orgs, NEW p \in Apps
          PROVE  Follows(o, p)'
        <3>1. WillTell(o, p)' <=> WillTell(o, p)
            BY <1>2, <2>2 DEF WillTell, Tells, Says
        <3>2. About(p)' = About(p) /\ (Live(o)' <=> Live(o)) /\ ((p \in VisibleToOrg(o))' <=> p \in VisibleToOrg(o))
            BY <1>2 DEF About, Live, VisibleToOrg, LiveApp
        <3> QED BY <1>2, <3>1, <3>2 DEF TrailInvariant, Follows, Ordered, Regular
    <2> QED BY <1>2, <2>1, <2>3, <2>4 DEF TrailInvariant
<1>3. ASSUME NEW s \in Slots, NEW q, Cleared(s, q)
      PROVE  TrailInvariant'
    BY <1>2, <1>3 DEF Cleared
<1>4. CASE db' = db /\ WriteEvent
    BY <1>4, FollowsWritten DEF WriteEvent
<1> QED BY <1>1, <1>2, <1>3, <1>4, StepCases

\* Where the rows about a credential leave no doubt about their order, an organization that reads
\* them knows which credentials it can see.
THEOREM TrailTrue == Spec => []TrailTellsVisible
<1>1. Init /\ AdminInvariant => TrailInvariant
    BY TrailInit
<1>2. AdminInvariant /\ TrailInvariant /\ [Next]_vars => TrailInvariant'
    BY TrailStep
<1>3. TrailInvariant => TrailTellsVisible
    <2> SUFFICES ASSUME TrailInvariant, NEW p \in Apps,
                        \A e \in events \cup Range(trail) : e.app = p => e.alone /\ e \notin events,
                        NEW o \in Orgs, Live(o),
                        \A e \in events \cup Range(trail) :
                            e.app = p => e.owner = Zone \/ (e.owner = o /\ e.action # "linkApp")
                 PROVE  LastTold(o, p) <=> p \in VisibleToOrg(o)
        BY DEF TrailTellsVisible
    <2>1. Ordered(p) /\ Regular(o, p)
        BY DEF Ordered, Regular, About
    <2>2. WillTell(o, p) <=> p \in VisibleToOrg(o)
        BY <2>1 DEF TrailInvariant, Follows
    <2>3. \A e \in events : ~Tells(e, o, p)
        BY DEF Tells
    <2> QED BY <2>2, <2>3 DEF WillTell
<1> QED BY <1>1, <1>2, <1>3, AdminTypeCorrect, PTL DEF Spec

-----------------------------------------------------------------------------
(* The pinned connections: every slot of the limiter is accounted for        *)

\* A request that the limiter knows.
Requested ==
    [pc : Pcs, conn : Conns \cup {NoValue}, extra : Conns \cup {NoValue},
     slot : BOOLEAN, held : BOOLEAN, clearing : BOOLEAN, aborted : BOOLEAN]

\* The types of what the pool knows.
PoolType ==
    /\ conns \in [Conns -> Requests \cup Borrowers \cup {NoValue}]
    /\ sent \in [Conns -> Seq(Queries)]
    /\ borrowed \in [Borrowers -> Conns \cup {NoValue}]
    /\ context \in [Conns -> Requests \cup {NoValue}]
    /\ overtaken \in BOOLEAN

\* What request q has, by where it is.
Shaped(q) ==
    /\ q.pc = "queued" => ~q.slot /\ ~q.held /\ ~q.clearing
    /\ q.pc = "connect" => q.slot /\ ~q.held /\ ~q.clearing
    /\ q.held => q.slot /\ ~q.clearing
    /\ q.held \/ q.clearing => q.conn \in Conns
    /\ q.pc = "nested" => q.extra \in Conns

\* Request r, being q, has checked out in cs what it will release, and has its
\* slot as long as something will release it.
CheckedOut(r, q, cs) ==
    /\ q.slot => q.pc = "connect" \/ q.held \/ q.clearing
    /\ q.held \/ q.clearing => q.slot /\ cs[q.conn] = r
    /\ q.pc = "nested" => cs[q.extra] = r /\ (q.held \/ q.clearing => q.extra # q.conn)

\* Nobody's check-out was released by another, unless a setup was overtaken.
OwnIn(rs, cs, bs, ot) ==
    ~ot => /\ \A r \in Requests : rs[r] # Waiting => CheckedOut(r, rs[r], cs)
           /\ \A b \in Borrowers : bs[b] # NoValue => cs[bs[b]] = b

\* The requests with a slot, and their number against the limiter's.
HasSlot(rs, r) == rs[r] # Waiting /\ rs[r].slot
SlottedIn(rs) == {r \in Requests : HasSlot(rs, r)}
CountIn(n, rs, ot) ==
    /\ IsFiniteSet(SlottedIn(rs))
    /\ Cardinality(SlottedIn(rs)) <= n
    /\ ~ot => n = Cardinality(SlottedIn(rs))

\* Who waits is in line, and once.
QueuedIn(rs, q) ==
    /\ q \in Seq(Requests)
    /\ \A i, j \in DOMAIN q : q[i] = q[j] => i = j
    /\ \A r \in Requests : (rs[r] # Waiting /\ rs[r].pc = "queued") <=> \E i \in DOMAIN q : q[i] = r

Full == waiting # <<>> => pinned = Limit

SlotsInv ==
    /\ TypeOK
    /\ QueuedIn(request, waiting)
    /\ Full
    /\ \A r \in Requests : request[r] # Waiting => Shaped(request[r])
    /\ CountIn(pinned, request, overtaken)
    /\ OwnIn(request, conns, borrowed, overtaken)

LEMMA Sizes == MaxConns \in Nat \ {0} /\ Limit \in Nat \ {0} /\ Limit <= MaxConns
  <1>1. MaxConns \in Nat /\ MaxConns # 0
    BY ConnectionAssumption, FS_CardinalityType, FS_EmptySet DEF MaxConns
  <1> HIDE DEF MaxConns
  <1> QED BY <1>1, ConnectionAssumption DEF Limit

LEMMA Types ==
  ASSUME SlotsInv
  PROVE  /\ pinned \in 0 .. Limit /\ waiting \in Seq(Requests) /\ PoolType
         /\ request \in [Requests -> Requested \cup {Waiting}]
  BY DEF SlotsInv, TypeOK, PoolType, Requested

LEMMA SlotsInitInv == SlotsInit => SlotsInv
  <1> SUFFICES ASSUME SlotsInit PROVE SlotsInv
    OBVIOUS
  <1>1. TypeOK
    <2>1. pinned \in 0 .. Limit
      BY Sizes DEF SlotsInit
    <2>2. waiting \in Seq(Requests) /\ request \in [Requests -> Requested \cup {Waiting}]
      BY DEF SlotsInit
    <2>3. PoolType
      <3>1. <<>> \in Seq(Queries)
        OBVIOUS
      <3> QED BY <3>1 DEF SlotsInit, PoolType
    <2> QED BY <2>1, <2>2, <2>3 DEF TypeOK, PoolType, Requested
  <1>2. QueuedIn(request, waiting) /\ Full
    BY DEF SlotsInit, QueuedIn, Full
  <1>3. \A r \in Requests : request[r] = Waiting
    BY DEF SlotsInit
  <1>4. CountIn(pinned, request, overtaken)
    <2>1. IsFiniteSet({}) /\ Cardinality({}) = 0
      BY FS_EmptySet
    <2>2. pinned = 0
      BY DEF SlotsInit
    <2>3. SlottedIn(request) = {}
      BY <1>3 DEF SlottedIn, HasSlot
    <2> QED BY <2>1, <2>2, <2>3 DEF CountIn
  <1>5. OwnIn(request, conns, borrowed, overtaken)
    BY <1>3 DEF SlotsInit, OwnIn
  <1> QED BY <1>1, <1>2, <1>3, <1>4, <1>5 DEF SlotsInv

-----------------------------------------------------------------------------
LEMMA Flying ==
  ASSUME SlotsInv, NEW r \in Requests, InFlight(r)
  PROVE  request[r] \in Requested /\ Shaped(request[r])
  BY Types DEF SlotsInv, InFlight

LEMMA Owning ==
  ASSUME SlotsInv, NEW r \in Requests, InFlight(r), ~overtaken
  PROVE  CheckedOut(r, request[r], conns)
  BY DEF SlotsInv, InFlight, OwnIn

\* Request r changes, and of the connections only some that are its own or
\* nobody's: the others still own what they own.
LEMMA OwnStep ==
  ASSUME NEW r \in Requests, NEW new, NEW rs, NEW cs, NEW ot,
         SlotsInv, rs[r] = new, \A s \in Requests \ {r} : rs[s] = request[s],
         ~ot => /\ ~overtaken
                /\ \A d \in Conns : cs[d] # conns[d] => conns[d] \in {r, NoValue}
                /\ new # Waiting => CheckedOut(r, new, cs)
  PROVE  OwnIn(rs, cs, borrowed, ot)
  <1> SUFFICES ASSUME ~ot PROVE OwnIn(rs, cs, borrowed, ot)
    BY DEF OwnIn
  <1>1. /\ ~overtaken
        /\ \A d \in Conns : cs[d] # conns[d] => conns[d] \in {r, NoValue}
        /\ new # Waiting => CheckedOut(r, new, cs)
    OBVIOUS
  <1>2. ASSUME NEW s \in Requests, rs[s] # Waiting PROVE CheckedOut(s, rs[s], cs)
    <2>1. CASE s = r
      BY <1>1, <1>2, <2>1
    <2>2. CASE s # r
      <3>1. rs[s] = request[s] /\ InFlight(s)
        BY <1>2, <2>2 DEF InFlight
      <3>2. Shaped(request[s]) /\ CheckedOut(s, request[s], conns)
        BY <1>1, <3>1, Flying, Owning
      <3>3. s # NoValue
        BY ConnectionAssumption
      <3> QED BY <1>1, <2>2, <3>1, <3>2, <3>3 DEF CheckedOut, Shaped
    <2> QED BY <2>1, <2>2
  <1>3. ASSUME NEW b \in Borrowers, borrowed[b] # NoValue PROVE cs[borrowed[b]] = b
    <2>1. borrowed[b] \in Conns /\ conns[borrowed[b]] = b
      BY <1>1, <1>3, Types DEF PoolType, SlotsInv, OwnIn
    <2>2. b # NoValue /\ b # r
      BY ConnectionAssumption
    <2> QED BY <1>1, <2>1, <2>2
  <1> QED BY <1>2, <1>3 DEF OwnIn

\* The line stays as it is as long as nobody joins or leaves it.
Queued(rs, r) == rs[r] # Waiting /\ rs[r].pc = "queued"

LEMMA QueueStays ==
  ASSUME NEW rs, NEW rs2, NEW q, QueuedIn(rs, q), NEW r \in Requests,
         \A s \in Requests \ {r} : rs2[s] = rs[s], Queued(rs2, r) <=> Queued(rs, r)
  PROVE  QueuedIn(rs2, q)
  BY DEF QueuedIn, Queued

\* One request changes, and the limiter is not asked.
Change(r, new) ==
    /\ new \in Requested \cup {Waiting}
    /\ new # Waiting => Shaped(new)
    /\ request' = [request EXCEPT ![r] = new]
    /\ UNCHANGED <<pinned, waiting, borrowed>>
    /\ PoolType'
    /\ overtaken => overtaken'
    /\ (new # Waiting /\ new.pc = "queued") <=> Queued(request, r)
    /\ (new # Waiting /\ new.slot) => HasSlot(request, r)
    /\ ~overtaken' =>
         /\ HasSlot(request, r) => new # Waiting /\ new.slot
         /\ \A d \in Conns : conns'[d] # conns[d] => conns[d] \in {r, NoValue}
         /\ new # Waiting => CheckedOut(r, new, conns')

LEMMA ChangeStep ==
  ASSUME SlotsInv, NEW r \in Requests, NEW new, Change(r, new)
  PROVE  SlotsInv'
  <1>1. /\ request' \in [Requests -> Requested \cup {Waiting}] /\ request'[r] = new
        /\ \A s \in Requests \ {r} : request'[s] = request[s]
    BY Types DEF Change
  <1>2. pinned' = pinned /\ waiting' = waiting /\ borrowed' = borrowed
    BY DEF Change
  <1>3. TypeOK'
    BY <1>1, <1>2, Types DEF Change, TypeOK, Requested, PoolType
  <1>4. QueuedIn(request', waiting)
    <2>1. Queued(request', r) <=> Queued(request, r)
      BY <1>1 DEF Change, Queued
    <2>2. QueuedIn(request, waiting)
      BY DEF SlotsInv
    <2> QED BY <1>1, <2>1, <2>2, QueueStays
  <1>5. \A s \in Requests : request'[s] # Waiting => Shaped(request'[s])
    <2>1. ASSUME NEW s \in Requests, request'[s] # Waiting PROVE Shaped(request'[s])
      BY <1>1, <2>1 DEF Change, SlotsInv
    <2> QED BY <2>1
  <1>6. OwnIn(request', conns', borrowed', overtaken')
    <2>1. ~overtaken' => /\ ~overtaken
                         /\ \A d \in Conns : conns'[d] # conns[d] => conns[d] \in {r, NoValue}
                         /\ new # Waiting => CheckedOut(r, new, conns')
      BY DEF Change
    <2>2. OwnIn(request', conns', borrowed, overtaken')
      BY <1>1, <2>1, OwnStep
    <2> QED BY <1>2, <2>2
  <1>7. CountIn(pinned', request', overtaken')
    <2>1. SlottedIn(request') \subseteq SlottedIn(request)
      BY <1>1 DEF Change, SlottedIn, HasSlot
    <2>2. ~overtaken' => SlottedIn(request') = SlottedIn(request)
      BY <1>1 DEF Change, SlottedIn, HasSlot
    <2>3. CountIn(pinned, request, overtaken) /\ pinned \in Nat /\ (overtaken => overtaken')
      BY Types, Sizes DEF SlotsInv, Change
    <2>4. /\ IsFiniteSet(SlottedIn(request'))
          /\ Cardinality(SlottedIn(request')) <= Cardinality(SlottedIn(request))
          /\ Cardinality(SlottedIn(request')) \in Nat /\ Cardinality(SlottedIn(request)) \in Nat
      BY <2>1, <2>3, FS_Subset, FS_CardinalityType DEF CountIn
    <2> QED BY <1>2, <2>2, <2>3, <2>4 DEF CountIn
  <1>8. Full'
    BY <1>2 DEF SlotsInv, Full
  <1> QED BY <1>2, <1>3, <1>4, <1>5, <1>6, <1>7, <1>8 DEF SlotsInv

-----------------------------------------------------------------------------
\* A request goes on with what it has, and the pool as well.
Onward(r, new) ==
    /\ InFlight(r) /\ new \in Requested
    /\ request[r].pc \notin {"queued", "connect", "nested"}
    /\ new.pc \notin {"queued", "connect", "nested"}
    /\ new.slot = request[r].slot /\ new.conn = request[r].conn
    /\ \/ new.held = request[r].held /\ new.clearing = request[r].clearing
       \/ request[r].held /\ ~new.held /\ new.clearing
    /\ request' = [request EXCEPT ![r] = new]
    /\ PoolType'
    /\ UNCHANGED <<pinned, waiting, conns, borrowed, overtaken>>

LEMMA OnwardStep ==
  ASSUME SlotsInv, NEW r \in Requests, NEW new, Onward(r, new)
  PROVE  SlotsInv'
  <1>1. InFlight(r) /\ request[r] \in Requested /\ Shaped(request[r]) /\ new # Waiting
    BY Flying DEF Onward, Requested, Pcs, Waiting
  <1>2. Shaped(new)
    BY <1>1 DEF Onward, Shaped, Requested
  <1>3. ~overtaken => CheckedOut(r, new, conns)
    BY <1>1, Owning DEF Onward, CheckedOut, Requested, Shaped
  <1>4. Change(r, new)
    BY <1>1, <1>2, <1>3 DEF Change, Onward, Queued, HasSlot, InFlight
  <1> QED BY <1>4, ChangeStep

\* Queries that are sent or answered keep the type of those under way.
LEMMA QueriesTyped ==
  ASSUME SlotsInv, NEW c \in Conns, NEW q \in Queries,
         \/ sent' = [sent EXCEPT ![c] = Append(@, q)]
         \/ sent[c] # <<>> /\ sent' = [sent EXCEPT ![c] = Tail(@)]
  PROVE  sent' \in [Conns -> Seq(Queries)]
  <1>1. sent \in [Conns -> Seq(Queries)]
    BY Types DEF PoolType
  <1>2. CASE sent' = [sent EXCEPT ![c] = Append(@, q)]
    <2>1. sent[c] \in Seq(Queries)
      BY <1>1, <1>2
    <2>2. Append(sent[c], q) \in Seq(Queries)
      BY <2>1
    <2> QED BY <1>1, <1>2, <2>2
  <1>3. CASE sent[c] # <<>> /\ sent' = [sent EXCEPT ![c] = Tail(@)]
    <2>1. sent[c] \in Seq(Queries)
      BY <1>1, <1>3
    <2>2. Tail(sent[c]) \in Seq(Queries)
      BY <1>3, <2>1
    <2> QED BY <1>1, <1>3, <2>2
  <1> QED BY <1>2, <1>3

LEMMA AnswersTyped ==
  ASSUME SlotsInv, NEW r \in Requests, NEW what \in {"setup", "clear"}, Answers(r, what)
  PROVE  sent' \in [Conns -> Seq(Queries)]
  <1>1. <<r, what>> \in Queries
    BY DEF Queries
  <1>2. CASE request[r].conn \in Conns
    BY <1>1, <1>2, QueriesTyped DEF Answers
  <1>3. CASE request[r].conn \notin Conns
    <2>1. sent' = sent
      BY <1>3, Types DEF Answers, PoolType
    <2> QED BY <2>1, Types DEF PoolType
  <1> QED BY <1>2, <1>3

LEMMA SetupStep ==
  ASSUME SlotsInv, NEW r \in Requests, Setup(r)
  PROVE  SlotsInv'
  <1>1. InFlight(r) /\ request[r].pc = "setup" /\ UNCHANGED <<pinned, waiting, conns, borrowed, overtaken>>
    BY DEF Setup, At
  <1>2. PICK q \in Requested : q = request[r]
    BY <1>1, Flying
  <1>3. PICK new : new = [q EXCEPT !.pc = "handler"]
    OBVIOUS
  <1>4. /\ new \in Requested /\ new.pc = "handler" /\ new.slot = q.slot /\ new.conn = q.conn
        /\ new.held = q.held /\ new.clearing = q.clearing
    BY <1>3 DEF Requested, Pcs
  <1>5. PoolType'
    <2>1. context' \in [Conns -> Requests \cup {NoValue}]
      BY Types DEF Setup, PoolType
    <2>2. sent' \in [Conns -> Seq(Queries)]
      BY AnswersTyped DEF Setup
    <2> QED BY <1>1, <2>1, <2>2, Types DEF PoolType
  <1>6. request' = [request EXCEPT ![r] = new]
    BY <1>2, <1>3 DEF Setup
  <1>7. Onward(r, new)
    BY <1>1, <1>2, <1>4, <1>5, <1>6 DEF Onward
  <1> QED BY <1>7, OnwardStep

LEMMA NestStep ==
  ASSUME SlotsInv, NEW r \in Requests, Nest(r) \/ NestedTimeout(r)
  PROVE  SlotsInv'
  <1>1. InFlight(r) /\ request[r].pc \in {"handler", "nest"} /\ UNCHANGED <<pinned, waiting, poolVars>>
    BY DEF Nest, NestedTimeout, At
  <1>2. PICK q \in Requested : q = request[r]
    BY <1>1, Flying
  <1>3. PICK pc \in {"handler", "nest"} : request' = [request EXCEPT ![r].pc = pc]
    BY DEF Nest, NestedTimeout
  <1>4. PICK new : new = [q EXCEPT !.pc = pc]
    OBVIOUS
  <1>5. /\ new \in Requested /\ new.pc = pc /\ new.slot = q.slot /\ new.conn = q.conn
        /\ new.held = q.held /\ new.clearing = q.clearing
    BY <1>4 DEF Requested, Pcs
  <1>6. PoolType'
    BY <1>1, Types DEF poolVars, PoolType
  <1>7. request' = [request EXCEPT ![r] = new]
    BY <1>2, <1>3, <1>4
  <1>8. Onward(r, new)
    BY <1>1, <1>2, <1>5, <1>6, <1>7 DEF Onward, poolVars
  <1> QED BY <1>8, OnwardStep

LEMMA ConnectStep ==
  ASSUME SlotsInv, NEW r \in Requests, NEW c \in Conns, Connect(r, c)
  PROVE  SlotsInv'
  <1>1. /\ InFlight(r) /\ request[r].pc = "connect" /\ conns[c] = NoValue
        /\ UNCHANGED <<pinned, waiting, borrowed, context, overtaken>>
    BY DEF Connect, At
  <1>2. PICK q \in Requested : q = request[r] /\ Shaped(q)
    BY <1>1, Flying
  <1>3. PICK new : new = [q EXCEPT !.pc = "setup", !.conn = c, !.held = TRUE]
    OBVIOUS
  <1>4. /\ new \in Requested /\ new # Waiting /\ new.pc = "setup" /\ new.conn = c /\ new.held
        /\ new.slot = q.slot /\ new.clearing = q.clearing
    BY <1>3 DEF Requested, Pcs, Waiting
  <1>5. request' = [request EXCEPT ![r] = new]
    BY <1>2, <1>3 DEF Connect
  <1>6. conns' = [conns EXCEPT ![c] = r] /\ conns'[c] = r
    BY Types DEF Connect, PoolType
  <1>7. PoolType'
    <2>1. <<r, "setup">> \in Queries
      BY DEF Queries
    <2>2. sent' \in [Conns -> Seq(Queries)]
      BY <2>1, QueriesTyped DEF Connect
    <2>3. conns' \in [Conns -> Requests \cup Borrowers \cup {NoValue}]
      BY <1>6, Types DEF PoolType
    <2> QED BY <1>1, <2>2, <2>3, Types DEF PoolType
  <1>8. Shaped(new) /\ CheckedOut(r, new, conns') /\ new.slot /\ q.slot
    BY <1>1, <1>2, <1>4, <1>6 DEF Shaped, CheckedOut
  <1>9. \A d \in Conns : conns'[d] # conns[d] => conns[d] \in {r, NoValue}
    BY <1>1, <1>6, Types DEF PoolType
  <1>10. Change(r, new)
    BY <1>1, <1>2, <1>4, <1>5, <1>7, <1>8, <1>9 DEF Change, Queued, HasSlot, InFlight
  <1> QED BY <1>10, ChangeStep

LEMMA NestedConnectStep ==
  ASSUME SlotsInv, NEW r \in Requests, NEW c \in Conns, NestedConnect(r, c)
  PROVE  SlotsInv'
  <1>1. /\ InFlight(r) /\ request[r].pc = "nest" /\ conns[c] = NoValue
        /\ UNCHANGED <<pinned, waiting, sent, borrowed, context, overtaken>>
    BY DEF NestedConnect, At
  <1>2. PICK q \in Requested : q = request[r] /\ Shaped(q)
    BY <1>1, Flying
  <1>3. PICK new : new = [q EXCEPT !.pc = "nested", !.extra = c]
    OBVIOUS
  <1>4. /\ new \in Requested /\ new # Waiting /\ new.pc = "nested" /\ new.extra = c
        /\ new.conn = q.conn /\ new.held = q.held /\ new.slot = q.slot /\ new.clearing = q.clearing
    BY <1>3 DEF Requested, Pcs, Waiting
  <1>5. request' = [request EXCEPT ![r] = new]
    BY <1>2, <1>3 DEF NestedConnect
  <1>6. conns' = [conns EXCEPT ![c] = r] /\ conns'[c] = r
    BY Types DEF NestedConnect, PoolType
  <1>7. conns' \in [Conns -> Requests \cup Borrowers \cup {NoValue}]
    BY <1>6, Types DEF PoolType
  <1>8. PoolType'
    BY <1>1, <1>7, Types DEF PoolType
  <1>9. Shaped(new)
    BY <1>1, <1>2, <1>4 DEF Shaped
  <1>10. ~overtaken => CheckedOut(r, new, conns')
    <2>1. ~overtaken => CheckedOut(r, q, conns)
      BY <1>1, <1>2, Owning
    <2>2. r # NoValue
      BY ConnectionAssumption
    <2>3. q.held \/ q.clearing => q.conn \in Conns
      BY <1>2 DEF Shaped
    <2> QED BY <1>1, <1>2, <1>4, <1>6, <2>1, <2>2, <2>3, Types DEF CheckedOut, PoolType
  <1>11. \A d \in Conns : conns'[d] # conns[d] => conns[d] \in {r, NoValue}
    BY <1>1, <1>6, Types DEF PoolType
  <1>12. Change(r, new)
    BY <1>1, <1>2, <1>4, <1>5, <1>8, <1>9, <1>10, <1>11 DEF Change, Queued, HasSlot, InFlight
  <1> QED BY <1>12, ChangeStep

LEMMA NestedReleaseStep ==
  ASSUME SlotsInv, NEW r \in Requests, NestedRelease(r)
  PROVE  SlotsInv'
  <1>1. /\ InFlight(r) /\ request[r].pc = "nested"
        /\ UNCHANGED <<pinned, waiting, sent, borrowed, context, overtaken>>
    BY DEF NestedRelease, At
  <1>2. PICK q \in Requested : q = request[r] /\ Shaped(q)
    BY <1>1, Flying
  <1>3. PICK c \in Conns : c = q.extra
    BY <1>1, <1>2 DEF Shaped
  <1>4. PICK new : new = [q EXCEPT !.pc = "handler", !.extra = NoValue]
    OBVIOUS
  <1>5. /\ new \in Requested /\ new # Waiting /\ new.pc = "handler"
        /\ new.conn = q.conn /\ new.held = q.held /\ new.slot = q.slot /\ new.clearing = q.clearing
    BY <1>4 DEF Requested, Pcs, Waiting
  <1>6. request' = [request EXCEPT ![r] = new]
    BY <1>2, <1>4 DEF NestedRelease
  <1>7. conns' = [conns EXCEPT ![c] = NoValue]
    BY <1>2, <1>3 DEF NestedRelease
  <1>8. conns' \in [Conns -> Requests \cup Borrowers \cup {NoValue}]
    BY <1>7, Types DEF PoolType
  <1>9. PoolType'
    BY <1>1, <1>8, Types DEF PoolType
  <1>10. Shaped(new)
    BY <1>1, <1>2, <1>5 DEF Shaped
  <1>11. ~overtaken => CheckedOut(r, q, conns) /\ conns[c] = r
    BY <1>1, <1>2, <1>3, Owning DEF CheckedOut
  <1>12. ~overtaken => CheckedOut(r, new, conns')
    <2>1. q.held \/ q.clearing => q.conn \in Conns
      BY <1>2 DEF Shaped
    <2> QED BY <1>1, <1>2, <1>3, <1>5, <1>7, <1>11, <2>1, Types DEF CheckedOut, PoolType
  <1>13. ~overtaken => \A d \in Conns : conns'[d] # conns[d] => conns[d] \in {r, NoValue}
    BY <1>7, <1>11, Types DEF PoolType
  <1>14. Change(r, new)
    BY <1>1, <1>2, <1>5, <1>6, <1>9, <1>10, <1>12, <1>13 DEF Change, Queued, HasSlot, InFlight
  <1> QED BY <1>14, ChangeStep

\* The connection of a request goes over to the clean-up.
LEMMA BeginReleaseStep ==
  ASSUME SlotsInv, NEW r \in Requests, NEW pc \in Pcs, NEW aborted \in BOOLEAN,
         InFlight(r), request[r].held, BeginRelease(r, pc, aborted),
         pc = request[r].pc \/ (request[r].pc = "handler" /\ pc = "done"),
         UNCHANGED <<pinned, waiting, conns, borrowed, context, overtaken>>
  PROVE  SlotsInv'
  <1>1. PICK q \in Requested : q = request[r] /\ Shaped(q)
    BY Flying
  <1>2. PICK new : new = [q EXCEPT !.pc = pc, !.held = FALSE, !.clearing = TRUE, !.aborted = aborted]
    OBVIOUS
  <1>3. /\ new \in Requested /\ new # Waiting /\ new.pc = pc /\ ~new.held /\ new.clearing
        /\ new.conn = q.conn /\ new.slot = q.slot /\ new.extra = q.extra
    BY <1>2 DEF Requested, Pcs, Waiting
  <1>4. request' = [request EXCEPT ![r] = new]
    BY <1>1, <1>2 DEF BeginRelease
  <1>5. PoolType'
    <2>1. <<r, "clear">> \in Queries
      BY DEF Queries
    <2>2. sent' \in [Conns -> Seq(Queries)]
      BY <1>1, <2>1, QueriesTyped DEF BeginRelease, Shaped
    <2> QED BY <2>2, Types DEF PoolType
  <1>6. Shaped(new) /\ q.held /\ q.pc \notin {"queued", "connect"}
    BY <1>1, <1>3 DEF Shaped
  <1>7. ~overtaken => CheckedOut(r, new, conns)
    <2>1. ~overtaken => CheckedOut(r, q, conns)
      BY <1>1, Owning
    <2> QED BY <1>1, <1>3, <1>6, <2>1 DEF CheckedOut
  <1>8. Change(r, new)
    BY <1>1, <1>3, <1>4, <1>5, <1>6, <1>7 DEF Change, Queued, HasSlot, InFlight
  <1> QED BY <1>8, ChangeStep

LEMMA RespondStep ==
  ASSUME SlotsInv, NEW r \in Requests, Respond(r)
  PROVE  SlotsInv'
  <1>1. /\ InFlight(r) /\ request[r].pc = "handler"
        /\ UNCHANGED <<pinned, waiting, conns, borrowed, context, overtaken>>
    BY DEF Respond, At
  <1>2. PICK q \in Requested : q = request[r] /\ Shaped(q)
    BY <1>1, Flying
  <1>3. CASE Held(r) /\ BeginRelease(r, "done", request[r].aborted)
    <2>1. "done" \in Pcs /\ request[r].aborted \in BOOLEAN
      BY <1>2 DEF Pcs, Requested
    <2> QED BY <1>1, <1>3, <2>1, BeginReleaseStep DEF Held
  <1>4. CASE /\ ~Held(r) /\ UNCHANGED sent
             /\ request' = [request EXCEPT ![r] = IF @.clearing THEN [@ EXCEPT !.pc = "done"] ELSE Waiting]
    <2>1. PoolType'
      BY <1>1, <1>4, Types DEF PoolType
    <2>2. CASE q.clearing
      <3>1. PICK new : new = [q EXCEPT !.pc = "done"]
        OBVIOUS
      <3>2. /\ new \in Requested /\ new.pc = "done" /\ new.slot = q.slot /\ new.conn = q.conn
            /\ new.held = q.held /\ new.clearing = q.clearing
        BY <3>1 DEF Requested, Pcs
      <3>3. request' = [request EXCEPT ![r] = new]
        BY <1>2, <1>4, <2>2, <3>1
      <3>4. Onward(r, new)
        BY <1>1, <1>2, <2>1, <3>2, <3>3 DEF Onward
      <3> QED BY <3>4, OnwardStep
    <2>3. CASE ~q.clearing
      <3>1. request' = [request EXCEPT ![r] = Waiting]
        BY <1>2, <1>4, <2>3
      <3>2. ~overtaken => ~HasSlot(request, r)
        BY <1>1, <1>2, <1>4, <2>3, Owning DEF CheckedOut, Held, HasSlot
      <3>3. Change(r, Waiting)
        BY <1>1, <1>2, <2>1, <3>1, <3>2 DEF Change, Queued
      <3> QED BY <3>3, ChangeStep
    <2> QED BY <1>2, <2>2, <2>3 DEF Requested
  <1>5. CASE request' = [request EXCEPT ![r].pc = "lost"] /\ UNCHANGED sent
    <2>1. PICK new : new = [q EXCEPT !.pc = "lost"]
      OBVIOUS
    <2>2. /\ new \in Requested /\ new.pc = "lost" /\ new.slot = q.slot /\ new.conn = q.conn
          /\ new.held = q.held /\ new.clearing = q.clearing
      BY <2>1 DEF Requested, Pcs
    <2>3. request' = [request EXCEPT ![r] = new]
      BY <1>2, <1>5, <2>1
    <2>4. PoolType'
      BY <1>1, <1>5, Types DEF PoolType
    <2>5. Onward(r, new)
      BY <1>1, <1>2, <2>2, <2>3, <2>4 DEF Onward
    <2> QED BY <2>5, OnwardStep
  <1>6. \/ Held(r) /\ BeginRelease(r, "done", request[r].aborted)
        \/ /\ ~Held(r) /\ UNCHANGED sent
           /\ request' = [request EXCEPT ![r] = IF @.clearing THEN [@ EXCEPT !.pc = "done"] ELSE Waiting]
        \/ request' = [request EXCEPT ![r].pc = "lost"] /\ UNCHANGED sent
    BY Zenon DEF Respond
  <1> QED BY <1>3, <1>4, <1>5, <1>6

LEMMA ClientAbortStep ==
  ASSUME SlotsInv, NEW r \in Requests, ClientAbort(r)
  PROVE  SlotsInv'
  <1>1. InFlight(r) /\ UNCHANGED <<pinned, waiting, conns, borrowed, context, overtaken>>
    BY DEF ClientAbort
  <1>2. PICK q \in Requested : q = request[r] /\ Shaped(q)
    BY <1>1, Flying
  <1>3. CASE Held(r)
    <2>1. PICK pc \in Pcs, aborted \in BOOLEAN : pc = request[r].pc /\ aborted = TRUE
      BY <1>2 DEF Requested
    <2>2. BeginRelease(r, pc, aborted)
      BY <1>3, <2>1 DEF ClientAbort
    <2>3. request[r].held
      BY <1>3 DEF Held
    <2> QED BY <1>1, <2>1, <2>2, <2>3, BeginReleaseStep
  <1>4. CASE ~Held(r)
    <2>1. PICK new : new = [q EXCEPT !.aborted = TRUE]
      OBVIOUS
    <2>2. /\ new \in Requested /\ new # Waiting /\ new.pc = q.pc /\ new.slot = q.slot /\ new.conn = q.conn
          /\ new.held = q.held /\ new.clearing = q.clearing /\ new.extra = q.extra
      BY <2>1 DEF Requested, Pcs, Waiting
    <2>3. request' = [request EXCEPT ![r] = new] /\ UNCHANGED sent
      BY <1>2, <1>4, <2>1 DEF ClientAbort
    <2>4. PoolType'
      BY <1>1, <2>3, Types DEF PoolType
    <2>5. Shaped(new)
      BY <1>2, <2>2 DEF Shaped
    <2>6. ~overtaken => CheckedOut(r, new, conns)
      <3>1. ~overtaken => CheckedOut(r, q, conns)
        BY <1>1, <1>2, Owning
      <3> QED BY <2>2, <3>1 DEF CheckedOut
    <2>7. Change(r, new)
      BY <1>1, <1>2, <2>2, <2>3, <2>4, <2>5, <2>6 DEF Change, Queued, HasSlot, InFlight
    <2> QED BY <2>7, ChangeStep
  <1> QED BY <1>3, <1>4

\* Connections are taken and given back without the limiter.
LEMMA UnpinnedStep ==
  ASSUME SlotsInv, NEW b \in Borrowers, NEW c \in Conns, TakeUnpinned(b, c) \/ ReleaseUnpinned(b)
  PROVE  SlotsInv'
  <1>1. UNCHANGED <<pinned, waiting, request, sent, context, overtaken>>
    BY DEF TakeUnpinned, ReleaseUnpinned
  <1>2. PICK d \in Conns :
          \/ /\ conns[d] = NoValue /\ conns' = [conns EXCEPT ![d] = b]
             /\ borrowed[b] = NoValue /\ borrowed' = [borrowed EXCEPT ![b] = d]
          \/ /\ borrowed[b] = d /\ conns' = [conns EXCEPT ![d] = NoValue]
             /\ borrowed' = [borrowed EXCEPT ![b] = NoValue]
    <2>1. CASE TakeUnpinned(b, c)
      BY <2>1 DEF TakeUnpinned
    <2>2. CASE ReleaseUnpinned(b)
      <3>1. borrowed[b] \in Conns
        BY <2>2, Types DEF ReleaseUnpinned, PoolType
      <3> QED BY <2>2, <3>1 DEF ReleaseUnpinned
    <2> QED BY <2>1, <2>2
  <1>3. PoolType'
    BY <1>1, <1>2, Types DEF PoolType
  <1>4. TypeOK'
    BY <1>1, <1>3, Types DEF TypeOK, PoolType, Requested
  <1>5. b # NoValue /\ d # NoValue /\ b \notin Requests
    BY ConnectionAssumption
  <1>6. OwnIn(request, conns', borrowed', overtaken)
    <2> SUFFICES ASSUME ~overtaken PROVE OwnIn(request, conns', borrowed', overtaken)
      BY DEF OwnIn
    <2>1. conns[d] \in {NoValue, b} /\ \A e \in Conns \ {d} : conns'[e] = conns[e]
      BY <1>2, <1>5, Types DEF PoolType, SlotsInv, OwnIn
    <2>2. ASSUME NEW r \in Requests, request[r] # Waiting PROVE CheckedOut(r, request[r], conns')
      <3>1. Shaped(request[r]) /\ CheckedOut(r, request[r], conns)
        BY <2>2, Flying, Owning DEF InFlight
      <3>2. r # NoValue /\ r # b
        BY <1>5, ConnectionAssumption
      <3> QED BY <2>1, <3>1, <3>2 DEF CheckedOut, Shaped
    <2>3. ASSUME NEW u \in Borrowers, borrowed'[u] # NoValue PROVE conns'[borrowed'[u]] = u
      <3>1. CASE u = b
        BY <1>2, <1>5, <2>3, <3>1, Types DEF PoolType
      <3>2. CASE u # b
        <4>1. borrowed'[u] = borrowed[u] /\ borrowed[u] \in Conns /\ conns[borrowed[u]] = u
          BY <1>2, <2>3, <3>2, Types DEF PoolType, SlotsInv, OwnIn
        <4>2. u # NoValue
          BY ConnectionAssumption
        <4> QED BY <2>1, <3>2, <4>1, <4>2
      <3> QED BY <3>1, <3>2
    <2> QED BY <2>2, <2>3 DEF OwnIn
  <1> QED BY <1>1, <1>4, <1>6 DEF SlotsInv, Full

-----------------------------------------------------------------------------
(* Where the limiter is asked                                               *)

LEMMA AcquireStep ==
  ASSUME SlotsInv, NEW r \in Requests, Acquire(r)
  PROVE  SlotsInv'
  <1>1. ~InFlight(r) /\ UNCHANGED poolVars
    BY DEF Acquire
  <1>2. PICK pc, slot :
          /\ request' = [request EXCEPT ![r] =
                [pc |-> pc, conn |-> NoValue, extra |-> NoValue, slot |-> slot,
                 held |-> FALSE, clearing |-> FALSE, aborted |-> FALSE]]
          /\ IF pinned < Limit
             THEN pc = "connect" /\ slot = TRUE /\ pinned' = pinned + 1 /\ UNCHANGED waiting
             ELSE pc = "queued" /\ slot = FALSE /\ waiting' = Append(waiting, r) /\ UNCHANGED pinned
    BY DEF Acquire
  <1>3. PICK new : new = [pc |-> pc, conn |-> NoValue, extra |-> NoValue, slot |-> slot,
                          held |-> FALSE, clearing |-> FALSE, aborted |-> FALSE]
    OBVIOUS
  <1>4. /\ new \in Requested /\ new # Waiting /\ new.pc = pc /\ new.slot = slot
        /\ ~new.held /\ ~new.clearing
        /\ pc \in {"connect", "queued"} /\ slot = (pc = "connect")
    BY <1>2, <1>3 DEF Requested, Pcs, Waiting
  <1>5. /\ request' \in [Requests -> Requested \cup {Waiting}] /\ request'[r] = new
        /\ \A s \in Requests \ {r} : request'[s] = request[s]
    BY <1>2, <1>3, <1>4, Types
  <1>6. PoolType' /\ conns' = conns /\ borrowed' = borrowed /\ overtaken' = overtaken
    BY <1>1, Types DEF PoolType, poolVars
  <1>7. \A s \in Requests : request'[s] # Waiting => Shaped(request'[s])
    <2>1. Shaped(new)
      BY <1>4 DEF Shaped
    <2>2. ASSUME NEW s \in Requests, request'[s] # Waiting PROVE Shaped(request'[s])
      BY <1>5, <2>1, <2>2 DEF SlotsInv
    <2> QED BY <2>2
  <1>8. OwnIn(request', conns', borrowed', overtaken')
    <2>1. ~overtaken => CheckedOut(r, new, conns)
      BY <1>4 DEF CheckedOut
    <2>2. OwnIn(request', conns, borrowed, overtaken)
      BY <1>5, <2>1, OwnStep
    <2> QED BY <1>6, <2>2
  <1>9. CASE pinned < Limit
    <2>1. pc = "connect" /\ slot = TRUE /\ pinned' = pinned + 1 /\ waiting' = waiting
      BY <1>2, <1>9
    <2>2. TypeOK'
      BY <1>5, <1>6, <1>9, <2>1, Sizes, Types DEF TypeOK, PoolType, Requested
    <2>3. QueuedIn(request', waiting)
      <3>1. Queued(request', r) <=> Queued(request, r)
        BY <1>1, <1>4, <1>5, <2>1 DEF Queued, InFlight
      <3>2. QueuedIn(request, waiting)
        BY DEF SlotsInv
      <3> QED BY <1>5, <3>1, <3>2, QueueStays
    <2>4. Full'
      BY <1>9, <2>1, Sizes, Types DEF SlotsInv, Full
    <2>5. CountIn(pinned', request', overtaken')
      <3> DEFINE A == SlottedIn(request)
      <3>1. SlottedIn(request') = A \cup {r} /\ r \notin A
        BY <1>1, <1>4, <1>5, <2>1 DEF SlottedIn, HasSlot, InFlight
      <3>2. IsFiniteSet(A) /\ Cardinality(A) <= pinned /\ (~overtaken => pinned = Cardinality(A))
        BY DEF SlotsInv, CountIn
      <3> HIDE DEF A
      <3>3. /\ IsFiniteSet(A \cup {r}) /\ Cardinality(A \cup {r}) = Cardinality(A) + 1
            /\ Cardinality(A) \in Nat /\ pinned \in Nat
        BY <3>1, <3>2, FS_AddElement, FS_CardinalityType, Types, Sizes
      <3> QED BY <1>6, <2>1, <3>1, <3>2, <3>3 DEF CountIn
    <2> QED BY <1>7, <1>8, <2>1, <2>2, <2>3, <2>4, <2>5 DEF SlotsInv
  <1>10. CASE ~(pinned < Limit)
    <2>1. pc = "queued" /\ slot = FALSE /\ waiting' = Append(waiting, r) /\ pinned' = pinned
      BY <1>2, <1>10
    <2>2. waiting \in Seq(Requests) /\ waiting' \in Seq(Requests)
      BY <2>1, Types
    <2>3. TypeOK'
      BY <1>5, <1>6, <2>1, <2>2, Types DEF TypeOK, PoolType, Requested
    <2>4. pinned = Limit
      BY <1>10, Sizes, Types
    <2>5. QueuedIn(request', waiting')
      <3>1. /\ DOMAIN waiting' = 1 .. Len(waiting) + 1 /\ DOMAIN waiting = 1 .. Len(waiting)
            /\ waiting'[Len(waiting) + 1] = r
            /\ \A i \in 1 .. Len(waiting) : waiting'[i] = waiting[i]
            /\ Len(waiting) \in Nat
        BY <2>1, <2>2
      <3>2. \A i \in DOMAIN waiting : waiting[i] # r
        BY <1>1 DEF SlotsInv, QueuedIn, InFlight
      <3>3. \A i, j \in DOMAIN waiting' : waiting'[i] = waiting'[j] => i = j
        BY <3>1, <3>2 DEF SlotsInv, QueuedIn
      <3>4. ASSUME NEW s \in Requests
            PROVE  (request'[s] # Waiting /\ request'[s].pc = "queued") <=> \E i \in DOMAIN waiting' : waiting'[i] = s
        <4>1. CASE s = r
          BY <1>4, <1>5, <2>1, <3>1, <4>1
        <4>2. CASE s # r
          BY <1>5, <3>1, <4>2 DEF SlotsInv, QueuedIn
        <4> QED BY <4>1, <4>2
      <3> QED BY <2>2, <3>3, <3>4 DEF QueuedIn
    <2>6. CountIn(pinned', request', overtaken')
      <3>1. SlottedIn(request') = SlottedIn(request)
        BY <1>1, <1>4, <1>5, <2>1 DEF SlottedIn, HasSlot, InFlight
      <3> QED BY <1>6, <2>1, <3>1 DEF SlotsInv, CountIn
    <2> QED BY <1>7, <1>8, <2>1, <2>3, <2>4, <2>5, <2>6 DEF SlotsInv, Full
  <1> QED BY <1>9, <1>10

\* Line t is line q without the waiter at place k.
Shorter(q, k, t) ==
    /\ t \in Seq(Requests) /\ DOMAIN t = 1 .. Len(q) - 1
    /\ \A i \in 1 .. Len(q) - 1 : t[i] = IF i < k THEN q[i] ELSE q[i + 1]

LEMMA Concatenated ==
  ASSUME NEW S, NEW a \in Seq(S), NEW b \in Seq(S)
  PROVE  /\ a \o b \in Seq(S) /\ Len(a \o b) = Len(a) + Len(b)
         /\ \A i \in 1 .. Len(a) + Len(b) : (a \o b)[i] = IF i <= Len(a) THEN a[i] ELSE b[i - Len(a)]
  OBVIOUS

LEMMA Leaving ==
  ASSUME NEW q \in Seq(Requests), NEW k \in DOMAIN q
  PROVE  Shorter(q, k, RemoveAt(q, k))
  <1>1. k \in 1 .. Len(q) /\ Len(q) \in Nat
    OBVIOUS
  <1> DEFINE a == SubSeq(q, 1, k - 1)
             b == SubSeq(q, k + 1, Len(q))
  <1>2. a \in Seq(Requests) /\ Len(a) = k - 1 /\ \A i \in 1 .. k - 1 : a[i] = q[i]
    BY <1>1
  <1>3. b \in Seq(Requests) /\ Len(b) = Len(q) - k /\ \A i \in 1 .. Len(q) - k : b[i] = q[k + i]
    BY <1>1
  <1> HIDE DEF a, b
  <1>4. /\ a \o b \in Seq(Requests) /\ Len(a \o b) = Len(q) - 1
        /\ \A i \in 1 .. Len(q) - 1 : (a \o b)[i] = IF i < k THEN q[i] ELSE q[i + 1]
    <2>1. a \o b \in Seq(Requests) /\ Len(a \o b) = Len(a) + Len(b)
      BY <1>2, <1>3, Concatenated
    <2>2. \A i \in 1 .. Len(a) + Len(b) : (a \o b)[i] = IF i <= Len(a) THEN a[i] ELSE b[i - Len(a)]
      BY <1>2, <1>3, Concatenated
    <2>3. Len(a) + Len(b) = Len(q) - 1
      BY <1>1, <1>2, <1>3
    <2>4. ASSUME NEW i \in 1 .. Len(q) - 1
          PROVE  (a \o b)[i] = IF i < k THEN q[i] ELSE q[i + 1]
      <3>1. (a \o b)[i] = IF i <= Len(a) THEN a[i] ELSE b[i - Len(a)]
        BY <2>2, <2>3
      <3>2. CASE i < k
        <4>1. i <= Len(a) /\ a[i] = q[i]
          BY <1>1, <1>2, <3>2
        <4> QED BY <3>1, <3>2, <4>1
      <3>3. CASE ~(i < k)
        <4>1. ~(i <= Len(a)) /\ i - Len(a) \in 1 .. Len(q) - k /\ k + (i - Len(a)) = i + 1
          BY <1>1, <1>2, <3>3
        <4> QED BY <1>3, <3>1, <3>3, <4>1
      <3> QED BY <3>2, <3>3
    <2> QED BY <2>1, <2>3, <2>4
  <1>5. RemoveAt(q, k) = a \o b
    BY DEF RemoveAt, a, b
  <1>6. DOMAIN (a \o b) = 1 .. Len(q) - 1
    BY <1>1, <1>4
  <1> QED BY <1>4, <1>5, <1>6 DEF Shorter

LEMMA FirstLeaves ==
  ASSUME NEW q \in Seq(Requests), q # <<>>
  PROVE  1 \in DOMAIN q /\ Head(q) = q[1] /\ Shorter(q, 1, Tail(q))
  BY DEF Shorter

LEMMA QueueLeaves ==
  ASSUME NEW rs, NEW rs2, NEW q, NEW k \in DOMAIN q, NEW t, QueuedIn(rs, q), Shorter(q, k, t),
         \A s \in Requests \ {q[k]} : Queued(rs2, s) <=> Queued(rs, s), ~Queued(rs2, q[k])
  PROVE  QueuedIn(rs2, t)
  <1>1. q \in Seq(Requests) /\ k \in 1 .. Len(q) /\ Len(q) \in Nat
    BY DEF QueuedIn
  <1>3. /\ t \in Seq(Requests) /\ DOMAIN t = 1 .. Len(q) - 1
        /\ \A i \in 1 .. Len(q) - 1 : t[i] = IF i < k THEN q[i] ELSE q[i + 1]
    BY DEF Shorter
  <1>4. \A i, j \in 1 .. Len(q) : q[i] = q[j] => i = j
    BY <1>1 DEF QueuedIn
  <1>5. ASSUME NEW i \in DOMAIN t, NEW j \in DOMAIN t, t[i] = t[j] PROVE i = j
    BY <1>1, <1>3, <1>4, <1>5, SMTT(60)
  <1>6. \A s \in Requests : Queued(rs, s) <=> \E i \in 1 .. Len(q) : q[i] = s
    BY <1>1 DEF QueuedIn, Queued
  <1>7. ASSUME NEW s \in Requests PROVE Queued(rs2, s) <=> \E i \in DOMAIN t : t[i] = s
    <2>1. CASE s = q[k]
      <3>1. ASSUME NEW i \in DOMAIN t PROVE t[i] # q[k]
        BY <1>1, <1>3, <1>4
      <3> QED BY <2>1, <3>1
    <2>2. CASE s # q[k]
      <3>1. ASSUME NEW i \in 1 .. Len(q), q[i] = s PROVE \E j \in DOMAIN t : t[j] = s
        <4>1. CASE i < k
          BY <1>1, <1>3, <3>1, <4>1
        <4>2. CASE ~(i < k)
          <5>1. i # k
            BY <2>2, <3>1
          <5>2. i - 1 \in 1 .. Len(q) - 1 /\ ~(i - 1 < k) /\ i - 1 + 1 = i
            BY <1>1, <4>2, <5>1
          <5> QED BY <1>3, <3>1, <5>2
        <4> QED BY <4>1, <4>2
      <3>2. ASSUME NEW j \in DOMAIN t, t[j] = s PROVE \E i \in 1 .. Len(q) : q[i] = s
        <4>1. j \in 1 .. Len(q) /\ j + 1 \in 1 .. Len(q)
          BY <1>1, <1>3
        <4>2. q[j] = s \/ q[j + 1] = s
          BY <1>3, <3>2
        <4> QED BY <4>1, <4>2
      <3> QED BY <1>6, <2>2, <3>1, <3>2
    <2> QED BY <2>1, <2>2
  <1> QED BY <1>3, <1>5, <1>7 DEF QueuedIn, Queued

LEMMA SlotTimeoutStep ==
  ASSUME SlotsInv, NEW r \in Requests, SlotTimeout(r)
  PROVE  SlotsInv'
  <1>1. InFlight(r) /\ request[r].pc = "queued" /\ UNCHANGED <<pinned, poolVars>>
    BY DEF SlotTimeout, At
  <1>2. \E i \in DOMAIN waiting : waiting[i] = r
    BY <1>1 DEF SlotsInv, QueuedIn, InFlight
  <1>3. PICK k \in DOMAIN waiting : waiting[k] = r /\ waiting' = RemoveAt(waiting, k)
    BY <1>2 DEF SlotTimeout, GiveUp
  <1>4. waiting \in Seq(Requests) /\ Shorter(waiting, k, waiting')
    BY <1>3, Leaving, Types
  <1>5. /\ request' \in [Requests -> Requested \cup {Waiting}] /\ request'[r] = Waiting
        /\ \A s \in Requests \ {r} : request'[s] = request[s]
    BY Types DEF SlotTimeout
  <1>6. PoolType' /\ conns' = conns /\ borrowed' = borrowed /\ overtaken' = overtaken
    BY <1>1, Types DEF PoolType, poolVars
  <1>7. QueuedIn(request', waiting')
    <2>1. QueuedIn(request, waiting)
      BY DEF SlotsInv
    <2>2. ~Queued(request', waiting[k]) /\ \A s \in Requests \ {waiting[k]} : Queued(request', s) <=> Queued(request, s)
      BY <1>3, <1>5 DEF Queued
    <2> QED BY <1>4, <2>1, <2>2, QueueLeaves
  <1>8. OwnIn(request', conns', borrowed', overtaken')
    <2>1. OwnIn(request', conns, borrowed, overtaken)
      BY <1>5, OwnStep
    <2> QED BY <1>6, <2>1
  <1>9. CountIn(pinned, request', overtaken')
    <2>1. ~request[r].slot
      BY <1>1, Flying DEF Shaped
    <2>2. SlottedIn(request') = SlottedIn(request)
      BY <1>1, <1>5, <2>1 DEF SlottedIn, HasSlot
    <2> QED BY <1>6, <2>2 DEF SlotsInv, CountIn
  <1>10. \A s \in Requests : request'[s] # Waiting => Shaped(request'[s])
    <2>1. ASSUME NEW s \in Requests, request'[s] # Waiting PROVE Shaped(request'[s])
      BY <1>5, <2>1 DEF SlotsInv
    <2> QED BY <2>1
  <1>11. Full'
    BY <1>1, <1>3 DEF SlotsInv, Full
  <1>12. TypeOK'
    BY <1>1, <1>4, <1>5, <1>6, Types DEF TypeOK, PoolType, Requested, Shorter
  <1> QED BY <1>1, <1>7, <1>8, <1>9, <1>10, <1>11, <1>12 DEF SlotsInv

\* A slot was taken out of somebody's hands: the requests are rs, and the
\* limiter passes the slot on.
Passes(rs) ==
    /\ HandOverOrFree(rs)
    /\ rs \in [Requests -> Requested \cup {Waiting}]
    /\ \A s \in Requests : rs[s] # Waiting => Shaped(rs[s])
    /\ \A s \in Requests : Queued(rs, s) <=> Queued(request, s)
    /\ CountIn(pinned - 1, rs, overtaken')
    /\ OwnIn(rs, conns', borrowed', overtaken')
    /\ PoolType'

LEMMA PassesStep ==
  ASSUME SlotsInv, NEW rs, Passes(rs)
  PROVE  SlotsInv'
  <1>1. /\ rs \in [Requests -> Requested \cup {Waiting}]
        /\ \A s \in Requests : rs[s] # Waiting => Shaped(rs[s])
        /\ \A s \in Requests : Queued(rs, s) <=> Queued(request, s)
        /\ CountIn(pinned - 1, rs, overtaken')
        /\ OwnIn(rs, conns', borrowed', overtaken')
        /\ PoolType'
    BY DEF Passes
  <1>2. pinned \in 0 .. Limit /\ waiting \in Seq(Requests)
    BY Types
  <1> DEFINE A == SlottedIn(rs)
  <1>3. /\ IsFiniteSet(A) /\ Cardinality(A) \in Nat /\ Cardinality(A) <= pinned - 1
        /\ ~overtaken' => pinned - 1 = Cardinality(A)
    BY <1>1, FS_CardinalityType DEF CountIn
  <1>4. QueuedIn(rs, waiting)
    BY <1>1 DEF SlotsInv, QueuedIn, Queued
  <1>5. CASE waiting = <<>>
    <2>1. pinned' = pinned - 1 /\ request' = rs /\ waiting' = waiting
      BY <1>5 DEF Passes, HandOverOrFree, PinnedAfter
    <2>2. TypeOK'
      BY <1>1, <1>2, <1>3, <2>1, Sizes DEF TypeOK, PoolType, Requested
    <2> QED BY <1>1, <1>4, <1>5, <2>1, <2>2 DEF SlotsInv, Full
  <1>6. CASE waiting # <<>>
    <2>1. 1 \in DOMAIN waiting /\ Head(waiting) = waiting[1] /\ Shorter(waiting, 1, Tail(waiting))
      BY <1>2, <1>6, FirstLeaves
    <2>2. PICK h \in Requests : h = waiting[1]
      BY <1>2, <2>1
    <2>3. rs[h] # Waiting /\ rs[h].pc = "queued" /\ rs[h] \in Requested
      BY <1>1, <1>4, <2>1, <2>2 DEF QueuedIn
    <2>4. ~rs[h].held /\ ~rs[h].clearing /\ ~rs[h].slot
      BY <1>1, <2>3 DEF Shaped
    <2>5. PICK new : new = [rs[h] EXCEPT !.pc = "connect", !.slot = TRUE]
      OBVIOUS
    <2>6. /\ new \in Requested /\ new # Waiting /\ new.pc = "connect" /\ new.slot
          /\ ~new.held /\ ~new.clearing
      BY <2>3, <2>4, <2>5 DEF Requested, Pcs, Waiting
    <2>7. pinned' = pinned /\ waiting' = Tail(waiting)
      BY <1>6 DEF Passes, HandOverOrFree, PinnedAfter
    <2>8. request' = [rs EXCEPT ![h] = new]
      BY <1>6, <2>1, <2>2, <2>3, <2>5 DEF Passes, HandOverOrFree
    <2>9. /\ request' \in [Requests -> Requested \cup {Waiting}] /\ request'[h] = new
          /\ \A s \in Requests \ {h} : request'[s] = rs[s]
      BY <1>1, <2>6, <2>8
    <2>10. QueuedIn(request', waiting')
      <3>1. ~Queued(request', waiting[1]) /\ \A s \in Requests \ {waiting[1]} : Queued(request', s) <=> Queued(rs, s)
        BY <2>2, <2>6, <2>9 DEF Queued
      <3>2. Shorter(waiting, 1, waiting')
        BY <2>1, <2>7
      <3> QED BY <1>4, <2>1, <3>1, <3>2, QueueLeaves
    <2>11. OwnIn(request', conns', borrowed', overtaken')
      <3>1. CheckedOut(h, new, conns')
        BY <2>6 DEF CheckedOut
      <3>2. ASSUME NEW s \in Requests, request'[s] # Waiting, ~overtaken' PROVE CheckedOut(s, request'[s], conns')
        BY <1>1, <2>9, <3>1, <3>2 DEF OwnIn
      <3> QED BY <1>1, <3>2 DEF OwnIn
    <2>12. CountIn(pinned', request', overtaken')
      <3>1. SlottedIn(request') = A \cup {h} /\ h \notin A
        BY <2>3, <2>4, <2>6, <2>9 DEF SlottedIn, HasSlot
      <3> HIDE DEF A
      <3>2. IsFiniteSet(A \cup {h}) /\ Cardinality(A \cup {h}) = Cardinality(A) + 1
        BY <1>3, <3>1, FS_AddElement
      <3> QED BY <1>2, <1>3, <2>7, <3>1, <3>2, Sizes DEF CountIn
    <2>13. Full'
      BY <1>6, <2>7 DEF SlotsInv, Full
    <2>14. TypeOK'
      BY <1>1, <1>2, <2>7, <2>9, <2>10 DEF TypeOK, PoolType, Requested, QueuedIn
    <2>15. \A s \in Requests : request'[s] # Waiting => Shaped(request'[s])
      <3>1. Shaped(new)
        BY <2>6 DEF Shaped
      <3>2. ASSUME NEW s \in Requests, request'[s] # Waiting PROVE Shaped(request'[s])
        BY <1>1, <2>9, <3>1, <3>2
      <3> QED BY <3>2
    <2> QED BY <2>10, <2>11, <2>12, <2>13, <2>14, <2>15 DEF SlotsInv
  <1> QED BY <1>5, <1>6

\* The slot of r leaves its hands, and r becomes new, which has none.
LEMMA GivenUp ==
  ASSUME SlotsInv, NEW r \in Requests, NEW new \in Requested \cup {Waiting}, NEW rs,
         InFlight(r), request[r].slot, request[r].pc # "queued",
         new # Waiting => Shaped(new) /\ ~new.slot /\ new.pc # "queued",
         rs = [request EXCEPT ![r] = new], HandOverOrFree(rs), PoolType',
         borrowed' = borrowed, overtaken' \in BOOLEAN,
         ~overtaken' => /\ ~overtaken
                        /\ \A d \in Conns : conns'[d] # conns[d] => conns[d] \in {r, NoValue}
                        /\ new # Waiting => CheckedOut(r, new, conns')
  PROVE  SlotsInv'
  <1>1. /\ rs \in [Requests -> Requested \cup {Waiting}] /\ rs[r] = new
        /\ \A s \in Requests \ {r} : rs[s] = request[s]
    BY Types
  <1>2. OwnIn(rs, conns', borrowed', overtaken')
    <2>1. OwnIn(rs, conns', borrowed, overtaken')
      BY <1>1, OwnStep
    <2> QED BY <2>1
  <1>3. CountIn(pinned - 1, rs, overtaken')
    <2> DEFINE A == SlottedIn(request)
    <2>1. SlottedIn(rs) = A \ {r} /\ r \in A
      BY <1>1 DEF SlottedIn, HasSlot, InFlight
    <2>2. IsFiniteSet(A) /\ Cardinality(A) <= pinned /\ (~overtaken => pinned = Cardinality(A))
      BY DEF SlotsInv, CountIn
    <2> HIDE DEF A
    <2>3. /\ IsFiniteSet(A \ {r}) /\ Cardinality(A \ {r}) = Cardinality(A) - 1
          /\ Cardinality(A) \in Nat /\ pinned \in Nat
      BY <2>1, <2>2, FS_RemoveElement, FS_CardinalityType, Types, Sizes
    <2>4. Cardinality(A \ {r}) <= pinned - 1 /\ (~overtaken => pinned - 1 = Cardinality(A \ {r}))
      BY <2>2, <2>3
    <2>5. ~overtaken' => ~overtaken
      OBVIOUS
    <2> QED BY <2>1, <2>3, <2>4, <2>5 DEF CountIn
  <1>4. \A s \in Requests : Queued(rs, s) <=> Queued(request, s)
    BY <1>1 DEF Queued
  <1>5. \A s \in Requests : rs[s] # Waiting => Shaped(rs[s])
    <2>1. ASSUME NEW s \in Requests, rs[s] # Waiting PROVE Shaped(rs[s])
      BY <1>1, <2>1 DEF SlotsInv
    <2> QED BY <2>1
  <1>6. Passes(rs)
    BY <1>1, <1>2, <1>3, <1>4, <1>5 DEF Passes
  <1> QED BY <1>6, PassesStep

LEMMA ConnectTimeoutStep ==
  ASSUME SlotsInv, NEW r \in Requests, ConnectTimeout(r)
  PROVE  SlotsInv'
  <1>1. InFlight(r) /\ request[r].pc = "connect" /\ UNCHANGED poolVars
    BY DEF ConnectTimeout, At
  <1>2. request[r].slot
    BY <1>1, Flying DEF Shaped
  <1>3. PICK rs : rs = [request EXCEPT ![r] = Waiting]
    OBVIOUS
  <1>4. HandOverOrFree(rs)
    BY <1>2, <1>3 DEF ConnectTimeout, ReleaseSlot
  <1>5. PoolType' /\ UNCHANGED <<conns, borrowed, overtaken>> /\ overtaken' \in BOOLEAN
    BY <1>1, Types DEF poolVars, PoolType
  <1> QED BY <1>1, <1>2, <1>3, <1>4, <1>5, GivenUp

\* Connection and slot are released, r becoming new but for its slot.
LEMMA ReleaseBothStep ==
  ASSUME SlotsInv, NEW r \in Requests, NEW new \in Requested \cup {Waiting},
         InFlight(r), ReleaseBoth(r, new), request[r].pc \notin {"queued", "connect"},
         new # Waiting => /\ new.pc \notin {"queued", "connect"} /\ ~new.held
                          /\ new.slot = request[r].slot
                          /\ new.clearing => new.conn \in Conns
                          /\ new.pc = "nested" => /\ request[r].pc = "nested"
                                                  /\ new.extra = request[r].extra,
         UNCHANGED borrowed, overtaken => overtaken',
         sent' \in [Conns -> Seq(Queries)], context' \in [Conns -> Requests \cup {NoValue}],
         overtaken' \in BOOLEAN,
         ~overtaken' => /\ request[r].held \/ request[r].clearing
                        /\ new # Waiting => ~new.clearing
  PROVE  SlotsInv'
  <1>1. PICK q \in Requested : q = request[r] /\ Shaped(q)
    BY Flying
  <1>2. conns' = [conns EXCEPT ![q.conn] = NoValue]
    BY <1>1 DEF ReleaseBoth
  <1>3. PoolType'
    BY <1>2, Types DEF PoolType
  <1>4. new # Waiting => Shaped(new)
    BY <1>1 DEF Shaped
  <1>5. ~overtaken' => /\ ~overtaken /\ CheckedOut(r, q, conns) /\ q.conn \in Conns
                       /\ conns[q.conn] = r /\ q.slot /\ (q.pc = "nested" => q.extra # q.conn)
    BY <1>1, Owning DEF CheckedOut, Shaped
  <1>6. ~overtaken' => \A d \in Conns : conns'[d] # conns[d] => conns[d] \in {r, NoValue}
    BY <1>2, <1>5, Types DEF PoolType
  <1>7. CASE conns[q.conn] = NoValue \/ ~q.slot
    <2>1. overtaken'
      <3>1. r # NoValue
        BY ConnectionAssumption
      <3> QED BY <1>5, <1>7, <3>1
    <2>2. PICK end \in Requested \cup {Waiting} :
             /\ request' = [request EXCEPT ![r] = end] /\ UNCHANGED <<pinned, waiting>>
             /\ end # Waiting => /\ Shaped(end) /\ end.pc \notin {"queued", "connect"}
                                 /\ end.slot => q.slot
      <3>1. CASE conns[q.conn] = NoValue
        BY <1>1, <1>4, <3>1 DEF ReleaseBoth
      <3>2. CASE conns[q.conn] # NoValue /\ new = Waiting
        BY <1>1, <1>7, <3>2 DEF ReleaseBoth, ReleaseSlot
      <3>3. CASE conns[q.conn] # NoValue /\ new # Waiting
        <4>1. PICK end : end = [new EXCEPT !.slot = FALSE]
          OBVIOUS
        <4>2. request' = [request EXCEPT ![r] = end] /\ UNCHANGED <<pinned, waiting>>
          BY <1>1, <1>7, <3>3, <4>1 DEF ReleaseBoth, ReleaseSlot
        <4>3. end = new
          BY <1>1, <1>7, <3>3, <4>1 DEF Requested
        <4> QED BY <1>1, <1>4, <3>3, <4>2, <4>3
      <3> QED BY <3>1, <3>2, <3>3
    <2>3. Change(r, end)
      BY <1>1, <1>3, <2>1, <2>2 DEF Change, Queued, HasSlot, InFlight
    <2> QED BY <2>3, ChangeStep
  <1>8. CASE conns[q.conn] # NoValue /\ q.slot
    <2>1. PICK end : end = IF new = Waiting THEN new ELSE [new EXCEPT !.slot = FALSE]
      OBVIOUS
    <2>2. /\ end \in Requested \cup {Waiting} /\ (end = Waiting <=> new = Waiting)
          /\ end # Waiting => /\ end.pc = new.pc /\ ~end.slot /\ end.held = new.held
                              /\ end.clearing = new.clearing /\ end.conn = new.conn
                              /\ end.extra = new.extra
      BY <2>1 DEF Requested, Pcs, Waiting
    <2>3. end # Waiting => Shaped(end) /\ ~end.slot /\ end.pc # "queued"
      BY <1>4, <2>2 DEF Shaped
    <2>4. PICK rs : rs = [request EXCEPT ![r] = end]
      OBVIOUS
    <2>5. HandOverOrFree(rs)
      BY <1>1, <1>8, <2>1, <2>4 DEF ReleaseBoth, ReleaseSlot
    <2>6. ~overtaken' => (end # Waiting => CheckedOut(r, end, conns'))
      BY <1>1, <1>2, <1>5, <2>2, Types DEF CheckedOut, Shaped, PoolType
    <2> QED BY <1>1, <1>3, <1>5, <1>6, <1>8, <2>2, <2>3, <2>4, <2>5, <2>6, GivenUp
  <1> QED BY <1>7, <1>8

LEMMA SetupFailsStep ==
  ASSUME SlotsInv, NEW r \in Requests, SetupFails(r)
  PROVE  SlotsInv'
  <1>1. /\ InFlight(r) /\ request[r].pc = "setup" /\ UNCHANGED <<borrowed, context>>
        /\ overtaken' = (overtaken \/ ~request[r].held)
    BY DEF SetupFails, At
  <1>2. PICK q \in Requested : q = request[r] /\ Shaped(q)
    BY <1>1, Flying
  <1>3. PICK new : new = IF q.clearing THEN [q EXCEPT !.pc = "done", !.held = FALSE] ELSE Waiting
    OBVIOUS
  <1>4. ReleaseBoth(r, new)
    BY <1>2, <1>3 DEF SetupFails
  <1>5. /\ new \in Requested \cup {Waiting}
        /\ new # Waiting => /\ new.pc = "done" /\ ~new.held /\ new.slot = q.slot
                            /\ new.clearing /\ q.clearing /\ new.conn = q.conn
    BY <1>3 DEF Requested, Pcs, Waiting
  <1>6. new # Waiting => new.conn \in Conns
    BY <1>2, <1>5 DEF Shaped
  <1>7. /\ sent' \in [Conns -> Seq(Queries)] /\ context' \in [Conns -> Requests \cup {NoValue}]
        /\ overtaken' \in BOOLEAN
    BY <1>1, <1>2, AnswersTyped, Types DEF SetupFails, PoolType, Requested
  <1>8. ~overtaken' => q.held /\ ~q.clearing
    BY <1>1, <1>2 DEF Shaped
  <1> QED BY <1>1, <1>2, <1>4, <1>5, <1>6, <1>7, <1>8, ReleaseBothStep

LEMMA EndReleaseStep ==
  ASSUME SlotsInv, NEW r \in Requests, EndRelease(r)
  PROVE  SlotsInv'
  <1>1. InFlight(r) /\ request[r].clearing /\ UNCHANGED <<borrowed, overtaken>>
    BY DEF EndRelease
  <1>2. PICK q \in Requested : q = request[r] /\ Shaped(q)
    BY <1>1, Flying
  <1>3. PICK new : new = IF q.pc = "done" THEN Waiting ELSE [q EXCEPT !.clearing = FALSE]
    OBVIOUS
  <1>4. ReleaseBoth(r, new)
    BY <1>2, <1>3 DEF EndRelease
  <1>5. /\ q.pc \notin {"queued", "connect"} /\ ~q.held
    BY <1>1, <1>2 DEF Shaped
  <1>6. /\ new \in Requested \cup {Waiting}
        /\ new # Waiting => /\ new.pc = q.pc /\ new.held = q.held /\ new.slot = q.slot
                            /\ ~new.clearing /\ new.extra = q.extra
    BY <1>3 DEF Requested, Pcs, Waiting
  <1>7. /\ sent' \in [Conns -> Seq(Queries)] /\ context' \in [Conns -> Requests \cup {NoValue}]
        /\ overtaken' \in BOOLEAN
    BY <1>1, AnswersTyped, Types DEF EndRelease, PoolType
  <1> QED BY <1>1, <1>2, <1>4, <1>5, <1>6, <1>7, ReleaseBothStep

-----------------------------------------------------------------------------
LEMMA SlotsNextInv == SlotsInv /\ [SlotsNext]_slotVars => SlotsInv'
  <1> SUFFICES ASSUME SlotsInv, [SlotsNext]_slotVars PROVE SlotsInv'
    OBVIOUS
  <1>1. ASSUME NEW r \in Requests, RequestStep(r) PROVE SlotsInv'
    <2>1. CASE Acquire(r)
      BY <2>1, AcquireStep
    <2>2. CASE SlotTimeout(r)
      BY <2>2, SlotTimeoutStep
    <2>3. ASSUME NEW c \in Conns, Connect(r, c) PROVE SlotsInv'
      BY <2>3, ConnectStep
    <2>4. ASSUME NEW c \in Conns, NestedConnect(r, c) PROVE SlotsInv'
      BY <2>4, NestedConnectStep
    <2>5. CASE ConnectTimeout(r)
      BY <2>5, ConnectTimeoutStep
    <2>6. CASE Setup(r)
      BY <2>6, SetupStep
    <2>7. CASE SetupFails(r)
      BY <2>7, SetupFailsStep
    <2>8. CASE Nest(r) \/ NestedTimeout(r)
      BY <2>8, NestStep
    <2>9. CASE NestedRelease(r)
      BY <2>9, NestedReleaseStep
    <2>10. CASE Respond(r)
      BY <2>10, RespondStep
    <2>11. CASE ClientAbort(r)
      BY <2>11, ClientAbortStep
    <2>12. CASE EndRelease(r)
      BY <2>12, EndReleaseStep
    <2> QED BY <1>1, <2>1, <2>2, <2>3, <2>4, <2>5, <2>6, <2>7, <2>8, <2>9, <2>10, <2>11, <2>12
        DEF RequestStep
  <1>2. ASSUME NEW b \in Borrowers, ReleaseUnpinned(b) \/ \E c \in Conns : TakeUnpinned(b, c)
        PROVE  SlotsInv'
    <2>1. \E c \in Conns : TRUE
      BY ConnectionAssumption
    <2> QED BY <1>2, <2>1, UnpinnedStep
  <1>3. CASE UNCHANGED slotVars
    BY <1>3 DEF slotVars, poolVars, SlotsInv, TypeOK, Full
  <1> QED BY <1>1, <1>2, <1>3 DEF SlotsNext

LEMMA SlotsInvariant == SlotsSpec => []SlotsInv
  BY SlotsInitInv, SlotsNextInv, PTL DEF SlotsSpec

\* The limiter, the requests and the pool keep their types; in particular no
\* more requests pin a connection than the limiter was built for.
THEOREM SlotsTypeCorrect == SlotsSpec => []TypeOK
  <1>1. SlotsInv => TypeOK
    BY DEF SlotsInv
  <1> QED BY SlotsInvariant, <1>1, PTL

\* No slot is given back twice, whatever races: grants, time-outs, failed
\* setups, aborts, responses and check-outs released by another.  And until a
\* setup fails behind the abort of its request none is lost: the limiter counts
\* just the slots that somebody will still release (PinnedClientLimiter,
\* auditContextMiddleware and releaseClient in audit-context.ts).
THEOREM EverySlotAccounted == SlotsSpec => []SlotsAccounted
  <1>1. SlotsInv => SlotsAccounted
    <2> SUFFICES ASSUME SlotsInv PROVE SlotsAccounted
      OBVIOUS
    <2>1. SlottedIn(request) = Slotted
      BY DEF SlottedIn, HasSlot, Slotted, InFlight
    <2>2. ASSUME ~overtaken, NEW r \in Slotted
          PROVE  At(r, "connect") \/ Held(r) \/ request[r].clearing
      BY <2>2, Owning DEF Slotted, CheckedOut, At, Held
    <2>3. \A r \in Requests : At(r, "queued") <=> \E i \in DOMAIN waiting : waiting[i] = r
      BY DEF SlotsInv, QueuedIn, At, InFlight
    <2>4. CountIn(pinned, request, overtaken) /\ Full
      BY DEF SlotsInv
    <2> QED BY <2>1, <2>2, <2>3, <2>4 DEF SlotsAccounted, CountIn, Full
  <1> QED BY SlotsInvariant, <1>1, PTL

\* The connections that wait for another one are fewer than the pool has.
LEMMA SomeUnblocked ==
  ASSUME SlotsInv, Reserved >= 1, MaxConns >= 2
  PROVE  \E c \in Conns : ~Blocked(c)
  <1> SUFFICES ASSUME \A c \in Conns : Blocked(c) PROVE FALSE
    OBVIOUS
  <1> DEFINE B == {r \in Requests : Pins(r)}
             f == [r \in B |-> request[r].conn]
             T == {f[r] : r \in B}
  <1>1. Limit < MaxConns
    BY Sizes, ConnectionAssumption DEF Limit
  <1>2. IsFiniteSet(B) /\ Cardinality(B) \in Nat /\ Cardinality(B) <= pinned
    <2>1. B \subseteq SlottedIn(request)
      BY Flying DEF Pins, Held, SlottedIn, HasSlot, InFlight, Shaped
    <2>2. IsFiniteSet(SlottedIn(request)) /\ Cardinality(SlottedIn(request)) <= pinned
      BY DEF SlotsInv, CountIn
    <2> HIDE DEF B
    <2>3. /\ IsFiniteSet(B) /\ Cardinality(B) <= Cardinality(SlottedIn(request))
          /\ Cardinality(B) \in Nat /\ Cardinality(SlottedIn(request)) \in Nat
      BY <2>1, <2>2, FS_Subset, FS_CardinalityType
    <2>4. pinned \in Nat
      BY Types, Sizes
    <2> QED BY <2>2, <2>3, <2>4
  <1>3. pinned \in 0 .. Limit
    BY Types
  <1>4. Conns \subseteq T
    BY DEF Blocked
  <1>5. f \in Surjection(B, T)
    BY DEF Surjection
  <1> HIDE DEF B, f, T
  <1>6. IsFiniteSet(T) /\ Cardinality(T) <= Cardinality(B)
    BY <1>2, <1>5, FS_Surjection
  <1>7. Cardinality(Conns) <= Cardinality(T) /\ Cardinality(T) \in Nat
    BY <1>4, <1>6, FS_Subset, FS_CardinalityType
  <1> QED BY <1>1, <1>2, <1>3, <1>6, <1>7, Sizes DEF MaxConns

\* With a reserve, and with more than one connection in the pool, a handler
\* that asks for a second connection is never left to a pool in which every
\* connection waits for another (pinnedClientLimiterFor).
THEOREM NestedCompletes ==
  ASSUME Reserved >= 1, MaxConns >= 2
  PROVE  SlotsSpec => []NestedCanComplete
  <1>1. SlotsInv => NestedCanComplete
    BY SomeUnblocked DEF NestedCanComplete
  <1> QED BY SlotsInvariant, <1>1, PTL
=============================================================================
