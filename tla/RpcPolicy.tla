---------------------------- MODULE RpcPolicy ----------------------------
(***************************************************************************)
(* What the authorizer of the JSON-RPC proxy answers for a caller: the     *)
(* addresses it acts for, the addresses its organizations let it see, the  *)
(* event logs it may read and the calls it may make.                       *)
(*                                                                         *)
(* A policy q is what the database holds: people (users with their roles,  *)
(* wallets and organization; the application and its linked organizations; *)
(* the tenant and its users; the deleted organizations), contracts (owner, *)
(* deployer, what they disclose to anybody) and grants (event permissions; *)
(* the calls a role may make, as MethodPolicy decides them).  A holder h   *)
(* is the caller as its request was authenticated: its roles and, of a     *)
(* user, wallets and organization are those of that moment.                *)
(***************************************************************************)
EXTENDS Naturals

CONSTANTS
    Users, Orgs, Roles, Wallets,
    Topics,      \* what an event carries: addresses and other values
    Contracts,   \* addresses of contracts, deployed or not
    Reserved,    \* contracts in the range of the system contracts
    Zone,        \* owner of what belongs to no organization
    NoOne,       \* the recipient of a creation; an absent address or block
    Any,         \* an absent topic condition, contract or topic of a filter
    RoleOrg,     \* the organization of a role, or Zone
    Permissions, \* the system permissions of a role
    MultiOrg     \* the multi-organization feature

ASSUME RpcPolicyAssumption ==
    /\ Reserved \subseteq Contracts
    /\ Contracts \cap Wallets = {}
    /\ Zone \notin Orgs
    /\ NoOne \notin Wallets \cup Contracts
    /\ RoleOrg \in [Roles -> Orgs \cup {Zone}]
    /\ MultiOrg \in BOOLEAN
    /\ Users \cap {"tenant", "m2m_app", "anonymous"} = {}
    /\ Topics \cap {Any, "userAddress"} = {} /\ Any # "userAddress"

Callers == Users \cup {"tenant", "m2m_app", "anonymous"}

(* What the database may hold. *)

People ==
    [user : [Users -> [roles : SUBSET Roles, wallets : SUBSET Wallets, org : Orgs \cup {Zone}]],
     app : [roles : SUBSET Roles, linked : SUBSET Orgs],
     tenant : [roles : SUBSET Roles, members : SUBSET Users],
     deleted : SUBSET Orgs]
ContractRows ==
    [Contracts -> [org : Orgs \cup {Zone}, deployer : Wallets \cup {NoOne},
                   discloses : SUBSET {"bytecode", "supply"}, holders : SUBSET Wallets, from : Nat]]
Grants ==
    [events : SUBSET [contract : Contracts, roles : SUBSET Roles,
                      topic : Topics \cup {Any, "userAddress"}, orgOnly : BOOLEAN],
     calls : SUBSET (Roles \X Contracts)]
Tables == [people : People, contracts : ContractRows, grants : Grants]

ReadPermissions == {"full_read_access", "full_sequencer_rpc_access"}

(* Authentication. *)

RolesAtLogin(q, c) ==
    CASE c \in Users    -> q.people.user[c].roles
      [] c = "tenant"   -> q.people.tenant.roles
      [] c = "m2m_app"  -> {r \in q.people.app.roles : RoleOrg[r] \notin q.people.deleted}
      [] OTHER          -> {}

Holder(q, c) ==
    [is |-> c, roles |-> RolesAtLogin(q, c),
     wallets |-> IF c \in Users THEN q.people.user[c].wallets ELSE {},
     org |-> IF c \in Users THEN q.people.user[c].org ELSE Zone]

Authenticates(q, c) == c \in Users => q.people.user[c].org \notin q.people.deleted

(* Permissions of a role holder. *)

ZoneHas(h, perm) == \E r \in h.roles : RoleOrg[r] = Zone /\ perm \in Permissions[r]
Has(h, perm) == \E r \in h.roles : perm \in Permissions[r]
HasAnyFor(h, perms, org) ==
    \E r \in h.roles : RoleOrg[r] \in {Zone, org} /\ perms \cap Permissions[r] # {}
FullOrgs(h, extra) ==
    {RoleOrg[r] : r \in {s \in h.roles : (ReadPermissions \cup extra) \cap Permissions[s] # {}}}
        \ {Zone}

FullSequencer(h) == ZoneHas(h, "full_sequencer_rpc_access")
FullRead(h) == h.is \in Users \cup {"m2m_app"} /\ ZoneHas(h, "full_read_access")
MethodRead(h, perm) == h.is \in Users \cup {"m2m_app"} /\ ZoneHas(h, perm)
MayDeploy(h) == Has(h, "contract_deployment") \/ Has(h, "full_sequencer_rpc_access")
RpcEnabled(h) == h.is = "m2m_app" => Has(h, "org_rpc_access")
Filters(h) == h.is \in Users \cup {"tenant", "m2m_app"}

(* Addresses. *)

WalletsOf(q, users) == UNION {q.people.user[u].wallets : u \in users}
LiveMembers(q, orgs) == {u \in Users : q.people.user[u].org \in orgs \ q.people.deleted}
Linked(q) == q.people.app.linked \ q.people.deleted

Associated(q, h) ==
    CASE h.is \in Users  -> h.wallets
      [] h.is = "tenant" -> WalletsOf(q, q.people.tenant.members)
      [] h.is = "m2m_app" /\ RpcEnabled(h) -> WalletsOf(q, LiveMembers(q, Linked(q)))
      [] OTHER -> {}

OrgWallets(q, orgs) == WalletsOf(q, LiveMembers(q, orgs))

VisibleAddresses(q, h) ==
    Associated(q, h) \cup
        (IF h.is = "tenant" \/ ~RpcEnabled(h) THEN {} ELSE OrgWallets(q, FullOrgs(h, {})))

OrgVisible(q, h, a, includeUsers, extra) ==
    /\ h.is \in Users \/ (h.is = "m2m_app" /\ RpcEnabled(h))
    /\ a \notin Reserved
    /\ \/ a \in Contracts /\ q.contracts[a].org # Zone
          /\ HasAnyFor(h, ReadPermissions \cup extra, q.contracts[a].org)
       \/ includeUsers /\ a \in OrgWallets(q, FullOrgs(h, extra))

Owns(q, h, a) == FullSequencer(h) \/ a \in Associated(q, h)
Authored(q, h, a) == a \in Contracts /\ q.contracts[a].deployer \in Associated(q, h)

(* Event permissions: a contract, the roles that hold it, what it asks of  *)
(* the topic (anything, an address of the reader, a value) and orgOnly.    *)

ContractOrg(q, a) == IF MultiOrg \/ a \in Reserved THEN q.contracts[a].org ELSE Zone

\* Whether the permission binds this reader at all, and whose wallets stand
\* for "an address of the reader" if it does.
InScope(q, h, perm) ==
    LET org == ContractOrg(q, perm.contract)
        scoped == MultiOrg /\ org # Zone /\ perm.orgOnly
    IN  /\ ~(org # Zone /\ perm.contract \in Reserved)
        /\ scoped => IF h.is = "m2m_app" THEN org \in Linked(q)
                                         ELSE h.is \in Users /\ h.org = org

ReaderWallets(q, h, perm) ==
    LET org == ContractOrg(q, perm.contract)
    IN  IF h.is = "m2m_app" /\ MultiOrg /\ org # Zone /\ perm.orgOnly
        THEN WalletsOf(q, LiveMembers(q, {org})) ELSE Associated(q, h)

TopicMatches(wallets, asked, topic) ==
    \/ asked = Any
    \/ asked = "userAddress" /\ topic \in wallets
    \/ asked = topic

\* A tenant's roles give it the events they are granted, never those of an organization.
FullyVisibleContracts(q, h) ==
    LET orgs == FullOrgs(h, {"rpc_read_eth_getLogs"}) \ q.people.deleted
    IN  {a \in Contracts : h.is # "tenant" /\ q.contracts[a].org \in orgs} \ Reserved

PermissionsOn(q, h, contracts) ==
    {perm \in q.grants.events : perm.contract \in contracts /\ perm.roles \cap h.roles # {}}

MayReadLog(q, h, log) ==
    /\ Filters(h) /\ RpcEnabled(h) /\ h.roles # {}
    /\ \/ log.contract \in FullyVisibleContracts(q, h)
       \/ \E perm \in PermissionsOn(q, h, {log.contract}) :
             /\ InScope(q, h, perm)
             /\ TopicMatches(ReaderWallets(q, h, perm), perm.topic, log.topic)

\* The check before the query is sent: could this filter match anything?
\* It reads a user anew.
\* Mutant: a permission for any topic is held against the queried ones.
TopicCompatibleStrict(wallets, asked, queried) ==
    queried = Any \/ \E v \in queried : asked # Any /\ TopicMatches(wallets, asked, v)
TopicCompatible(wallets, asked, queried) ==
    \/ queried = Any
    \/ \E v \in queried : TopicMatches(wallets, asked, v)
    \/ asked = Any

CouldMatch(q, h, filter) ==
    LET now == IF h.is \in Users THEN Holder(q, h.is) ELSE h
        queried == IF filter.contracts = Any THEN Contracts ELSE filter.contracts
    IN  /\ RpcEnabled(h)
        /\ \/ FullyVisibleContracts(q, h) \cap queried # {}
           \/ \E perm \in PermissionsOn(q, now, queried) :
                 TopicCompatible(Associated(q, now), perm.topic, filter.topics)

(* Calls and deployments. *)

Signer(q, users, a) == {u \in users : a \in q.people.user[u].wallets}
Granted(q, roles, a) == \E r \in roles : <<r, a>> \in q.grants.calls
UserMayCall(q, u, a) ==
    q.people.user[u].org \notin q.people.deleted /\ Granted(q, q.people.user[u].roles, a)

MayCall(q1, q2, h, from, to) ==
    \/ h.is \in Users /\ from \in h.wallets /\ Granted(q2, h.roles, to)
    \/ /\ h.is = "tenant"
       /\ Signer(q1, q1.people.tenant.members, from) # {}
       /\ \E u \in Signer(q2, Users, from) : UserMayCall(q2, u, to)
    \/ /\ h.is = "m2m_app" /\ RpcEnabled(h)
       /\ \E u \in Signer(q1, LiveMembers(q1, Linked(q1)), from) :
             from \in q2.people.user[u].wallets /\ UserMayCall(q2, u, to)

\* Mutant: an application's deployment asks who owns the address, which full
\* sequencer access answers for every address.
AuthorizesOwned(q1, q2, h, from) ==
    /\ h.is \in Users \cup {"m2m_app"} /\ RpcEnabled(h)
    /\ Owns(q1, h, from) /\ MayDeploy(h)
AuthorizesDeployment(q1, q2, h, from) ==
    \/ h.is \in Users /\ Owns(q1, h, from) /\ MayDeploy(h)
    \/ /\ h.is = "m2m_app" /\ RpcEnabled(h) /\ MayDeploy(h)
       /\ \E u \in Signer(q1, LiveMembers(q1, Linked(q1)), from) :
             MayDeploy([roles |-> q2.people.user[u].roles])
=============================================================================
