----------------------------- MODULE UserWallets -----------------------------
(***************************************************************************)
(* The wallets of a user: linked by the user, by a tenant or an m2m        *)
(* application, replaced by an admin, unlinked one by one, and released    *)
(* with the organization.  Most of these compute a list from what they     *)
(* have read, and hand it to UsersRepository.update, which replaces the    *)
(* user's rows by the list.  PostgreSQL runs that transaction in READ      *)
(* COMMITTED: its UPDATE sees the rows committed when it starts, its       *)
(* INSERT meets every row that is live when it ends.                       *)
(***************************************************************************)
EXTENDS Naturals, FiniteSets

CONSTANTS
    Users,          \* user accounts
    Members,        \* the ones of the organization that may be deleted
    TenantUsers,    \* the ones a tenant created
    Addresses,      \* wallet addresses
    Requests,       \* concurrent HTTP requests
    NoValue,        \* no owner
    MultiOrg,       \* MULTI_ORG_ENABLED: members are not managed by /users
    Limit           \* MAX_WALLETS_PER_USER

ASSUME WalletAssumption ==
    /\ Members \subseteq Users
    /\ TenantUsers \subseteq Users \ Members
    /\ NoValue \notin Users
    /\ MultiOrg \in BOOLEAN
    /\ IsFiniteSet(Addresses)
    /\ Limit \in Nat \ {0}

VARIABLES
    account,    \* usersTable: a user not created yet, live, or deleted
    wallets,    \* the live rows of user_wallets: the owner of each address
    history,    \* the users each address has a row for, live or soft-deleted
    orgDeleted, \* whether the organization is soft-deleted
    req,        \* the requests in flight
    entitled,   \* history: who has proved, or been given, which address
    overlapped  \* history: users two requests have worked on at once

vars == <<account, wallets, history, orgDeleted, req, entitled, overlapped>>

Waiting == [pc |-> "idle"]
Ops == {"associate", "disassociate", "replace", "m2m_add", "tenant_add",
        "create", "m2m_create"}
Requested ==
    [pc : {"handler", "validate", "update", "snapshot", "commit", "insert"},
     op : Ops, user : Users, given : SUBSET Addresses, new : SUBSET Addresses,
     list : SUBSET Addresses, seen : SUBSET Addresses]

TypeOK ==
    /\ account \in [Users -> {"none", "live", "deleted"}]
    /\ wallets \in [Addresses -> Users \cup {NoValue}]
    /\ history \in [Addresses -> SUBSET Users]
    /\ orgDeleted \in BOOLEAN
    /\ req \in [Requests -> Requested \cup {Waiting}]
    /\ entitled \subseteq Users \X Addresses
    /\ overlapped \subseteq Users

Init ==
    /\ account \in [Users -> {"none", "live"}]
    /\ wallets = [a \in Addresses |-> NoValue]
    /\ history = [a \in Addresses |-> {}]
    /\ orgDeleted = FALSE
    /\ req = [r \in Requests |-> Waiting]
    /\ entitled = {}
    /\ overlapped = {}

-----------------------------------------------------------------------------
(* Helpers                                                                 *)

Live(u) == account[u] = "live"
WalletsOf(u) == {a \in Addresses : wallets[a] = u}
InFlight(r) == req[r] # Waiting
At(r, pc) == InFlight(r) /\ req[r].pc = pc
Doing(r, op) == InFlight(r) /\ req[r].op = op
Goto(r, pc) == req' = [req EXCEPT ![r].pc = pc]
Finish(r) == req' = [req EXCEPT ![r] = Waiting]

\* Mutant of WithinLimitOf: off by one.
WithinLimitOfPlusOne(list) == Cardinality(list) <= Limit + 1

\* The limit, as each caller of update checks it on the list it has read.
WithinLimitOf(list) == Cardinality(list) <= Limit

\* Rows of the addresses change hands: no open transaction has seen the new ones.
Unseen(reqs, as) ==
    [r \in Requests |-> IF reqs[r] = Waiting THEN Waiting
                        ELSE [reqs[r] EXCEPT !.seen = @ \ as]]

Start(r, pc, op, u, given, list) ==
    /\ ~InFlight(r)
    /\ req' = [req EXCEPT ![r] = [pc |-> pc, op |-> op, user |-> u,
                                  given |-> given, new |-> given \ WalletsOf(u),
                                  list |-> list, seen |-> {}]]
    /\ overlapped' = IF \E s \in Requests : InFlight(s) /\ req[s].user = u
                     THEN overlapped \cup {u} ELSE overlapped

\* assertManagedHere
ManagedHere(u) == Live(u) /\ (MultiOrg => u \notin Members)

-----------------------------------------------------------------------------
(* What the routes compute                                                 *)

\* The authentication hook: the user and the wallets it loaded travel with the
\* request, and the organization was live.
Authenticate(r, op, u, a) ==
    /\ Live(u)
    /\ u \in Members => ~orgDeleted
    /\ Start(r, "handler", op, u, {a}, WalletsOf(u))
    /\ UNCHANGED <<account, wallets, history, orgDeleted, entitled>>

\* verifyAndAssociateWallet after the proof: the user is read again.
Associate(r) ==
    /\ At(r, "handler") /\ Doing(r, "associate")
    /\ LET u == req[r].user
           list == WalletsOf(u) \cup req[r].given IN
       IF Live(u) /\ list # WalletsOf(u) /\ WithinLimitOf(list)
       THEN req' = [req EXCEPT ![r].pc = "update", ![r].list = list]
       ELSE Finish(r)
    /\ UNCHANGED <<account, wallets, history, orgDeleted, entitled, overlapped>>

\* DELETE /user-wallets/:walletAddress: the list is the one the hook loaded.
Disassociate(r) ==
    /\ At(r, "handler") /\ Doing(r, "disassociate")
    /\ IF req[r].given \subseteq WalletsOf(req[r].user)
       THEN req' = [req EXCEPT ![r].pc = "update",
                               ![r].list = @ \ req[r].given]
       ELSE Finish(r)
    /\ UNCHANGED <<account, wallets, history, orgDeleted, entitled, overlapped>>

\* PUT /users/:id
Replace(r, u, list) ==
    /\ ManagedHere(u)
    /\ WithinLimitOf(list)
    /\ Start(r, "update", "replace", u, list, list)
    /\ UNCHANGED <<account, wallets, history, orgDeleted, entitled>>

\* M2mAppActionsService.addWalletsToUser and TenantsService.addWalletsToUser,
\* their read and the limit.
Add(r, op, u, given) ==
    /\ op = "m2m_add" => u \in Members /\ ~orgDeleted
    /\ op = "tenant_add" => u \in TenantUsers
    /\ Live(u)
    /\ given # {}
    /\ op = "m2m_add" => ~(given \subseteq WalletsOf(u))
    /\ WithinLimitOf(WalletsOf(u) \cup given)
    /\ Start(r, "validate", op, u, given, WalletsOf(u) \cup given)
    /\ UNCHANGED <<account, wallets, history, orgDeleted, entitled>>

\* POST /users by an admin, and M2mAppActionsService/TenantsService.createUser.
Create(r, op, u, given) ==
    /\ account[u] = "none"
    /\ op = "create" <=> u \notin Members \cup TenantUsers
    /\ u \in Members => ~orgDeleted
    /\ WithinLimitOf(given)
    /\ Start(r, IF op = "create" THEN "insert" ELSE "validate", op, u, given, given)
    /\ UNCHANGED <<account, wallets, history, orgDeleted, entitled>>

\* ~walletExistInSystem
Unused(a) == history[a] = {}

\* validateNewWalletAddresses of the addresses the user did not have when read.
Validate(r) ==
    /\ At(r, "validate")
    /\ IF \A a \in req[r].new : Unused(a)
       THEN Goto(r, IF Doing(r, "m2m_add") THEN "update" ELSE "insert")
       ELSE Finish(r)
    /\ UNCHANGED <<account, wallets, history, orgDeleted, entitled, overlapped>>

-----------------------------------------------------------------------------
(* UsersRepository.update, UsersRepository.create                          *)

\* The wallets of a tenant's user are not replaced by a different list.
RefusedForTenant(r) ==
    /\ req[r].user \in TenantUsers
    /\ req[r].list # {}
    /\ req[r].list # WalletsOf(req[r].user)

\* existingUser, read outside of the transaction.
UpdateRead(r) ==
    /\ At(r, "update")
    /\ IF Live(req[r].user) /\ ~RefusedForTenant(r) THEN Goto(r, "snapshot") ELSE Finish(r)
    /\ UNCHANGED <<account, wallets, history, orgDeleted, entitled, overlapped>>

\* The UPDATE starts: these are the rows it will soft-delete.
UpdateStart(r) ==
    /\ At(r, "snapshot")
    /\ req' = [req EXCEPT ![r].pc = "commit", ![r].seen = WalletsOf(req[r].user)]
    /\ UNCHANGED <<account, wallets, history, orgDeleted, entitled, overlapped>>

\* Mutant of Conflicts: the index does not tell users apart.
ConflictsNever(r, as) == {}

\* user_wallets_address_active_unique, against rows the UPDATE did not see.
Conflicts(r, as) == {a \in as \ req[r].seen : wallets[a] # NoValue}

\* The userId of the rows that are inserted.
Inserted(r) == req[r].user

\* The user's rows that r has seen go, the listed ones come.
SetWallets(r, as) ==
    /\ wallets' = [a \in Addresses |->
                     IF a \in as THEN Inserted(r)
                     ELSE IF a \in req[r].seen THEN NoValue ELSE wallets[a]]
    /\ history' = [a \in Addresses |->
                     IF a \in as THEN history[a] \cup {Inserted(r)} ELSE history[a]]
    /\ req' = Unseen([req EXCEPT ![r] = Waiting], as \cup req[r].seen)

\* History: what the write of r was asked to link.
Written(r, u) ==
    entitled' = IF Doing(r, "disassociate") THEN entitled
                ELSE entitled \cup ({u} \X req[r].given)

\* Mutant of Applies: no foreign key from a wallet to its user.
AppliesToAnybody(r) == Conflicts(r, req[r].list) = {}

\* A deleted user has no row for the wallets to refer to.
Applies(r) == Live(req[r].user) /\ Conflicts(r, req[r].list) = {}

UpdateCommit(r) ==
    /\ At(r, "commit")
    /\ LET u == req[r].user IN
       IF Applies(r)
       THEN SetWallets(r, req[r].list) /\ Written(r, u)
       ELSE Finish(r) /\ UNCHANGED <<wallets, history, entitled>>
    /\ UNCHANGED <<account, orgDeleted, overlapped>>

\* create, and TenantsRepository.addWalletsToUser, which reads the user again:
\* rows are inserted, none is deleted.
Insert(r) ==
    /\ At(r, "insert")
    /\ LET u == req[r].user
           new == req[r].given \ WalletsOf(u) IN
       IF /\ account[u] = IF Doing(r, "tenant_add") THEN "live" ELSE "none"
          /\ Conflicts(r, new) = {}
       THEN /\ account' = [account EXCEPT ![u] = "live"]
            /\ SetWallets(r, new)
            /\ Written(r, u)
       ELSE Finish(r) /\ UNCHANGED <<account, wallets, history, entitled>>
    /\ UNCHANGED <<orgDeleted, overlapped>>

\* The request fails where it stands; an open transaction rolls back.
Abort(r) ==
    /\ InFlight(r)
    /\ Finish(r)
    /\ UNCHANGED <<account, wallets, history, orgDeleted, entitled, overlapped>>

-----------------------------------------------------------------------------
(* Deletions                                                               *)

Release(as) ==
    /\ wallets' = [a \in Addresses |-> IF a \in as THEN NoValue ELSE wallets[a]]
    /\ req' = Unseen(req, as)

\* DELETE /users/:id: the rows go with the user.
DeleteUser(u) ==
    /\ ManagedHere(u)
    /\ account' = [account EXCEPT ![u] = "deleted"]
    /\ Release(WalletsOf(u))
    /\ history' = [a \in Addresses |-> history[a] \ {u}]
    /\ UNCHANGED <<orgDeleted, entitled, overlapped>>

\* deleteOrganizationAndRevokeAccess, releaseWalletsByOrganizationId
DeleteOrg ==
    /\ ~orgDeleted
    /\ orgDeleted' = TRUE
    /\ Release(UNION {WalletsOf(u) : u \in Members})
    /\ UNCHANGED <<account, history, entitled, overlapped>>

-----------------------------------------------------------------------------
RequestStep(r) ==
    \/ Associate(r)
    \/ Disassociate(r)
    \/ Validate(r)
    \/ UpdateRead(r)
    \/ UpdateStart(r)
    \/ UpdateCommit(r)
    \/ Insert(r)
    \/ Abort(r)

Next ==
    \/ \E r \in Requests, u \in Users, a \in Addresses,
          op \in {"associate", "disassociate"} : Authenticate(r, op, u, a)
    \/ \E r \in Requests, u \in Users, as \in SUBSET Addresses :
          \/ Replace(r, u, as)
          \/ \E op \in {"m2m_add", "tenant_add"} : Add(r, op, u, as)
          \/ \E op \in {"create", "m2m_create"} : Create(r, op, u, as)
    \/ \E r \in Requests : RequestStep(r)
    \/ \E u \in Users : DeleteUser(u)
    \/ DeleteOrg

Spec == Init /\ [][Next]_vars

-----------------------------------------------------------------------------
(* Properties                                                              *)

\* Whatever stale list an update writes, the holder of a wallet is a live user
\* who has proved to own it or was given it by an admin, a tenant or an m2m
\* application (UsersRepository.update and its callers).  And a user has more
\* wallets than the limit only where requests about it overlap: each of the
\* five checks that precede a write counts what the write will leave.
EntitledOwner ==
    /\ \A a \in Addresses :
          wallets[a] # NoValue => Live(wallets[a]) /\ <<wallets[a], a>> \in entitled
    /\ \A u \in Users : u \notin overlapped => Cardinality(WalletsOf(u)) <= Limit

\* A wallet never passes from one user to another without having been free in
\* between, however the transactions of the two overlap (the index
\* user_wallets_address_active_unique).
NoTakeover ==
    [][\A a \in Addresses :
         wallets[a] # NoValue /\ wallets'[a] # NoValue => wallets'[a] = wallets[a]]_vars
=============================================================================
