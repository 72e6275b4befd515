# A formal model of the Prividium core

This directory models, in TLA+, the part of the repository that decides who may
act and what is remembered of it: the permissions API
(`src/apps/permissions-api/src`, "the API" below). The modules are translated
from the source; file names in this document are relative to that directory
unless they begin with `src/`. TLC checks every module on small instances, and
TLAPS proves theorems about some of them for every value of their constants.

## 1. The system

The API is a set of stateless Node.js replicas in front of one PostgreSQL
database and one target chain (ZKsync OS or Besu). Every handler is a
coroutine: between two `await`s it runs alone in its process, at every `await`
any other request, of this replica or of another, and any background job may
run. Repositories issue single statements or READ COMMITTED transactions. So
everything that is decided from a read and written by a later statement is
decided from a state that may no longer hold, and the question that recurs in
every component is which conditional UPDATE, unique index or row lock makes up
for it.

| component | state | operations | what makes it hard | what makes it correct |
|---|---|---|---|---|
| Login (SIWE, OIDC, tenants, services, wallet association) | nonce tokens held by clients, `siwe_consumed_nonces`, `passkey_challenges`, `sessions` | draw a challenge, present it, second factor, consume the nonce, create the session, purge consumed nonces | validation and consumption are apart; the purge; wallets, roles and passkeys change meanwhile | one session per nonce and per assertion; the session is the bound user's; no way around the second factor |
| Sessions | `sessions`, organizations' soft delete | create, authenticate, extend, log out, revoke (own, others, admin, organization), collect | read-then-write extensions against revocations and the collector | ended is ended; idle and absolute limits; members of a deleted organization are locked out |
| Passkeys and step-up | `passkey_credentials`, `passkey_challenges`, `step_up_proofs` | enrol, delete, reset, begin/finish step-up, gate | assertions are replayed, deletions race, counts go stale | one gate per assertion, for the action it was made for; MFA users keep a passkey; one enrolment per round of challenges |
| Audit context | pool connections, limiter slots and queue | wait, pin, set up, respond, abort | time-outs against grants, aborts in mid-handler, nested acquisitions | slots are accounted for, no deadlock, no foreign context |
| Users and wallets | `users`, `user_wallets` | link, unlink, replace, add by tenant/m2m, create, delete, release | whole-list replacement from stale reads | a wallet belongs to at most one user, who is entitled to it |
| Contract deployments | `contract_deployments`, the chain | submit, time out, retry, sweep, reconcile, purge | the chain and the row are written apart; answers are lost | rows are resolved once and as the chain says; authorship is not stripped |
| Faucet | `faucet_claims` | reserve, send, confirm, recover stale | concurrent claims, receipt time-outs, crashes between payment and record | cap and cooldown are kept; the record agrees with the chain |
| Wallet tokens and allowances | `users.wallet_token`, `wallet_transaction_allowances` | make and invalidate a token, authorize, submit, record a hash, poll | a row is overwritten, and ranked anew, while submissions are in flight; hashes come late | only what was authorized is forwarded; what was acknowledged can be polled |
| Policy decisions (`/admit`, `/judge`) | decision cache, overlays | evaluate a call or a trace, serve from the cache | a decision reads several tables one after the other, generation by generation of a trace, while they are edited, and is then kept | an edit is in force everywhere after a bounded time; umbrellas excuse their own organization only |
| RPC proxy, event filters, classifiers | none of its own | authorize, forward, filter, per method | methods that show the same data are separate code; look-ups are lazy | a caller is told only what it may see, and the same by every method |
| Organizations, users' roles, m2m credentials, tenants | rows of each, `user_roles`, API keys, addresses | the routes of operators, organization admins and credentials; first logins | each checks in its pre-handler and writes in a later transaction | roles stay in their scope, nobody writes outside its organization, deletion cuts off |
| Contracts, templates, permissions | rows of each, umbrella and disclosure flags | register, replace, delete, by operators and organization admins | rows follow an address that is replaced under a check | flags are in force only where an operator approved |
| Audit trail | audit rows, written after the response | write, list for an organization | written later, and each on its own | an organization is told of the credentials it can see |
| API keys of tenants, IP arithmetic, rate limits, OAuth applications, JWT validation, metrics | rows, counters | look-ups and edits of one row | counts before inserts | |
| Client SDK | tokens in the browser | log in, extend, call | timers against requests | |

`PROJECT.json` lists all components with their sources and what is modelled of
each, and the hazards line by line.

Interactions: login creates the rows Sessions lives on; the authentication hook
of Sessions stands in front of every handler, those of StepUp, UserWallets and
Administration included; UserWallets moves the wallets that SiweLogin resolves;
the deletion of an organization revokes sessions (Sessions), releases wallets
(UserWallets) and cuts off credentials (Administration); every request that
mutates pins a connection (ConnectionSlots), and writes its audit rows from the
hook that releases it (AuditTrail); what Registry writes, PolicyDecisions and
RpcReads read, as edits of a policy; authorship checks (Deployments) are made by
the RPC authorizer. Modules that only share a table through an interface this
narrow are kept apart, and each lets the others' edits happen at any moment.

## 2. The modules

| module | models | main sources |
|---|---|---|
| `SiweLogin` | login end to end, one action per database statement | `routes/auth-routes.ts`, `services/siwe-*.ts`, `services/admin-mfa-service.ts`, `services/passkey-service.ts`, `plugins/nonce-cleanup-plugin.ts` |
| `SingleUseLogin` | abstract: a nonce grants at most one session, to its holder | implemented by `SiweLogin` (`SingleUse`) |
| `Sessions` | the sessions table and all its readers and writers | `services/session-service.ts`, `repositories/sessions-repository.ts`, `middleware/sessions-auth.ts` |
| `Lease` | abstract: unissued, good, ended, in this order only | implemented by `Sessions` (`EndedForGood`) |
| `StepUp` | passkeys, step-up proofs and the operations they gate | `services/step-up-service.ts`, `middleware/require-step-up.ts`, `routes/*webauthn-routes.ts` |
| `ConnectionSlots` | the pinned-client limiter and the pool | `middleware/audit-context.ts`, `src/packages/api-kit/src/db/client.ts` |
| `UserWallets` | every operation that changes who owns a wallet | `repositories/users-repository.ts`, `services/*-service.ts`, `routes/*users*`, `routes/user-wallets-routes.ts` |
| `Deployments` | a deployment row against the chain | `rpc/contract-deployment-context.ts`, `plugins/deployment-cleanup-plugin.ts`, `rpc/permissions/rpc-authorizer.ts` |
| `Faucet` | claims, their payments and the chain's view of them | `services/faucet-service.ts`, `repositories/faucet-claims-repository.ts` |
| `MethodPolicy` | operators: may this user call this method | `services/authorization-service.ts` |
| `PolicyDecisions` | `/admit` and `/judge` with their cache, over `MethodPolicy` | `services/admit-service.ts`, `services/judge-service.ts`, `services/decision-cache.ts` |
| `RpcPolicy` | operators: addresses, logs and calls a caller of the proxy has | `rpc/permissions/rpc-authorizer.ts`, `services/event-permission-verifier.ts`, `src/packages/access-control` |
| `RpcReads` | every filtered method of the proxy, over `RpcPolicy` | `rpc/methods/**` |
| `WalletRpc` | wallet tokens and transaction allowances | `rpc/permissions/wallet-authorizer.ts`, `rpc/methods/wallet-rules/*`, `routes/wallet-*.ts`, `repositories/wallet-transaction-allowances-repository.ts` |
| `AdminDb` | the tables of the administration, who may write them, and how requests meet | `db/schema.ts`, `middleware/require-*.ts`, `routes/organizations-routes.ts`, `repositories/users-repository.ts` |
| `AuditTrail` | what a change of a credential leaves in the audit trail, and what an organization reads there | `services/m2m-audit-service.ts`, `services/organization-audit-service.ts`, `middleware/audit-context.ts`, `repositories/audit-logs-repository.ts` |
| `Directory` | organizations, users, roles, credentials, tenants | `routes/organizations-routes.ts`, `repositories/organizations-repository.ts`, `repositories/roles-repository.ts`, `repositories/m2m-applications-repository.ts`, `services/jwt-validator-service.ts` and others |
| `Registry` | contracts, permissions, templates | `routes/contracts-routes.ts`, `repositories/contracts-repository.ts`, `repositories/contract-*-permissions-repository.ts` and others |
| `Administration` | `Directory`, `Registry` and the reads of an organization's admin, composed | |
| `*Proofs` | theorems about the module of that name; `AdministrationProofs` is also about `ConnectionSlots`, and `ProxyProofs` is about the three modules of the JSON-RPC proxy, `WalletRpc`, `Deployments` and `RpcReads`, whose definitions have names of their own so that one module can extend them | |
| `MC*` | model-checking instances: symmetry sets, and the policies, transactions or scenes that are checked | |

Conventions. A request is a record with a program counter `pc`; it is cut
exactly where the code awaits the database, the chain or the client, and the
code between two awaits is one action. `Abort` (or `Crash`) ends a request
anywhere and leaves what it has written: a failed statement, a refused
signature, a rate limit or a stopped process all look like that. Times are
small naturals that only matter by their order. History variables, which no
guard reads, are marked "history" where they are declared. A definition with a
comment "Mutant of X" is a plausible mistake in the code that X models; it is
not used by the model, and each property of the passing runs is violated when
one of them takes X's place. (Where a property has several conjuncts a module
may keep a mutant for each; `PROJECT.json` lists one.) Every module with state
has a type invariant `TypeOK` (for `Administration`, whose tables are `AdminDb`'s,
it is `AdminInvariant` of the proofs). It is proved where section 4 says so; elsewhere it documents the state and can be added to the
invariants of a run.

### SiweLogin

`tokens[n]` is the HMAC-signed nonce token the client holds, so it is never
lost or forged; `consumed[n]` is the row of `siwe_consumed_nonces`. A request
goes from `find_user` over `mfa`, `assert` and `mark` to `consume` and `create`;
machine logins and wallet associations start at `consume`. `TokenUser` is the
rule of `auth-routes.ts`: the user bound when the challenge was drawn wins over
the present owner of the wallet. Of roles only "requires MFA" is kept, of
passkeys only whether there is one; signatures are valid or the request aborts.
`EnsureAdminWalletUser` is the race of two first logins of a configured admin
wallet. `MaxLatency` bounds the life of a request, `MaxChanges` the account
changes of others.

`RetentionAssumption` (`NonceTtl + 1 >= Expiration + MaxLatency`, the 1 being
what strict and non-strict comparisons leave over) is needed and is not checked
by `env.ts`; with the defaults, 600 s against 300 s, it leaves a request 300 s.

### Sessions

A request reads its session (`Authenticate`), its principal (`LoadPrincipal`)
and then runs its handler, with a further step between the read and the write
of an extension or a revocation. `Idle` may be unset. `created`, `touched` and
`late` are history. A deadline equal to the present is neither active nor
collectable, as in the SQL.

### StepUp

A client may send any challenge, proof or action it knows with any request.
`issued` remembers challenges after the cleanup removed their rows, `passes`
the gates that opened, `enrolments` from which round of challenges a passkey
came. Passkey identities are used once. A step-up proof is consumed before the
handler it opens runs, so a handler that fails costs a proof.

### ConnectionSlots

Connections are the `pg` pool's, modelled from its use: `connect` waits while
none is free and fails after a time-out; a connection answers its queries in the
order they were sent (`sent`); `client.release` ends the check-out the connection
is in at that moment, whoever's it is (`conns`), and throws when there is none. So
the second of two releases, which a set-up that fails behind the abort of its
request leads to, may end the check-out of another request or of a borrower, and
what that one does next fails before it reaches its slot (`ReleaseBoth`).
`pinned` is the limiter's counter, `slot` whether a request's one-shot release
is unused, `held` whether `auditDbClient` is set, `clearing` whether its
`releaseClient` awaits the query that clears the context. Borrowers take
connections without the limiter. `overtaken` is history: a set-up has failed
behind an abort. A connection that breaks is replaced by a new one, which the
module does not tell from the old one. The module has no bound of its own beside
the numbers of requests, connections and borrowers, and is checked for deadlock.

### UserWallets

`UsersRepository.update` is three steps: the read of the user outside the
transaction (`UpdateRead`), the rows its UPDATE sees (`UpdateStart`), and the
INSERT with the commit (`UpdateCommit`), whose conflicts with the partial
unique index are those with rows the UPDATE did not see. `entitled` is history:
what users proved, or were given by an admin, a tenant or an m2m application.
`overlapped` is history: users about whom two requests were in flight at once.

### Deployments

A transaction is an address (deployer and nonce) and a version, so that a retry
and a replacement can be told apart; a request is identified with the row it
creates. The node is external: it pools, drops, includes or reverts, one
transaction per nonce, and never un-includes. `handler` is `recordedDeploy`,
`sweep` the cleanup job, `reader` a `checkContractAuthorship`. `lost` is
history: transactions whose answer, or whose `success()` write, was lost. `Age`
requires the request to be over: the time to live (an hour) exceeds the life of
a request. The rows a batch or a reader still has to look at are a set, taken
in the order of `before`, which stands for `started_at`; a batch is the
`BatchLimit` oldest. `HeldUp` are the rows behind as many kept ones as a batch
holds, which no sweep reaches; `BacklogDrains` excepts them.

### Faucet

`reserveClaim` is two steps, cut where it waits for the advisory lock: `Claim`
(the update of stale rows and the blocker check) and `Reserve` (cap, insertion
and commit). The update is not visible before the commit; until then its rows
are locked (`Locked`), and whoever updates them waits. A row's age counts from
the start of its transaction, as `createdAt` defaults to `now()`. All claims pay
the same, so sums are numbers of rows and `Cap` is how many claims the daily
amount pays for. After the reservation, `Send`, `Receipt` and `Record` follow
`FaucetService.claim`; `Abort` ends a request anywhere, also where the code
catches a failed write of the outcome. A pooled payment may be mined at any
later time, or never. `lost` is history: claims whose payment the request lost
sight of, because of an unanswered submission, a receipt time-out or a crash.
`raced` is history: users who had two requests in flight at once.

`StaleAssumption` (`StaleAfter >= MaxLatency`) is not checked by `env.ts`; the
receipt time-out is 30 s by default.

### MethodPolicy and PolicyDecisions

`MethodPolicy` is the dispatch all boundaries share, as operators over rows that
have been read: a permission of the contract before one of its template, the
five rules, the ownership check of organizations, umbrellas. In
`PolicyDecisions` a request of the sequencer reads the user, the contracts, the
permission rows, the templates and their links in as many steps, and decides one
generation of frames from them; `view` is what it has read so far. Between any
two steps an operator may move the tables from one policy to another (`Edits`).
The cache is the sequence of its entries in the order of insertion. `open` is
history: whether at some moment of the request no overlay vetoed it. A frame
names its caller, the address its row is looked up for, and which of its
arguments are the acting wallet; ABI decoding succeeds or does not. A look-up
that does not hit has dropped the expired entry of its key, so that the decision
is stored as the newest. `TablesAndInputs` says what policies and inputs may be:
the keys and references of `db/schema.ts`, a trace in pre-order, and no frame
below a transfer to an address without code, where nothing runs.

### RpcPolicy and RpcReads

An answer is the set of facts it tells: of a transaction its head, its input and
each of its logs, of an account one fact per method. One request is under way at
a time, as requests share no state but the tables: `window` collects the
policies in force since it was authenticated, and an answer combines look-ups of
any of them (`Torn`). `Entitled` says what a caller may know without the order
and the short cuts of the handlers. The chain mines pending transactions and
nothing else. Requests and answers are single steps, as nothing but the window
matters in between. `RpcPolicyAssumption` and `RpcReadsAssumption` say what the
tables may hold (`Tables`) and that a topic is none of the marks a permission
uses for "any" and "an address of the reader"; the proofs need no more. A call
of `eth_call` that is forwarded is a fact too, with its sender and its calldata:
none, `eip712Domain()` (`"domain"`, the one of `whitelistedMethods`), or any
other. The first two are forwarded from any address, for anonymous callers as
well, without a look at the contract's permissions (`OpenRead`).

### WalletRpc

One user, as every statement is keyed by the user; `rights` is what its roles,
permissions and wallets let it do, and `request` the requests in flight. `row`
holds the allowances,
`updated` their order by `updatedAt`, `age` the order of authorization, by which
they expire. A submission reads the row, then the rights, then forwards, then
records its hash; `owns` and `deploys` are what was loaded with the user. The
write of the hash (`WriteHash`) may fail or match no row, and the client is
answered all the same; `acknowledged` are the answers whose write did not fail.
Both orders are relations
between the rows there are, so that a row moved to the end changes its own pairs
only. `authorized`, `sent` and `acknowledged` are history. The submission goes on
after the user's rights were revoked under it, as in the code.

### AdminDb, AuditTrail, Directory, Registry, Administration

A request is two steps, `Arrive` (the session hook, the pre-handlers and the
handler read and check) and `Land` (its last transaction writes, and checks what
its WHERE clauses, locks and constraints check); handlers with one transaction
and nothing before it are written the same way. Each action of `Directory` and
`Registry` is one operation with both halves. `db` is one record of all tables.
Names, texts and ABIs are left out; a role keeps its organization, whether it is
a system role and whether it exceeds the ceiling of what an organization may
grant. An identity is used once: a role or a credential that was deleted is
`"gone"` and its identity never comes back, as the code draws UUIDs. `Starts` lists
scenes: contents of the tables, and the kinds of requests that come (`menu`). A
scene is well typed and `Orderly` (`StartsOrderly`, evaluated on every run): no
organization is deleted yet and each has the admin role it was created with, roles
are held within the organization, credentials belong and are linked to live
organizations, keys and permissions have what they are keys and permissions of.
The routes leave the tables like that while no organization has been deleted and
no requests have raced; what comes after both is for the runs and the theorems.
History: `raced` holds the subjects of requests that landed when what they had
checked no longer held, `approved` the flags in force that a zone operator put
there. `raced` is what the properties about members, flags and answers except, so
the routes' gaps between checking and writing are visible in it: each kind's
condition is the `current` argument of its `Land`.

`AuditTrail` follows the rows about machine credentials from the transaction
that computes their audience (`events`) over the response hook that writes them
(`trail`) to the listing of an organization. There are finitely many credentials
(`CredentialsFinite`), since the trail begins with a row for each.

## 3. The runs

| run | instance | shows |
|---|---|---|
| `siwe` | two users, one of them not created yet and known to OIDC, an admin wallet, a tenant, one nonce, one passkey challenge, two sessions, two requests, 2 ticks, two account changes | `OneSessionPerNonce`, `SessionOfBoundUser`, `OneSessionPerChallenge`, `NoLoginAroundMfa` and the refinement `SingleUse`: deferred validation, retries on any route and the purge never yield two sessions from one nonce or one assertion, nor one of another user or without the second factor |
| `sessions` | a member and a machine, two tokens, two requests, 4 ticks, idle 2, cap 3 | `EndedForGood` (refinement of `Lease`), `IdleAndCap`, `DeletedOrgLockedOut` |
| `stepup` | one user, admin and in need of MFA, two passkeys, two challenges, two proofs, two requests, 2 ticks | `OnePassPerAssertion`, `LastPasskeyKept`, `OneEnrolmentPerRound` |
| `slots` | three requests, three connections, one slot, one borrower | `SlotsAccounted`, `NestedCanComplete`, no deadlock |
| `slots_context` | two requests, three connections, one slot, one borrower | violated: a connection released by an abort carries another request's context under a handler still running |
| `deployments` | two rows, two transactions for one nonce, a batch of one row, both chain types, a reader | `ResolvedOnce`, `MinedHasAuthor`, `SuccessBacked`, and the liveness property `BacklogDrains` |
| `faucet` | two users, three rows, two requests, cap 2, cooldown 2, window 3, 3 ticks | `CapKept`, `CooldownKept`, `PaidIsRecorded`, `ResolvedOnce`: concurrent claims, crashes and recoveries neither overshoot the cap nor pay a user twice |
| `policy` | one request after another over seven traces and five single calls, an umbrella and a template, fifteen policies, edits between four of them, a cache of one entry, 2 ticks | `ConvergesAfterTtl`, `UmbrellaKeepsToItsOwn`, `VetoBindsAtOnce`: the generations, the scattered reads and the cache answer as a sequential walk over the tables would, once an edit is old enough |
| `rpc` | three users in two organizations, a tenant, an m2m application, anonymous callers, six transactions, five contracts, every filtered method, policies edited once within a request | `NothingUnseen`, `SentByOwn`, `PrefilterLosesNothing`, `ListingsAgree` |
| `walletrpc` | a call, a transfer and a deployment for the same nonce of two wallets, two requests, one token, three sets of rights | `ForwardsOnlyAuthorized`, `TellsOnlyAuthorized`, `AcknowledgedIsPollable` |
| `wallets` | a member and a tenant user, two wallets, two requests, limit 1 | `EntitledOwner`, `NoTakeover` |
| `admin` | two organizations, four users, seven roles, two credentials, two addresses, three requests of which two overlap, twenty-one scenes | `RoleScope`, `GrantsWithinReach`, `OwnRowsOnly`, `OnlyApproved`, `TellsOnlyOwn`, `TrailTellsVisible`, `DeletedOrgInert` |

The bounds are the smallest in which every action fires and every race the
properties are about can happen: two requests for every race of two, two
instances of whatever must not be mixed up, clocks long enough for a deadline,
the collector and one more tick. Where a run has one of something, the other
cases are proved (`StepUp` with several users, `SiweLogin` with several nonces)
or cannot meet in the code: two requests of `policy` share nothing but the
cache, in which one finds what an earlier one left. `admin` starts in scenes
because the product of all requests in all states is out of reach (it has 1.9
million states as it is): each scene brings together the requests that write
what the others check, and a third request for what the first two leave behind.
Model values are interchangeable where a symmetry set says so. No liveness is
checked under symmetry. Deadlock is checked in `slots` and `slots_context`;
elsewhere a behaviour ends when times, identities or requests run out.

Fairness is assumed in `Deployments` only: requests end (the proxy's fetch and
the database have time-outs), rows age, the interval job keeps running
(`toad-scheduler`), and lookups of a row succeed once in infinitely many
attempts (strong fairness, as an outage may interrupt any number of ticks).
Nothing is assumed of the chain.

### Where the code does not do what it says

The findings in `PROJECT.json` quote the sentences. One has a run of its own,
`slots_context`. Three are seen by putting a definition of the module that
no run lists into the configuration of its run:

| definition | module, run | what TLC then shows |
|---|---|---|
| `EverySubsequentSteppedUp` | `StepUp`, `stepup` | a begin that counted no passkey overlaps another enrolment, and enrols a second passkey ungated |
| `LatestIsCurrent` | `WalletRpc`, `walletrpc` | storing a hash ranks an older allowance above the one authorized last |
| `MembersHoldOwnRoles` | `Administration`, `admin` | an update checked against the organization a user is just leaving |

The others are seen when an exception of a property is dropped. `BacklogDrains`
without `HeldUp`: the row of a reverted transaction, or of one that stays in the
mempool, is looked at first in every tick and kept, and the rows behind it
starve. `SlotsAccounted` without `~overtaken`: a request goes away during its
set-up, the set-up fails and gives connection and slot back, another request
pins both, the first one's `releaseClient` ends that check-out, and the other
one's `client.release` throws in front of its slot, which is gone for good.
`AcknowledgedIsPollable` when `acknowledged` grows in spite of a failed write: the
client is told to poll for a transaction whose hash is not there. The deletion of
a role that is referenced is `DeleteRole` of `Directory`: it succeeds, and what
refers to the role loses it.

### Seen on the way

The properties excuse the following by name, or are about something else; the
code behaves as described, and the models have the behaviour unless noted.

Login and sessions. Two overlapping extensions of a session may write the older
deadline last (`services/session-service.ts:107`). A step-up proof is consumed
before the handler runs. The signature counter of a passkey is written from a
credential read before (`services/passkey-service.ts:178`; not modelled).

Users and wallets. A request that checked the organization of a member before
its deletion and writes after it leaves the member with a wallet nobody else can
link (`services/organizations-service.ts:30`). Two overlapping updates of a user
leave the union of their wallet lists, and an update made from an older list
links a wallet again that was just removed
(`repositories/users-repository.ts:332`). An empty list passes the check that
keeps admins from changing a tenant user's wallets
(`repositories/users-repository.ts:319`).

Connections. A pool of one or two connections has no reserve, and with one
connection a handler that nests waits for itself
(`middleware/audit-context.ts:111`); `NestedCompletes` needs two.

Faucet and deployments. Of two overlapping claims of one user the second is paid
within the cooldown if the first is recorded between its blocker check and its
insertion (`repositories/faucet-claims-repository.ts:100`). The synchronous
submission takes any receipt for a success, also that of a reverted deployment
(`rpc/target-rpc.ts:160`). A lost answer to a submission errors the row of a
transaction that may be mined (`rpc/contract-deployment-context.ts:62`).

Policy. A permission row deleted between the read of the row and the read of its
arguments leaves an empty list of restricted arguments, which every call
satisfies (`services/authorization-service.ts:797`); it lasts for one evaluation
and its cache entry.

RPC. A filter of `eth_getLogs` with an empty array of topics or addresses is
turned away without asking the node. Value transfers to accounts without code
are forwarded for any caller, also an anonymous one, and so are `eth_call`s without
calldata or of `eip712Domain()`, from any address
(`rpc/methods/generic-handlers/validate-ethereum-call.ts:50`). A tenant's wallet that passes
to another user between two look-ups of one request is used under the roles of
that user (`services/authorization-service.ts:237`).

Wallet RPC. Transfers and deployments under an allowance do not check again that
the wallet is the user's. Authorizing a nonce again keeps the hash of the
transaction before. `updateTransactionHash` does not compare the recipient.

Administration. An operator may move a role that users hold from the zone into
an organization (`repositories/roles-repository.ts:93`). Relinks of a credential
that are answered close together may write their audit rows in the other order,
and a row whose insertion fails is lost (`middleware/audit-context.ts:252`). A
link of a credential that an organization owns tells another organization of it
though that one does not list it. The listing of applications ignores its limit
for perpetual ones (`services/applications-service.ts`; not modelled). A cached
OAuth application is dropped before the change commits, so a look-up in between
keeps the old redirect URIs for the life of the entry
(`services/applications-service.ts:159`; not modelled).

## 4. What is proved

All theorems are about the specifications without fairness, for any sets of
users, requests, rows and so on, and rest on the named assumptions of the
modules only. Recursion is written as recursive functions, so that no module is
closed to the prover. Each proof module begins with its invariant; each action is a step
of the preservation proof, and what several actions share is a lemma.

### SiweLoginProofs

`TypeCorrect` proves `TypeOK`. `NonceSingleUse` proves `OneSessionPerNonce`
under `RetentionAssumption`. `OneSessionPerNonce` is not inductive: nothing in it keeps
a request from being about to create a second session. The inductive invariant
`NonceInv` adds

- `CarriesValid`: a request that has passed verification carries a token that
  was in force when it began, so it is at most `MaxLatency` past its expiry;
- `TokenTimes`: a token expires at most `Expiration` from now, and at most
  `Expiration` after its nonce was consumed;
- `Spent`, `SpentRemembered`: a nonce that is spent, because a session was
  created from it or a request is between consumption and creation, has its
  row in `consumed` as long as any request could still present it. This is
  where the retention is needed: the purge may forget the row only when every
  request that verified the token has ended;
- `OneHolder`: of the requests between consumption and creation and the
  sessions created, there is one per nonce at most.

Every action is a step of the proof; the interesting ones are `ConsumeNonce`
(a spent nonce still has its row, so the insert conflicts), `CleanupNonces`
(the row is old, so the token is, so no request carries it) and `Tick`.

The other properties have an invariant each, with `TypeInv`.

- `BoundUserLogsIn` (`SessionOfBoundUser`), by `OwnerInv`: a login takes its user
  from the token once (`FindUser`); from then on neither the token nor the user
  of the request changes. `OwnerIssue` shows that the loser of a race for an
  admin wallet binds its token too.
- `ChallengeSingleUse` (`OneSessionPerChallenge`), by `AnswerInv`: marking a
  challenge succeeds once (`MarkStep`), and the request that succeeded carries
  it to one session (`AnswerCreate`).
- `SecondFactorKept` (`NoLoginAroundMfa`), by `GuardedInv`: a guarded request
  stands before the second factor or has passed it, and its user, or the one
  its token stands for, is an enrolled admin still.
- `LoginIsSingleUse` (`SingleUse`) is the refinement of `SingleUseLogin`:
  handing out a token is `Issue` (`PromiseIssue`), creating a session from a
  nonce is `Grant` (`PromiseGrant`), every other action a stutter. A grant is
  right because the nonce has no session (`OneHolder`), a user's token names the
  holder (`OwnerInv`) and a machine's is never bound (`MachineInv`).

### SessionsProofs

`TypeInv` joins `TypeOK` with `RowOK` (a row's cap is the one fixed at its
creation, and its deadline is within the cap and within `Idle` of the last
write) and `RequestOK` (an authenticated request holds an issued token, and the
deadline it is about to write obeys the same limits at the moment it writes).
`LimitsKept` (`IdleAndCap`) follows. For `EndedSessionsStayEnded`, the
refinement of `Lease`, every step is shown to be one of three: one that only
shrinks rows (`Shrinks`), one that leaves every session as it is or further on
its way (`Monotone`), or one that issues a token nobody had (`Issues`); the
extension is monotone because its WHERE clause asks for an active row at the
moment of the write. `MembersLockedOut` (`DeletedOrgLockedOut`) needs only which
requests are late.

### StepUpProofs

An assertion is one thing at a time: a request about to mint a proof, a proof
nobody has used, or a gate that was passed. `ChainOK` says so of every
challenge, together with the fact that none of these exists while the
challenge can still be accepted; `SingleGate` (`OnePassPerAssertion`) reads off
its third stage, and `Fits`, `ProofOK` and `PassOK` carry user and action along.
`RoundsEnd` (`OneEnrolmentPerRound`) rests on `PendingOK` (a registration that
can still be finished belongs to the user's present round) and `EnrolOK` (a
passkey enrolled is of an earlier one). `KeepsLastPasskey` (`LastPasskeyKept`)
is an action property: the only deletions of a last passkey are those of
another admin, whose session was checked (`Fits`).

### UserWalletsProofs

`HolderOK` says that a holder is live and entitled; `RequestOK` that every
address a request is about to write is one its user is entitled to already, or
was given with the request, and that the rows it has seen are still its user's.
`WalletsEntitled` (`EntitledOwner`) needs two more for the limit: `AloneOK` (a
request that has its user for itself has counted what its write leaves) and
`UniqueOK` (there is one such request per user). `WalletsNotTaken`
(`NoTakeover`) reads off the conflict with the partial unique index.

### FaucetProofs

`TypeInv` joins `TypeOK` with `RequestsOK` (the rows a reservation has failed
are stale; the row a request holds is pending and as old as the request) and
`DisjointOK` (no row is in the hands of two requests). `HeldNotStale` follows
from it and `StaleAssumption`: what a live request holds is not stale, so no
recovery touches it.

- `ResolvedForGood` (`ResolvedOnce`) follows: a recovery fails stale rows only,
  which are pending, and a request records on its own pending row only, though
  `markSuccess` and `markFailed` look at nothing but the id.
- `CapIsKept` (`CapKept`) is an induction on the number of rows counted: every
  step leaves it or lowers it, except the insertion, which has compared the
  same set with the cap in the same step. That it is the same step is the
  advisory lock.
- `PaymentsRecorded` (`PaidIsRecorded`) needs that a payment not lost sight of
  is held as long as its row is pending (`PaidClaim`), and how far a request
  has seen its payment come (`PayRequest`).
- `CooldownHolds` (`CooldownKept`) speaks of all claims that were paid or may
  still be (`Live`), since the gap has to be there before the payment is mined.
  `AdmittedOK` keeps what the blocker check has seen until the insertion: no
  claim of the user becomes live in between, unless by another of its requests,
  which `AloneOK` has on record.

### ProxyProofs

About `WalletRpc`. `RowOK` says that a row keeps what some authorization said,
`RequestOK` that a submission past the check agrees with an authorization,
whatever has happened to the row since. `OnlyAuthorizedForwarded`
(`ForwardsOnlyAuthorized`) follows; `AcknowledgedPollable`
(`AcknowledgedIsPollable`) is inductive with them: an overwritten row drops the
acknowledgements of its nonce, and a hash is only overwritten by one that is
alike. For `ToldOnlyAuthorized` (`TellsOnlyAuthorized`) the two orders have to
be total orders of the rows there are (`Ranks`), from which it follows that
there is a last one (`LastExists`) and that what is in force is determined;
`HashOK` and `CurrentOK` say that a row stands before the one authorized last
only after its hash was stored. `WalletRpcTypeCorrect` proves `WalletRpcTypeOK`.

About `Deployments`. `DeploymentsTypeCorrect` proves `DeploymentsTypeOK`.
`TypeInv` joins it with `RowsOK` (a row exists from the start of its request; it
ages, is swept and is errored only when the request is over, or by the request)
and `OrderOK` (`started_at` is a total order of the rows, from which it follows
that the sweep, and each reader, is at one row at a time: `OneSwept`, `OneRead`).

- `ResolvedForGood` (`ResolvedOnce`) needs `TypeInv` only: every write is
  conditional on `pending`.
- `SuccessIsBacked` (`SuccessBacked`): `AnswersOK`, `SweepOK` and `ReadersOK`
  say that whoever is about to record a success has a receipt that is right.
  They are stable because blocks are final (`BlocksAreFinal`): the property
  would not survive a chain with reorganisations.
- `DeployerKeepsAuthorship` (`MinedHasAuthor`): while the node knows a
  transaction, one of its rows is on record (`KeepsOnRecord`), that is, pending
  or successful, not held by a request that may still fail, and not one that
  the sweep is about to error. The row of the accepting request enters
  this state at the moment the node accepts; `RowLeavesRecord` shows it leaves
  it only when the node has forgotten the transaction. A second submission of
  the same transaction may bring it back between the sweep's verdict and its
  write; then the second request's row is on record, which is why the invariant
  speaks of some row and not of each.

About `RpcReads`. `ReadsInvariant` proves `ReadsInv`: types, and `Authentic`, that
the caller is what some policy of its window made of it. The rest is about the
operators: what a handler tells under two look-ups `q1` and `q2` has to be shown
to be granted by one policy of `Torn`. The difficulty is that roles, wallets and
organization of a user stay those of the authentication while everything else is
read anew. `AsLoaded` is the mix that has both, `TornHolds` that it is one of
`Torn`, and `AssociatedOwn`, `OrgVisibleSeen`, `VisibleAddressesSeen` and
`LogSeen` translate what the authorizer answers into what `Entitled` says.

- `SeesOnlyEntitled` (`NothingUnseen`): one lemma per handler (`ByHashTold`,
  `ReceiptTold`, `ListsTold`, `GetLogsTold`, `AccountEntitled`, and others), joined by
  `RegularEntitled` and `FullAccessEntitled`.
- `ForwardsForOwn` (`SentByOwn`): `DeploymentSent` and `CallSent`, by the kind
  of the caller; every method that forwards rests on them. It says nothing of the
  sender of an `OpenRead`.
- `PrefilterSound` (`PrefilterLosesNothing`): what the check asks is weaker,
  permission by permission, than what reading a log asks
  (`ReaderWalletsActedFor`, `MatchFound`). It needs that the user it reads anew
  is the one that was authenticated (`ReadAnew`), so it is about a quiet state.
- `ListsAgree` (`ListingsAgree`): the handlers of blocks take one list of
  addresses and those of transactions another; `ShownByHash` shows that an address
  of the first is one of the second or visible by an organization.

Two statements were wrong, and the proofs showed it. A tenant's roles were taken
to let it read the logs of an organization, where the code passes no
organizations for tenants (`FullyVisibleContracts`). And `SentByOwn` claimed that
a call for a tenant runs under the roles of one of its members: the address is
looked up twice, and may have passed to another user in between
(`services/authorization-service.ts:237`), which `ActsAs` now admits and a run has
an edit for (`Passed`).

### PolicyDecisionsProofs

What `/judge` answers is compared with `AtOnce`, the depth-first walk over one
state of the tables. Both sides are recursive over a trace of any length:

- A recursive function of TLA+ is a CHOOSE, and it has to be shown that there is
  a function to choose. `RecursionExists` does, for any function that looks only
  below itself, and rests on the existence of least elements (`LeastExists`),
  which comes from the well-foundedness of strict inclusion of finite sets in the
  library. `WalkIs` and `AncestorsAre` are the two recursions unfolded, and
  `Strong` is induction over the frames in a first-order form: over a set, not a
  predicate.
- `NextGeneration`: if the verdicts given so far are those of the walk, and a
  frame has one only after all frames above it, then so it is when a further
  generation is decided over the same tables. A verdict depends on the other
  frames only by the umbrella above it (`VerdictDependsOnCover`), and that is
  settled by then. `WalkEnds`: where the generations stop, the first refusal in
  pre-order is that of the walk.

`Inv` has four parts for a request: `Typed`; `Consented` (a request not answered
yet had a moment without a veto, or there is a veto now); `UpToDate` (an evaluation
that began after the last edit has in its view what the tables hold, and agrees
with the walk); `Right` (an answer given a time to live and a longest evaluation
after the last edit is that of `AtOnce`). `CacheOK` says the same of entries: an entry
that expires late enough after the last edit is right. It is the
arithmetic of the two that makes the promise of `decision-cache.ts` true: an
evaluation an edit overtook ends within `MaxLatency` of it (`Tick`), its entry
within `Ttl` of that, and an entry is never prolonged by a hit. `Settles` is the one
place where both come together. An edit ends the premises of all of them at once.
`ConvergesToPolicy` (`ConvergesAfterTtl`) and `VetoBinds` (`VetoBindsAtOnce`) read
off the invariant.

`UmbrellaKept` (`UmbrellaKeepsToItsOwn`) needs in addition what an allowed trace
may reach: the umbrella verdicts above a frame are the umbrella rows above it
that the signer meets (`CoverIsUmbrella`), and what `decidePermission` lets
through is what `Reaches` says (`AllowedReaches`). The proof showed that the property was too
strong in one place: a contract that an organization registered at a
reserved address denies every call, so its umbrella row covers nothing;
`UmbrellasOver` now says so. Both theorems assume `TablesAndInputs`.

### AdministrationProofs: Administration and ConnectionSlots

The module has the theorems of two components: the administration, and the pinned
connections through which its requests write. The first has some forty kinds of requests
over one record of a dozen tables, so the argument is cut in the middle, lest
every property be proved for every kind.

- Every handler is the *arrival* of a request (`Arrival`: it is well formed, `Shape`
  and `Scope`, and has checked what `Granted` says), or its *landing* (`Landing`: the
  tables become those of `Effect`, `raced` and `approved` are brought up to date),
  or one of the two requests with a step in between (`Proceeds`, `Clears`).
  `NextCases` says so. It is the only place where all actions are opened.
- An `Effect` writes its own tables (`Writes`), and edits a row in one of few ways:
  `UserEdit`, `RoleEdit`, `AppEdit`, `ContractEdit`, `FnEdit`, `EvEdit`, `OrgEdit`, and
  for the association tables `HoldGained`, `HoldLost`, `AccessEdited`. `EffectEdits`
  is the second place where the kinds are taken one at a time.
- Everything else follows from the edits (`StepCases`: a request lands, one
  clears the umbrella flags at its address, or the tables stay).

`AdminInvariant` is the inductive invariant: the tables are typed; the foreign keys
hold (`HeldRows`, `Attached`, `Anchored`, `KeysLive`); every organization keeps its
admin role; and what a request in flight has checked is still true, as far as
nobody can undo it. That last part (`Granted`) is what a reader should look at: a role
named by an organization's request stays a role of that organization and within
the ceiling, because the roles that are moved are the zone's; a credential an
organization owns stays its own; a contract whose permissions are read is its
organization's, or was given away under the read, and then is in `raced`.
`AdminTypeCorrect` proves it. The theorems hold for any scenes that are orderly and
any number of requests at once, not only for those of `MCAdministration`.

- `RolesInScope` (`RoleScope`) is inductive together with `AdminInvariant`: of each way
  to gain a role and each way to change a user's or a role's organization, either
  the landing checks what matters or the subject is in `raced`.
- `FlagsApproved` (`OnlyApproved`): `NoNewFlag` says that no landing of an
  organization's request brings a flag into force, at the address it names
  or at the one it moves the contract to.
- `AdminGrantsWithinReach` (`GrantsWithinReach`) and `AdminOwnRowsOnly`
  (`OwnRowsOnly`) are action properties, read off the edits of a request that is not
  an operator's; the second also needs that who sends it is at home, which is
  `RoleScope`. `AdminToldOnlyOwn` (`TellsOnlyOwn`) is about the answer at any moment
  between the check and the read, and rests on `Granted` and `Anchored`.
- `DeletedInert` (`DeletedOrgInert`) needs `WalletsReleased`: the deletion releases
  what is there, and nobody can add a wallet afterwards who had not been
  admitted before.
- `TrailTrue` (`TrailTellsVisible`) needs the most. `TrailInvariant` says of a
  credential whose rows leave no doubt about their order (`Ordered`) that one row at
  most waits to be written, and that once it is written the organization has been
  told what is visible (`Follows`). A landing moves both sides at once
  (`SaysVisible`, by the four kinds of changes), a write moves a row from one side
  of `WillTell` to the other (`LastWritten`), and an organization that is created
  finds nothing about it (`NoneYet`: identities are not used before). The rows a
  trail begins with are those of a bijection (`SeqOfSet`).

The proofs found two things in the model: a deleted credential could come back
under its identity, which made a request admitted for the old one act on the new;
and what a change of a contract's address or its deletion does to event
permissions was not among its subjects. Both are corrected.

The pinned connections. `CountIn` compares the requests whose one-shot release is
unused with the limiter's counter: never more, and as many while no set-up was
overtaken. `OwnIn` is what an overtaken set-up breaks: until then whoever is to
release a connection is who checked it out, and who has a slot connects, holds or
is clearing, so that no release throws and each slot's release is still to come.
`Shaped` says what a request has by where it is, `QueuedIn` that who waits is in
line exactly once, `Full` that somebody waits only when no slot is free.
`EverySlotAccounted` (`SlotsAccounted`) follows. `NestedCompletes`
(`NestedCanComplete`) is a counting argument under two assumptions of its own,
`Reserved >= 1` and `MaxConns >= 2`: the limiter lets fewer requests pin than
there are connections, so some connection is pinned by nobody who waits. This
needs no exception: no slot is ever released twice. `SlotsTypeCorrect` proves the type invariant. (The module names its
state and formulas `request`, `SlotsInit`, `SlotsNext`, `SlotsSpec`, so that both
components can be reasoned about in one module.)

### Only model-checked

Every safety invariant and action property that a passing run checks is stated by a
theorem. `BacklogDrains` is liveness under fairness, which is out of the prover's
reach, as is the absence of deadlock, which is about ENABLED.

## 5. What is not modelled

- Cryptography and the WebAuthn library: a signature is valid or the request
  is refused; signature counters are not kept. ERC-1271 and the classifiers call
  the chain, whose answer is an input.
- Pure data: JSON-RPC decoding and the rewriting of parameters, ABI decoding,
  pagination, CIDR arithmetic, the address and selector tables of the system
  contracts. They have no state and are covered by the repository's unit tests.
- Isolation below READ COMMITTED statements: a statement is atomic, a
  transaction is split where a later statement depends on an earlier read.
- Rate limits, in memory and over the challenge log: a limit that is counted
  before the insertion is overshot by what is in flight, and nothing else
  depends on it.
- OAuth applications with their caches, the rows of services, API keys of
  tenants: look-ups and edits of one row, without a second party to a race but
  the one noted above.
- Audit rows written by database triggers, and rows of other subjects than
  credentials: written by the same mechanism, and not told apart.
- The client SDK: a program of its own, on the other side of an API that has to
  hold against any client.
- Configuration, build, migrations, metrics, the explorer and the user
  interfaces.
