------------------------------ MODULE SiweLogin ------------------------------
(***************************************************************************)
(* Login to the permissions API: SIWE challenges, their single-use nonces, *)
(* the passkey second factor of accounts that need it, and the creation of *)
(* the session.  A request is a process; it is cut into one action per     *)
(* database statement, since every `await` lets another request (or the    *)
(* nonce cleanup job) run.  A nonce token is signed by the server and held *)
(* by the client: the database only remembers the nonces already consumed. *)
(***************************************************************************)
EXTENDS Naturals, FiniteSets

CONSTANTS
    Users,          \* rows the users table may hold
    InitialUsers,   \* the users that exist at the start
    OidcUsers,      \* users an identity provider vouches for
    Addresses,      \* wallet addresses
    AdminWallets,   \* ADMIN_WALLETS: provisioned on their first login challenge
    MachineTypes,   \* the machine target types: tenant, service
    Nonces,         \* random nonces, each drawn once
    Challenges,     \* random passkey challenges, each drawn once
    SessionIds,     \* random session tokens, each drawn once
    Requests,       \* concurrent HTTP requests
    NoValue,        \* SQL NULL, an absent row or an absent field
    Expiration,     \* SIWE_EXPIRATION_MS
    NonceTtl,       \* SIWE_CONSUMED_NONCE_TTL_SECONDS
    PkExpiration,   \* life of a passkey challenge
    MaxLatency,     \* longest life of a request
    MaxTime,        \* bound: last instant of a behaviour
    MaxChanges      \* bound: account changes made by others

ASSUME SetsAssumption ==
    /\ InitialUsers \subseteq Users
    /\ OidcUsers \subseteq Users
    /\ AdminWallets \subseteq Addresses
    /\ MachineTypes \subseteq {"tenant", "service"}
    /\ NoValue \notin Users \cup Addresses \cup Nonces \cup Challenges \cup Nat

ASSUME TimesAssumption ==
    /\ Expiration \in Nat
    /\ NonceTtl \in Nat
    /\ PkExpiration \in Nat
    /\ MaxLatency \in Nat
    /\ MaxTime \in Nat
    /\ MaxChanges \in Nat

\* A consumed nonce is remembered for longer than any request can still hold a
\* token that was valid when it was checked: a token is valid strictly before
\* its expiry, and a row goes strictly after the retention, hence the + 1.  The
\* defaults are 600 s against 300 s plus the life of a request; env.ts does not
\* compare them.
ASSUME RetentionAssumption == NonceTtl + 1 >= Expiration + MaxLatency

VARIABLES
    now,         \* the clock
    users,       \* users that exist
    wallets,     \* walletsTable: the user a wallet belongs to
    admins,      \* users whose roles require MFA
    enrolled,    \* users with at least one passkey
    tokens,      \* nonce tokens handed out, by nonce
    consumed,    \* siwe_consumed_nonces: when each nonce was consumed
    challenges,  \* passkey_challenges
    sessions,    \* the sessions created, with what they were created from
    req,         \* the requests in flight
    changes,     \* how many account changes others made
    guarded      \* history: requests whose user needed a passkey throughout

vars == <<now, users, wallets, admins, enrolled, tokens, consumed, challenges,
          sessions, req, changes, guarded>>
accounts == <<users, wallets, admins, enrolled, changes>>

Times == 0 .. MaxTime
TargetTypes == {"user"} \cup MachineTypes
Kinds == {"siwe", "oidc", "associate", "ensure"} \cup MachineTypes

Idle == [pc |-> "idle"]
ReqPcs == {"ensure", "find_user", "mfa", "assert", "mark", "consume", "link",
           "create"}

RequestRecords ==
    [pc : ReqPcs, kind : Kinds, nonce : Nonces \cup {NoValue},
     address : Addresses \cup {NoValue},
     user : Users \cup {NoValue}, assertion : Challenges \cup {NoValue},
     challenge : Challenges \cup {NoValue}, started : Times]
Tokens ==
    [type : TargetTypes, address : Addresses, target : Users \cup {NoValue},
     exp : Nat]
ChallengeRows ==
    [user : Users, linked : Nonces \cup {NoValue}, exp : Nat, used : BOOLEAN]
SessionRows ==
    [kind : Kinds, holder : Users \cup Addresses, nonce : Nonces \cup {NoValue},
     challenge : Challenges \cup {NoValue}]

ASSUME NullAssumption ==
    /\ NoValue \notin Tokens
    /\ NoValue \notin ChallengeRows
    /\ NoValue \notin SessionRows

TypeOK ==
    /\ now \in Times
    /\ users \subseteq Users
    /\ wallets \in [Addresses -> Users \cup {NoValue}]
    /\ admins \subseteq Users
    /\ enrolled \subseteq Users
    /\ tokens \in [Nonces -> Tokens \cup {NoValue}]
    /\ consumed \in [Nonces -> Times \cup {NoValue}]
    /\ challenges \in [Challenges -> ChallengeRows \cup {NoValue}]
    /\ sessions \in [SessionIds -> SessionRows \cup {NoValue}]
    /\ req \in [Requests -> RequestRecords \cup {Idle}]
    /\ changes \in 0 .. MaxChanges
    /\ guarded \subseteq Requests

Init ==
    /\ now = 0
    /\ users = InitialUsers
    /\ wallets \in [Addresses -> InitialUsers \cup {NoValue}]
    /\ admins \in SUBSET InitialUsers
    /\ enrolled \in SUBSET InitialUsers
    /\ tokens = [n \in Nonces |-> NoValue]
    /\ consumed = [n \in Nonces |-> NoValue]
    /\ challenges = [c \in Challenges |-> NoValue]
    /\ sessions = [s \in SessionIds |-> NoValue]
    /\ req = [r \in Requests |-> Idle]
    /\ changes = 0
    /\ guarded = {}

-----------------------------------------------------------------------------
(* Helpers                                                                 *)

InFlight(r) == req[r] # Idle
At(r, pc) == req[r].pc = pc
Goto(r, pc) == req' = [req EXCEPT ![r].pc = pc]

\* The request answers, with a result or with an error.
Finish(r) ==
    /\ req' = [req EXCEPT ![r] = Idle]
    /\ guarded' = guarded \ {r}

Start(r, pc, kind, nonce, address, user, assertion) ==
    req' = [req EXCEPT ![r] =
              [pc |-> pc, kind |-> kind, nonce |-> nonce, address |-> address,
               user |-> user, assertion |-> assertion, challenge |-> NoValue,
               started |-> now]]

\* A token the server accepts: it signed it, and it has not expired.
TokenValid(n) == tokens[n] # NoValue /\ tokens[n].exp > now

\* Mutant of TokenUser: looks the wallet up again at login.
TokenUserByWallet(n) == wallets[tokens[n].address]

\* The user a token logs in: bound when the challenge was created, so that a
\* wallet moved in between cannot redirect the session.
TokenUser(n) ==
    IF tokens[n].target # NoValue THEN tokens[n].target
                                  ELSE wallets[tokens[n].address]

\* Mutant of AfterUser: a login that forgets the second factor.
AfterUserNoMfa(u, next) == next

\* requiresMfa
AfterUser(u, next) == IF u \in admins THEN "mfa" ELSE next

NeedsPasskey(u) == u \in admins /\ u \in enrolled

-----------------------------------------------------------------------------
(* Challenges                                                              *)

IssueToken(type, a, target) ==
    \E n \in Nonces :
        /\ tokens[n] = NoValue
        /\ tokens' = [tokens EXCEPT ![n] =
                        [type |-> type, address |-> a, target |-> target,
                         exp |-> now + Expiration]]

\* createForLogin, when the wallet is known or is nobody's.
IssueLogin(a) ==
    /\ wallets[a] # NoValue \/ a \notin AdminWallets
    /\ IssueToken("user", a, wallets[a])
    /\ UNCHANGED <<now, accounts, consumed, challenges, sessions, req, guarded>>

\* createForLogin of an admin wallet that has no user yet: the user is created
\* by a later statement, and another first login may come in between.
IssueAdminLogin(r, a) ==
    /\ ~InFlight(r)
    /\ a \in AdminWallets
    /\ wallets[a] = NoValue
    /\ Start(r, "ensure", "ensure", NoValue, a, NoValue, NoValue)
    /\ UNCHANGED <<now, accounts, tokens, consumed, challenges, sessions, guarded>>

\* Mutant of WinnerUser: the loser of the race does not read the winner back.
WinnerUserUnread(a) == NoValue

\* findWalletUserId after the insert conflicted
WinnerUser(a) == wallets[a]

\* ensureAdminWalletUser: create the user, or take the one that won the race.
EnsureAdminWalletUser(r) ==
    /\ InFlight(r) /\ At(r, "ensure")
    /\ LET a == req[r].address IN
       \/ /\ wallets[a] = NoValue
          /\ \E u \in Users \ users :
                /\ users' = users \cup {u}
                /\ wallets' = [wallets EXCEPT ![a] = u]
                /\ admins' = admins \cup {u}
                /\ IssueToken("user", a, u)
       \/ /\ wallets[a] # NoValue
          /\ IssueToken("user", a, WinnerUser(a))
          /\ UNCHANGED <<users, wallets, admins>>
    /\ Finish(r)
    /\ UNCHANGED <<now, changes, enrolled, consumed, challenges, sessions>>

\* generateAssociationMessage: a user asks to link a wallet nobody has.
IssueAssociation(u, a) ==
    /\ u \in users
    /\ wallets[a] = NoValue
    /\ IssueToken("user", a, u)
    /\ UNCHANGED <<now, accounts, consumed, challenges, sessions, req, guarded>>

\* createForTenant, createForService
IssueMachine(t, a) ==
    /\ IssueToken(t, a, NoValue)
    /\ UNCHANGED <<now, accounts, consumed, challenges, sessions, req, guarded>>

-----------------------------------------------------------------------------
(* Requests that present a token                                           *)

\* POST /login/crypto-native: validateSiweDeferred leaves the nonce unconsumed.
StartSiwe(r, n, c) ==
    /\ ~InFlight(r)
    /\ TokenValid(n)
    /\ tokens[n].type = "user"
    /\ Start(r, "find_user", "siwe", n, tokens[n].address, NoValue, c)
    /\ guarded' = IF TokenUser(n) \in admins \cap enrolled
                  THEN guarded \cup {r} ELSE guarded
    /\ UNCHANGED <<now, accounts, tokens, consumed, challenges, sessions>>

\* POST /login/oidc: the identity provider vouches for the user.
StartOidc(r, u, c) ==
    /\ ~InFlight(r)
    /\ u \in users \cap OidcUsers
    /\ Start(r, AfterUser(u, "create"), "oidc", NoValue, NoValue, u, c)
    /\ guarded' = IF NeedsPasskey(u) THEN guarded \cup {r} ELSE guarded
    /\ UNCHANGED <<now, accounts, tokens, consumed, challenges, sessions>>

\* POST /login/tenant and /login/service: any valid token is consumed, its
\* target type is looked at afterwards.
StartMachine(r, t, n) ==
    /\ ~InFlight(r)
    /\ TokenValid(n)
    /\ Start(r, "consume", t, n, tokens[n].address, NoValue, NoValue)
    /\ UNCHANGED <<now, accounts, tokens, consumed, challenges, sessions, guarded>>

\* verifyAndAssociateWallet, up to the consumption of the nonce.
StartAssociate(r, u, n) ==
    /\ ~InFlight(r)
    /\ TokenValid(n)
    /\ tokens[n].type = "user"
    /\ tokens[n].target = u
    /\ Start(r, "consume", "associate", n, tokens[n].address, u, NoValue)
    /\ UNCHANGED <<now, accounts, tokens, consumed, challenges, sessions, guarded>>

\* findByIdWithRoles / findByAddressWithRoles, and whether the roles need MFA.
FindUser(r) ==
    /\ InFlight(r) /\ At(r, "find_user")
    /\ LET u == TokenUser(req[r].nonce) IN
       \/ /\ u \notin users
          /\ Finish(r)
       \/ /\ u \in users
          /\ req' = [req EXCEPT ![r].user = u,
                                ![r].pc = AfterUser(u, "consume")]
          /\ guarded' = guarded
    /\ UNCHANGED <<now, accounts, tokens, consumed, challenges, sessions>>

-----------------------------------------------------------------------------
(* The second factor                                                       *)

AfterMfa(r) == IF req[r].kind = "oidc" THEN "create" ELSE "consume"

\* handleMfa of a user without a passkey: registration is optional.
MfaNotEnrolled(r) ==
    /\ InFlight(r) /\ At(r, "mfa")
    /\ req[r].user \notin enrolled
    /\ Goto(r, AfterMfa(r))
    /\ UNCHANGED <<now, accounts, tokens, consumed, challenges, sessions, guarded>>

\* handleMfa without an assertion: answer with a challenge linked to the nonce.
MfaChallenge(r) ==
    /\ InFlight(r) /\ At(r, "mfa")
    /\ req[r].user \in enrolled
    /\ req[r].assertion = NoValue
    /\ \E c \in Challenges :
          /\ challenges[c] = NoValue
          /\ challenges' = [challenges EXCEPT ![c] =
                              [user |-> req[r].user, linked |-> req[r].nonce,
                               exp |-> now + PkExpiration, used |-> FALSE]]
    /\ Finish(r)
    /\ UNCHANGED <<now, accounts, tokens, consumed, sessions>>

\* handleMfa with an assertion: one of the credentials read here must match it.
MfaAssertion(r) ==
    /\ InFlight(r) /\ At(r, "mfa")
    /\ req[r].user \in enrolled
    /\ req[r].assertion # NoValue
    /\ Goto(r, "assert")
    /\ UNCHANGED <<now, accounts, tokens, consumed, challenges, sessions, guarded>>

\* What validateChallenge accepts of the row findByChallenge returned.
ChallengeAccepted(c, u) ==
    /\ challenges[c] # NoValue
    /\ challenges[c].user = u
    /\ ~challenges[c].used
    /\ challenges[c].exp >= now

\* finishAuthentication up to the verification of the signature.
ReadChallenge(r) ==
    /\ InFlight(r) /\ At(r, "assert")
    /\ \/ /\ ~ChallengeAccepted(req[r].assertion, req[r].user)
          /\ Finish(r)
       \/ /\ ChallengeAccepted(req[r].assertion, req[r].user)
          /\ Goto(r, "mark")
          /\ guarded' = guarded
    /\ UNCHANGED <<now, accounts, tokens, consumed, challenges, sessions>>

\* Mutant of Markable: an update that does not ask for an unused row.
MarkableTwice(c) == challenges[c].exp > now

\* markAsUsed matches the row only while it is unused and unexpired.
Markable(c) == ~challenges[c].used /\ challenges[c].exp > now

\* Mutant of LinkMatches: the linked nonce is not compared.
LinkUnchecked(r, c) == TRUE

\* A SIWE login must have answered the challenge issued for its own nonce.
LinkMatches(r, c) == req[r].kind = "siwe" => challenges[c].linked = req[r].nonce

\* The transaction of finishAuthentication: mark the challenge used and save
\* the credential's counter (no row to save it to: it rolls back).
MarkChallenge(r) ==
    /\ InFlight(r) /\ At(r, "mark")
    /\ LET c == req[r].assertion IN
       \/ /\ ~Markable(c) \/ req[r].user \notin enrolled
          /\ Finish(r)
          /\ UNCHANGED challenges
       \/ /\ Markable(c)
          /\ req[r].user \in enrolled
          /\ challenges' = [challenges EXCEPT ![c].used = TRUE]
          /\ \/ /\ LinkMatches(r, c)
                /\ req' = [req EXCEPT ![r].pc = AfterMfa(r), ![r].challenge = c]
                /\ guarded' = guarded
             \/ /\ ~LinkMatches(r, c)
                /\ Finish(r)
    /\ UNCHANGED <<now, accounts, tokens, consumed, sessions>>

-----------------------------------------------------------------------------
(* The nonce, and the session                                              *)

\* Where a request goes once the nonce is its own.
AfterConsume(r) ==
    CASE req[r].kind = "siwe" -> "create"
      [] req[r].kind = "associate" -> "link"
      [] OTHER -> IF tokens[req[r].nonce].type = req[r].kind THEN "create" ELSE "idle"

\* consumeSiweNonce: INSERT ... ON CONFLICT DO NOTHING; the loser answers 401.
ConsumeNonce(r) ==
    /\ InFlight(r) /\ At(r, "consume")
    /\ LET n == req[r].nonce IN
       \/ /\ consumed[n] # NoValue
          /\ Finish(r)
          /\ UNCHANGED consumed
       \/ /\ consumed[n] = NoValue
          /\ consumed' = [consumed EXCEPT ![n] = now]
          /\ IF AfterConsume(r) = "idle"
             THEN Finish(r)
             ELSE Goto(r, AfterConsume(r)) /\ guarded' = guarded
    /\ UNCHANGED <<now, accounts, tokens, challenges, sessions>>

\* createSession. The machine principal is the one with the token's address.
Holder(r) == IF req[r].kind \in MachineTypes THEN req[r].address ELSE req[r].user

CreateSession(r) ==
    /\ InFlight(r) /\ At(r, "create")
    /\ \E s \in SessionIds :
          /\ sessions[s] = NoValue
          /\ sessions' = [sessions EXCEPT ![s] =
                [kind |-> req[r].kind, holder |-> Holder(r),
                 nonce |-> req[r].nonce, challenge |-> req[r].challenge]]
    /\ Finish(r)
    /\ UNCHANGED <<now, accounts, tokens, consumed, challenges>>

\* The rest of verifyAndAssociateWallet: the unique index on live wallets
\* refuses a wallet that found an owner meanwhile.
LinkWallet(r) ==
    /\ InFlight(r) /\ At(r, "link")
    /\ wallets' = [wallets EXCEPT ![req[r].address] =
                     IF @ = NoValue THEN req[r].user ELSE @]
    /\ Finish(r)
    /\ UNCHANGED <<now, changes, users, admins, enrolled, tokens, consumed, challenges, sessions>>

\* The request fails where it stands: a lost connection, a database error, the
\* process stopping. What it had written stays.
Abort(r) ==
    /\ InFlight(r)
    /\ Finish(r)
    /\ UNCHANGED <<now, accounts, tokens, consumed, challenges, sessions>>

-----------------------------------------------------------------------------
(* Account changes made elsewhere, the cleanup job and the clock           *)

\* A request is guarded while its user has been an enrolled admin since it began.
StillGuarded(admins1, enrolled1) ==
    {r \in guarded :
        LET u == IF req[r].user # NoValue THEN req[r].user ELSE TokenUser(req[r].nonce)
        IN u \in admins1 \cap enrolled1}

MayChange == changes < MaxChanges /\ changes' = changes + 1

UnlinkWallet(a) ==
    /\ MayChange
    /\ wallets[a] # NoValue
    /\ wallets' = [wallets EXCEPT ![a] = NoValue]
    /\ guarded' = {r \in guarded : req[r].user # NoValue
                                     \/ tokens[req[r].nonce].target # NoValue}
    /\ UNCHANGED <<now, users, admins, enrolled, tokens, consumed, challenges, sessions, req>>

\* An admin's update of a user, or a tenant's, gives it a wallet nobody has.
GiveWallet(a, u) ==
    /\ MayChange
    /\ wallets[a] = NoValue
    /\ u \in users
    /\ wallets' = [wallets EXCEPT ![a] = u]
    /\ UNCHANGED <<now, users, admins, enrolled, tokens, consumed, challenges, sessions, req, guarded>>

ChangeRole(u) ==
    /\ MayChange
    /\ u \in users
    /\ admins' = IF u \in admins THEN admins \ {u} ELSE admins \cup {u}
    /\ guarded' = StillGuarded(admins', enrolled)
    /\ UNCHANGED <<now, users, wallets, enrolled, tokens, consumed, challenges, sessions, req>>

ChangePasskeys(u) ==
    /\ MayChange
    /\ u \in users
    /\ enrolled' = IF u \in enrolled THEN enrolled \ {u} ELSE enrolled \cup {u}
    /\ guarded' = StillGuarded(admins, enrolled')
    /\ UNCHANGED <<now, users, wallets, admins, tokens, consumed, challenges, sessions, req>>

\* Mutant of Purgeable: the retention is not subtracted from the cutoff.
PurgeableAtOnce(n) == consumed[n] # NoValue /\ consumed[n] < now

\* deleteBefore(now - NonceTtl) removes rows with consumed_at < cutoff.
Purgeable(n) == consumed[n] # NoValue /\ consumed[n] + NonceTtl < now

CleanupNonces ==
    /\ \E n \in Nonces : Purgeable(n)
    /\ consumed' = [n \in Nonces |-> IF Purgeable(n) THEN NoValue ELSE consumed[n]]
    /\ UNCHANGED <<now, accounts, tokens, challenges, sessions, req, guarded>>

\* Time passes; no request outlives MaxLatency.
Tick ==
    /\ now < MaxTime
    /\ \A r \in Requests : InFlight(r) => now < req[r].started + MaxLatency
    /\ now' = now + 1
    /\ UNCHANGED <<accounts, tokens, consumed, challenges, sessions, req, guarded>>

-----------------------------------------------------------------------------
MaybeChallenge == Challenges \cup {NoValue}

RequestStep(r) ==
    \/ EnsureAdminWalletUser(r)
    \/ FindUser(r)
    \/ MfaNotEnrolled(r)
    \/ MfaChallenge(r)
    \/ MfaAssertion(r)
    \/ ReadChallenge(r)
    \/ MarkChallenge(r)
    \/ ConsumeNonce(r)
    \/ CreateSession(r)
    \/ LinkWallet(r)
    \/ Abort(r)

Next ==
    \/ \E a \in Addresses : IssueLogin(a) \/ UnlinkWallet(a)
    \/ \E u \in Users, a \in Addresses : IssueAssociation(u, a) \/ GiveWallet(a, u)
    \/ \E t \in MachineTypes, a \in Addresses : IssueMachine(t, a)
    \/ \E r \in Requests, a \in Addresses : IssueAdminLogin(r, a)
    \/ \E r \in Requests, n \in Nonces, c \in MaybeChallenge : StartSiwe(r, n, c)
    \/ \E r \in Requests, u \in Users, c \in MaybeChallenge : StartOidc(r, u, c)
    \/ \E r \in Requests, t \in MachineTypes, n \in Nonces : StartMachine(r, t, n)
    \/ \E r \in Requests, u \in Users, n \in Nonces : StartAssociate(r, u, n)
    \/ \E r \in Requests : RequestStep(r)
    \/ \E u \in Users : ChangeRole(u) \/ ChangePasskeys(u)
    \/ CleanupNonces
    \/ Tick

Spec == Init /\ [][Next]_vars

-----------------------------------------------------------------------------
(* Properties                                                              *)

\* A SIWE nonce logs in at most once, whichever routes, retries and purges of
\* the consumed-nonce table happen (deferred validation of
\* routes/auth-routes.ts against the nonce cleanup job).
OneSessionPerNonce ==
    \A s, t \in SessionIds :
        /\ sessions[s] # NoValue
        /\ sessions[t] # NoValue
        /\ sessions[s].nonce # NoValue
        /\ sessions[s].nonce = sessions[t].nonce
        => s = t

\* The session of a bound challenge is its user's, even if the wallet has been
\* unlinked or given to another user since (auth-routes.ts, "mid-flight wallet
\* reassignment can't redirect the session").  And the challenge of an admin
\* wallet is always bound, also when two first logins race to create its user
\* (ensureAdminWalletUser).
SessionOfBoundUser ==
  /\ \A s \in SessionIds :
        /\ sessions[s] # NoValue
        /\ sessions[s].kind = "siwe"
        /\ tokens[sessions[s].nonce].target # NoValue
        => sessions[s].holder = tokens[sessions[s].nonce].target
  /\ \A n \in Nonces :
        /\ tokens[n] # NoValue
        /\ tokens[n].type = "user"
        /\ tokens[n].address \in AdminWallets
        => tokens[n].target # NoValue

\* One passkey assertion never backs two sessions, of SIWE or OIDC logins, and
\* the challenge it answers was issued to the session's user and, for a SIWE
\* login, for the very nonce that login presented.
OneSessionPerChallenge ==
  /\ \A s, t \in SessionIds :
        /\ sessions[s] # NoValue
        /\ sessions[t] # NoValue
        /\ sessions[s].challenge # NoValue
        /\ sessions[s].challenge = sessions[t].challenge
        => s = t
  /\ \A s \in SessionIds :
        /\ sessions[s] # NoValue
        /\ sessions[s].challenge # NoValue
        => /\ challenges[sessions[s].challenge].user = sessions[s].holder
           /\ sessions[s].kind = "siwe" =>
                challenges[sessions[s].challenge].linked = sessions[s].nonce

\* No session without a passkey for a user who needed one from the start of
\* the request to its end (admin-mfa-service.ts).
NoLoginAroundMfa ==
    [][\A r \in guarded :
         CreateSession(r) => req[r].challenge # NoValue]_vars

\* The login routes, the other users of a nonce and the cleanup job together
\* keep the promise of SingleUseLogin, session by session.
BoundOf ==
    [n \in Nonces |->
        [issued |-> tokens[n] # NoValue,
         to |-> IF tokens[n] = NoValue THEN NoValue ELSE tokens[n].target]]
GrantedOf ==
    [n \in Nonces |->
        {<<s, sessions[s].holder>> :
            s \in {t \in SessionIds : /\ sessions[t] # NoValue
                                      /\ sessions[t].nonce = n}}]

Promise == INSTANCE SingleUseLogin
             WITH Holders <- Users \cup Addresses,
                  bound <- BoundOf, granted <- GrantedOf
SingleUse == Promise!Spec

=============================================================================
