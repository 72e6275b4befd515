------------------------------ MODULE Sessions ------------------------------
(***************************************************************************)
(* The sessions table and everything that touches it: login and docs       *)
(* sessions, the authentication hook in front of every handler, the        *)
(* sliding extension, logout, the revocations by the user, by an admin and *)
(* by the deletion of an organization, and the cleanup job.  Sessions are  *)
(* read by one statement and written by another, with other requests in    *)
(* between.                                                                *)
(***************************************************************************)
EXTENDS Naturals, FiniteSets

CONSTANTS
    Users,          \* user accounts
    Machines,       \* tenants and services
    Members,        \* the users of the organization that may be deleted
    Tokens,         \* random session tokens, each drawn once
    Requests,       \* concurrent HTTP requests
    NoValue,        \* SQL NULL, an absent row
    Duration,       \* *_SESSION_DURATION_SECONDS
    Idle,           \* USER_IDLE_TIMEOUT_SECONDS, or NoValue when unset
    MaxTime         \* bound: last instant of a behaviour

ASSUME SessionAssumption ==
    /\ Members \subseteq Users
    /\ Users \cap Machines = {}
    /\ Duration \in Nat \ {0}
    /\ MaxTime \in Nat
    /\ NoValue \notin Nat
    \* env.ts, isIdleTimeoutExceedsSessionCap
    /\ Idle \in Nat \ {0} => Idle <= Duration
    /\ Idle \in (Nat \ {0}) \cup {NoValue}

VARIABLES
    now,        \* the clock
    rows,       \* the sessions table
    orgDeleted, \* whether the organization has been soft-deleted
    req,        \* the requests in flight
    created,    \* history: when each token was issued
    touched,    \* history: when a deadline was last written
    late        \* history: requests that started after the deletion

vars == <<now, rows, orgDeleted, req, created, touched, late>>

Principals == Users \cup Machines
Times == 0 .. MaxTime
Deadlines == 0 .. (MaxTime + Duration)
Ops == {"act", "extend", "logout", "revoke", "revoke_others"}
Waiting == [pc |-> "idle"]

Rows ==
    [owner : Principals, scope : {"full", "docs"}, expiresAt : Deadlines,
     renewableUntil : Deadlines, revoked : BOOLEAN]
ASSUME NullAssumption == NoValue \notin Rows

RequestRecords ==
    [pc : {"user", "handler", "write", "create"}, op : Ops \cup {"login", "docs"},
     owner : Principals, token : Tokens \cup {NoValue},
     target : Tokens \cup {NoValue}, deadline : Deadlines \cup {NoValue}]

TypeOK ==
    /\ now \in Times
    /\ rows \in [Tokens -> Rows \cup {NoValue}]
    /\ orgDeleted \in BOOLEAN
    /\ req \in [Requests -> RequestRecords \cup {Waiting}]
    /\ created \in [Tokens -> Times \cup {NoValue}]
    /\ touched \in [Tokens -> Times \cup {NoValue}]
    /\ late \subseteq Requests

Init ==
    /\ now = 0
    /\ rows = [t \in Tokens |-> NoValue]
    /\ orgDeleted = FALSE
    /\ req = [r \in Requests |-> Waiting]
    /\ created = [t \in Tokens |-> NoValue]
    /\ touched = [t \in Tokens |-> NoValue]
    /\ late = {}

-----------------------------------------------------------------------------
(* Helpers                                                                 *)

InFlight(r) == req[r] # Waiting
At(r, pc) == InFlight(r) /\ req[r].pc = pc
Doing(r, op) == InFlight(r) /\ req[r].op = op

Start(r, pc, op, owner, token, target) ==
    /\ req' = [req EXCEPT ![r] =
                 [pc |-> pc, op |-> op, owner |-> owner, token |-> token,
                  target |-> target, deadline |-> NoValue]]
    /\ late' = IF orgDeleted THEN late \cup {r} ELSE late \ {r}

Finish(r) == req' = [req EXCEPT ![r] = Waiting]

\* The filter of findActiveByTokenHash, findActiveByUserId, extendByTokenHash.
Active(t) ==
    /\ rows[t] # NoValue
    /\ rows[t].expiresAt > now
    /\ ~rows[t].revoked

Revoke(ts) ==
    rows' = [t \in Tokens |->
               IF t \in ts THEN [rows[t] EXCEPT !.revoked = TRUE] ELSE rows[t]]

RowsOf(owners) == {t \in Tokens : rows[t] # NoValue /\ rows[t].owner \in owners}
Unrevoked(ts) == {t \in ts : ~rows[t].revoked}

IsUser(p) == p \in Users

Earlier(a, b) == IF a < b THEN a ELSE b

-----------------------------------------------------------------------------
(* Creation                                                                *)

\* The first deadline: the idle one of a user session, else the cap.
FirstDeadline(owner, scope) ==
    IF IsUser(owner) /\ scope = "full" /\ Idle # NoValue THEN now + Idle
                                                         ELSE now + Duration

\* A login has established who logs in; createSession is a later statement.
Login(r, p) ==
    /\ ~InFlight(r)
    /\ Start(r, "create", "login", p, NoValue, NoValue)
    /\ UNCHANGED <<now, rows, orgDeleted, created, touched>>

\* POST /docs/session, up to the creation: the token must be an active user
\* session of full scope.  There is no authentication hook on this route.
DocsRead(r, t) ==
    /\ ~InFlight(r)
    /\ Active(t)
    /\ IsUser(rows[t].owner)
    /\ rows[t].scope = "full"
    /\ Start(r, "create", "docs", rows[t].owner, t, NoValue)
    /\ UNCHANGED <<now, rows, orgDeleted, created, touched>>

\* createSession
CreateSession(r) ==
    /\ At(r, "create")
    /\ LET scope == IF Doing(r, "docs") THEN "docs" ELSE "full" IN
       \E t \in Tokens :
          /\ created[t] = NoValue
          /\ rows' = [rows EXCEPT ![t] =
                [owner |-> req[r].owner, scope |-> scope,
                 expiresAt |-> FirstDeadline(req[r].owner, scope),
                 renewableUntil |-> now + Duration, revoked |-> FALSE]]
          /\ created' = [created EXCEPT ![t] = now]
          /\ touched' = [touched EXCEPT ![t] = now]
    /\ Finish(r)
    /\ UNCHANGED <<now, orgDeleted, late>>

-----------------------------------------------------------------------------
(* The authentication hook                                                 *)

\* extractSession, its first read: the session is active, and not a docs one.
Authenticate(r, t, op, target) ==
    /\ ~InFlight(r)
    /\ Active(t)
    /\ rows[t].scope = "full"
    /\ op \in {"extend", "revoke", "revoke_others"} => IsUser(rows[t].owner)
    /\ Start(r, "user", op, rows[t].owner, t, target)
    /\ UNCHANGED <<now, rows, orgDeleted, created, touched>>

\* Mutant of MembershipLives: the organization's soft delete is not looked at.
MembershipLivesAlways(p) == TRUE

\* ~belongsToDeletedOrganization
MembershipLives(p) == p \in Members => ~orgDeleted

\* extractSession, its second read: the principal and its organization.
LoadPrincipal(r) ==
    /\ At(r, "user")
    /\ req' = [req EXCEPT ![r] =
                 IF MembershipLives(@.owner) THEN [@ EXCEPT !.pc = "handler"]
                                             ELSE Waiting]
    /\ UNCHANGED <<now, rows, orgDeleted, created, touched, late>>

-----------------------------------------------------------------------------
(* The handlers                                                            *)

\* Any handler that leaves the sessions alone.
Act(r) ==
    /\ At(r, "handler") /\ Doing(r, "act")
    /\ Finish(r)
    /\ UNCHANGED <<now, rows, orgDeleted, created, touched, late>>

\* Mutant of Slide: the cap is forgotten.
SlidePastCap(t) == now + Idle

\* The deadline an extension computes from the row it has read.
Slide(t) == Earlier(now + Idle, rows[t].renewableUntil)

\* extendSession, its read: nothing to do without an idle timeout, and nothing
\* to write when the deadline would not move.
ExtendRead(r) ==
    /\ At(r, "handler") /\ Doing(r, "extend")
    /\ LET t == req[r].token IN
       IF Active(t) /\ Idle # NoValue /\ Slide(t) # rows[t].expiresAt
       THEN req' = [req EXCEPT ![r].pc = "write", ![r].deadline = Slide(t)]
       ELSE Finish(r)
    /\ UNCHANGED <<now, rows, orgDeleted, created, touched, late>>

\* Mutant of Extendable: the update no longer asks for an active row.
ExtendableAny(t) == rows[t] # NoValue

\* The rows extendByTokenHash updates.
Extendable(t) == Active(t)

\* extendSession, its write, with the deadline computed at the read.
ExtendWrite(r) ==
    /\ At(r, "write") /\ Doing(r, "extend")
    /\ LET t == req[r].token IN
       IF Extendable(t)
       THEN /\ rows' = [rows EXCEPT ![t].expiresAt = req[r].deadline]
            /\ touched' = [touched EXCEPT ![t] = now]
       ELSE UNCHANGED <<rows, touched>>
    /\ Finish(r)
    /\ UNCHANGED <<now, orgDeleted, created, late>>

\* POST /logout deletes the row.
Logout(r) ==
    /\ At(r, "handler") /\ Doing(r, "logout")
    /\ rows' = [rows EXCEPT ![req[r].token] = NoValue]
    /\ Finish(r)
    /\ UNCHANGED <<now, orgDeleted, created, touched, late>>

\* POST /sessions/:id/revoke, its read: one of the caller's active sessions.
RevokeRead(r) ==
    /\ At(r, "handler") /\ Doing(r, "revoke")
    /\ LET t == req[r].target IN
       req' = [req EXCEPT ![r] =
                 IF Active(t) /\ rows[t].owner = req[r].owner
                 THEN [@ EXCEPT !.pc = "write"] ELSE Waiting]
    /\ UNCHANGED <<now, rows, orgDeleted, created, touched, late>>

\* revokeById, by id alone; the row may have been deleted since the read.
RevokeWrite(r) ==
    /\ At(r, "write") /\ Doing(r, "revoke")
    /\ Revoke(RowsOf(Principals) \cap {req[r].target})
    /\ Finish(r)
    /\ UNCHANGED <<now, orgDeleted, created, touched, late>>

\* revokeAllByUserIdExcept
RevokeOthers(r) ==
    /\ At(r, "handler") /\ Doing(r, "revoke_others")
    /\ Revoke(Unrevoked(RowsOf({req[r].owner}) \ {req[r].token}))
    /\ Finish(r)
    /\ UNCHANGED <<now, orgDeleted, created, touched, late>>

\* The request fails where it stands; what it had written stays.
Abort(r) ==
    /\ InFlight(r)
    /\ Finish(r)
    /\ UNCHANGED <<now, rows, orgDeleted, created, touched, late>>

-----------------------------------------------------------------------------
(* Admins, the organization, the cleanup job and the clock                 *)

\* POST /admin/sessions/:id/revoke
AdminRevoke(t) ==
    /\ rows[t] # NoValue
    /\ Revoke({t})
    /\ UNCHANGED <<now, orgDeleted, req, created, touched, late>>

\* POST /admin/sessions/revoke-all, revokeAllByUserId
AdminRevokeAll(u) ==
    /\ Revoke(Unrevoked(RowsOf({u})))
    /\ UNCHANGED <<now, orgDeleted, req, created, touched, late>>

\* POST /organizations/:id/sessions/revoke, revokeAllByOrganizationId
OrgRevoke ==
    /\ ~orgDeleted
    /\ Revoke(Unrevoked(RowsOf(Members)))
    /\ UNCHANGED <<now, orgDeleted, req, created, touched, late>>

\* deleteOrganizationAndRevokeAccess, one transaction
DeleteOrg ==
    /\ ~orgDeleted
    /\ orgDeleted' = TRUE
    /\ Revoke(Unrevoked(RowsOf(Members)))
    /\ UNCHANGED <<now, req, created, touched, late>>

\* deleteExpiredOrRevoked: a deadline equal to now is neither active nor past.
Collectable(t) ==
    /\ rows[t] # NoValue
    /\ rows[t].expiresAt < now \/ rows[t].revoked

Cleanup ==
    /\ \E t \in Tokens : Collectable(t)
    /\ rows' = [t \in Tokens |-> IF Collectable(t) THEN NoValue ELSE rows[t]]
    /\ UNCHANGED <<now, orgDeleted, req, created, touched, late>>

Tick ==
    /\ now < MaxTime
    /\ now' = now + 1
    /\ UNCHANGED <<rows, orgDeleted, req, created, touched, late>>

-----------------------------------------------------------------------------
Handler(r) ==
    \/ CreateSession(r)
    \/ LoadPrincipal(r)
    \/ Act(r)
    \/ ExtendRead(r)
    \/ ExtendWrite(r)
    \/ Logout(r)
    \/ RevokeRead(r)
    \/ RevokeWrite(r)
    \/ RevokeOthers(r)
    \/ Abort(r)

Next ==
    \/ \E r \in Requests, p \in Principals : Login(r, p)
    \/ \E r \in Requests, t \in Tokens : DocsRead(r, t)
    \/ \E r \in Requests, t \in Tokens, op \in Ops \ {"revoke"} :
          Authenticate(r, t, op, NoValue)
    \/ \E r \in Requests, t, target \in Tokens : Authenticate(r, t, "revoke", target)
    \/ \E r \in Requests : Handler(r)
    \/ \E t \in Tokens : AdminRevoke(t)
    \/ \E u \in Users : AdminRevokeAll(u)
    \/ OrgRevoke
    \/ DeleteOrg
    \/ Cleanup
    \/ Tick

Spec == Init /\ [][Next]_vars

-----------------------------------------------------------------------------
(* Properties                                                              *)

\* An active user session had its deadline written at most Idle ago, and no
\* extension that raced a login, a revocation or another extension pushed it
\* past the cap fixed when it was created (session-service.ts).
IdleAndCap ==
    \A t \in Tokens :
        Active(t) =>
            /\ now < created[t] + Duration
            /\ IsUser(rows[t].owner) /\ rows[t].scope = "full" /\ Idle # NoValue =>
                  now < touched[t] + Idle

\* Once the organization is deleted, no request of a member that starts
\* afterwards reaches a handler, even with a session that a login in flight
\* created after the revocation (sessions-auth.ts, belongsToDeletedOrganization).
DeletedOrgLockedOut ==
    \A r \in late : At(r, "handler") \/ At(r, "write") => req[r].owner \notin Members

\* Sessions keep the promise of Lease: an ended session - expired, revoked,
\* logged out or collected - is never active again, whichever extension was in
\* flight when it ended.
LeaseState ==
    [t \in Tokens |->
        IF created[t] = NoValue THEN [is |-> "unissued", since |-> 0]
        ELSE [is |-> IF Active(t) THEN "good" ELSE "ended", since |-> created[t]]]

Promise == INSTANCE Lease WITH clock <- now, state <- LeaseState
EndedForGood == Promise!Spec
=============================================================================
