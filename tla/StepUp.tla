------------------------------- MODULE StepUp -------------------------------
(***************************************************************************)
(* Passkeys and the step-up ceremony: the enrolment and the deletion of    *)
(* passkeys by their owner and by admins, and the single-use proofs that   *)
(* some of these operations ask for.  A proof is minted for a WebAuthn     *)
(* assertion over a challenge; the assertion is the client's, and may be   *)
(* sent any number of times.                                               *)
(***************************************************************************)
EXTENDS Naturals, FiniteSets

CONSTANTS
    Users,          \* user accounts
    Admins,         \* the ones that may call the admin routes
    MfaUsers,       \* the ones whose roles require MFA
    SessionNos,     \* a session is a user and one of these
    Keys,           \* passkeys, each enrolled at most once
    Challenges,     \* random passkey challenges, each drawn once
    Proofs,         \* random proofs, each drawn once
    Requests,       \* concurrent HTTP requests
    NoValue,        \* SQL NULL, an absent row or an absent field
    Deleted,        \* a deleted passkey, whose id does not come back
    ChallengeTtl,   \* DEFAULT_EXPIRATION_MS of passkey challenges
    ProofTtl,       \* STEP_UP_PROOF_TTL_MS
    Grace,          \* GRACE_MS of the cleanup job
    MaxTime         \* bound: last instant of a behaviour

ASSUME StepUpAssumption ==
    /\ Admins \subseteq MfaUsers
    /\ MfaUsers \subseteq Users
    /\ {ChallengeTtl, ProofTtl, Grace, MaxTime} \subseteq Nat
    /\ NoValue \notin Users \cup Keys \cup Challenges \cup Proofs
    /\ Deleted \notin Users \cup {NoValue}
    /\ IsFiniteSet(Keys)

VARIABLES
    now,        \* the clock
    keys,       \* passkey_credentials: the owner of each passkey
    challenges, \* passkey_challenges
    proofs,     \* step_up_proofs
    req,        \* the requests in flight
    issued,     \* history: what each challenge was drawn for
    enrolments, \* history: how each passkey was enrolled
    passes      \* history: the gates passed with a proof

vars == <<now, keys, challenges, proofs, req, issued, enrolments, passes>>

Sessions == Users \X SessionNos
Times == 0 .. MaxTime
\* The actions a proof can be asked for, named after their routes.
Actions == {"register", "admin_delete", "admin_reset"}
Ops == Actions \cup {"enrol", "own_delete", "step_up_begin", "step_up_finish"}
Waiting == [pc |-> "idle"]

ChallengeRows ==
    [user : Users, type : {"registration", "step_up"},
     action : Actions \cup {NoValue}, exp : Nat, used : BOOLEAN]
ProofRows ==
    [session : Sessions, action : Actions, exp : Nat, consumed : BOOLEAN,
     challenge : Challenges]
Requested ==
    [pc : {"gate", "work", "delete", "enrol", "verify", "mark", "mint"}, op : Ops,
     session : Sessions, action : Actions \cup {NoValue},
     proof : Proofs \cup {NoValue}, challenge : Challenges \cup {NoValue},
     key : Keys \cup {NoValue}, target : Users, stepped : BOOLEAN]
Issues ==
    [user : Users, type : {"registration", "step_up"},
     action : Actions \cup {NoValue}, round : Nat, stepped : BOOLEAN]
Enrolments == [user : Users, round : Nat, first : BOOLEAN, stepped : BOOLEAN]
Passes ==
    [proof : Proofs, challenge : Challenges, session : Sessions,
     action : Actions, n : Nat]

ASSUME NullAssumption ==
    /\ NoValue \notin ChallengeRows
    /\ NoValue \notin ProofRows
    /\ NoValue \notin Issues
    /\ NoValue \notin Enrolments

TypeOK ==
    /\ now \in Times
    /\ keys \in [Keys -> Users \cup {NoValue, Deleted}]
    /\ challenges \in [Challenges -> ChallengeRows \cup {NoValue}]
    /\ proofs \in [Proofs -> ProofRows \cup {NoValue}]
    /\ req \in [Requests -> Requested \cup {Waiting}]
    /\ issued \in [Challenges -> Issues \cup {NoValue}]
    /\ enrolments \in [Keys -> Enrolments \cup {NoValue}]
    /\ passes \subseteq Passes

Init ==
    /\ now = 0
    /\ keys \in [Keys -> Users \cup {NoValue}]
    /\ challenges = [c \in Challenges |-> NoValue]
    /\ proofs = [p \in Proofs |-> NoValue]
    /\ req = [r \in Requests |-> Waiting]
    /\ issued = [c \in Challenges |-> NoValue]
    /\ enrolments = [k \in Keys |-> NoValue]
    /\ passes = {}

-----------------------------------------------------------------------------
(* Helpers                                                                 *)

InFlight(r) == req[r] # Waiting
At(r, pc, op) == InFlight(r) /\ req[r].pc = pc /\ req[r].op = op
Caller(r) == req[r].session[1]
Goto(r, pc) == req' = [req EXCEPT ![r].pc = pc]
Finish(r) == req' = [req EXCEPT ![r] = Waiting]

NewRequest(pc, op, s) ==
    [pc |-> pc, op |-> op, session |-> s, action |-> NoValue, proof |-> NoValue,
     challenge |-> NoValue, key |-> NoValue, target |-> s[1], stepped |-> FALSE]
Start(r, request) == ~InFlight(r) /\ req' = [req EXCEPT ![r] = request]

KeysOf(u) == {k \in Keys : keys[k] = u}
HasPasskey(u) == KeysOf(u) # {}

\* How many passkeys a user has enrolled, deleted since or not.
Round(u) ==
    Cardinality({k \in Keys : enrolments[k] # NoValue /\ enrolments[k].user = u})

\* passkeyChallenges.create; its rate limit refuses as Abort does.
Draw(r, u, type, action) ==
    \E c \in Challenges :
        /\ issued[c] = NoValue
        /\ challenges' = [challenges EXCEPT ![c] =
              [user |-> u, type |-> type, action |-> action,
               exp |-> now + ChallengeTtl, used |-> FALSE]]
        /\ issued' = [issued EXCEPT ![c] =
              [user |-> u, type |-> type, action |-> action,
               round |-> Round(u), stepped |-> req[r].stepped]]

\* validateChallenge
ValidChallenge(c, u, type) ==
    /\ challenges[c] # NoValue
    /\ challenges[c].user = u
    /\ ~challenges[c].used
    /\ challenges[c].exp >= now
    /\ challenges[c].type = type

\* The filter of markAsUsed and markAllPendingAsUsed.
Pending(c) ==
    /\ challenges[c] # NoValue
    /\ ~challenges[c].used
    /\ challenges[c].exp > now

MarkUsed(cs) ==
    challenges' = [c \in Challenges |->
                     IF c \in cs THEN [challenges[c] EXCEPT !.used = TRUE]
                                 ELSE challenges[c]]

-----------------------------------------------------------------------------
(* requireStepUpIfApplicable                                               *)

\* POST /webauthn/register/begin: the gate applies from the second passkey on.
RegisterBegin(r, s, p) ==
    /\ Start(r, [NewRequest(IF HasPasskey(s[1]) THEN "gate" ELSE "work",
                            "register", s)
                    EXCEPT !.action = "register", !.proof = p])
    /\ UNCHANGED <<now, keys, challenges, proofs, issued, enrolments, passes>>

\* crossUserWithActorPasskey
CrossUserWithActorPasskey(actor, u) == u # actor /\ HasPasskey(actor)

\* DELETE /admin/webauthn/users/:userId/:credentialId and /users/:userId
AdminRequest(r, s, op, u, k, p) ==
    /\ s[1] \in Admins
    /\ Start(r, [NewRequest(IF CrossUserWithActorPasskey(s[1], u) THEN "gate"
                                                                  ELSE "work",
                            op, s)
                    EXCEPT !.action = op, !.proof = p, !.key = k, !.target = u])
    /\ UNCHANGED <<now, keys, challenges, proofs, issued, enrolments, passes>>

\* Mutant of Consumable: a consumed proof is taken again.
ConsumableTwice(p, s, action) ==
    /\ proofs[p] # NoValue
    /\ proofs[p].session = s
    /\ proofs[p].action = action
    /\ proofs[p].exp > now

\* The filter of stepUpProofs.consume, one UPDATE.
Consumable(p, s, action) ==
    /\ proofs[p] # NoValue
    /\ proofs[p].session = s
    /\ proofs[p].action = action
    /\ ~proofs[p].consumed
    /\ proofs[p].exp > now

\* requireStepUp: without a proof, or with a wrong one, the answer is 401.
PassGate(r) ==
    /\ \E op \in Actions : At(r, "gate", op)
    /\ LET p == req[r].proof IN
       IF p # NoValue /\ Consumable(p, req[r].session, req[r].action)
       THEN /\ proofs' = [proofs EXCEPT ![p].consumed = TRUE]
            /\ passes' = passes \cup
                 {[proof |-> p, challenge |-> proofs[p].challenge,
                   session |-> req[r].session, action |-> req[r].op,
                   n |-> Cardinality(passes)]}
            /\ req' = [req EXCEPT ![r].pc = "work", ![r].stepped = TRUE]
       ELSE Finish(r) /\ UNCHANGED <<proofs, passes>>
    /\ UNCHANGED <<now, keys, challenges, issued, enrolments>>

-----------------------------------------------------------------------------
(* Enrolment                                                               *)

\* beginRegistration
BeginRegistration(r) ==
    /\ At(r, "work", "register")
    /\ Draw(r, Caller(r), "registration", NoValue)
    /\ Finish(r)
    /\ UNCHANGED <<now, keys, proofs, enrolments, passes>>

\* finishRegistration, its read: the response signs a valid challenge.
FinishRegistration(r, s, c) ==
    /\ ValidChallenge(c, s[1], "registration")
    /\ Start(r, [NewRequest("enrol", "enrol", s) EXCEPT !.challenge = c])
    /\ UNCHANGED <<now, keys, challenges, proofs, issued, enrolments, passes>>

\* Mutant of Superseded: the other pending registrations are left alone.
SupersededNone(c) == {c}

\* What an enrolment marks as used: its own challenge, and every other pending
\* registration challenge of the user.
Superseded(c) ==
    {c} \cup {d \in Challenges : /\ Pending(d)
                                 /\ challenges[d].user = challenges[c].user
                                 /\ challenges[d].type = "registration"}

\* finishRegistration, its transaction.
Enrol(r) ==
    /\ At(r, "enrol", "enrol")
    /\ LET c == req[r].challenge
           u == Caller(r) IN
       IF Pending(c)
       THEN \E k \in Keys :
              /\ keys[k] = NoValue
              /\ MarkUsed(Superseded(c))
              /\ keys' = [keys EXCEPT ![k] = u]
              /\ enrolments' = [enrolments EXCEPT ![k] =
                    [user |-> u, round |-> issued[c].round,
                     first |-> ~HasPasskey(u), stepped |-> issued[c].stepped]]
       ELSE UNCHANGED <<keys, challenges, enrolments>>
    /\ Finish(r)
    /\ UNCHANGED <<now, proofs, issued, passes>>

-----------------------------------------------------------------------------
(* The step-up ceremony                                                    *)

\* POST /webauthn/step-up/begin: there must be a passkey to step up with.
StepUpBegin(r, s, a) ==
    /\ HasPasskey(s[1])
    /\ Start(r, [NewRequest("work", "step_up_begin", s) EXCEPT !.action = a])
    /\ UNCHANGED <<now, keys, challenges, proofs, issued, enrolments, passes>>

StepUpChallenge(r) ==
    /\ At(r, "work", "step_up_begin")
    /\ Draw(r, Caller(r), "step_up", req[r].action)
    /\ Finish(r)
    /\ UNCHANGED <<now, keys, proofs, enrolments, passes>>

\* Mutant of IssuedFor: the action claimed at the end is believed.
IssuedForAny(c, a) == challenges[c] # NoValue

\* The action of a challenge is fixed when it is created.
IssuedFor(c, a) == challenges[c] # NoValue /\ challenges[c].action = a

\* POST /webauthn/step-up/finish, up to findExistingKey.
StepUpFinish(r, s, a, c, k) ==
    /\ IssuedFor(c, a)
    /\ keys[k] = s[1]
    /\ Start(r, [NewRequest("verify", "step_up_finish", s)
                    EXCEPT !.action = a, !.challenge = c, !.key = k])
    /\ UNCHANGED <<now, keys, challenges, proofs, issued, enrolments, passes>>

\* finishAuthentication, its read.
VerifyAssertion(r) ==
    /\ At(r, "verify", "step_up_finish")
    /\ IF ValidChallenge(req[r].challenge, Caller(r), "step_up")
       THEN Goto(r, "mark") ELSE Finish(r)
    /\ UNCHANGED <<now, keys, challenges, proofs, issued, enrolments, passes>>

\* finishAuthentication, its transaction: the passkey must still be there for
\* its counter to be updated.
MarkAssertion(r) ==
    /\ At(r, "mark", "step_up_finish")
    /\ IF Pending(req[r].challenge) /\ keys[req[r].key] \in Users
       THEN MarkUsed({req[r].challenge}) /\ Goto(r, "mint")
       ELSE Finish(r) /\ UNCHANGED challenges
    /\ UNCHANGED <<now, keys, proofs, issued, enrolments, passes>>

ProofDeadline == now + ProofTtl

\* stepUpProofs.create, a statement of its own.
MintProof(r) ==
    /\ At(r, "mint", "step_up_finish")
    /\ \E p \in Proofs :
          /\ proofs[p] = NoValue /\ \A d \in passes : d.proof # p
          /\ proofs' = [proofs EXCEPT ![p] =
                [session |-> req[r].session, action |-> req[r].action,
                 exp |-> ProofDeadline, consumed |-> FALSE,
                 challenge |-> req[r].challenge]]
    /\ Finish(r)
    /\ UNCHANGED <<now, keys, challenges, issued, enrolments, passes>>

-----------------------------------------------------------------------------
(* Deletion                                                                *)

\* DELETE /webauthn/credentials/:id, its read.
OwnDelete(r, s, k) ==
    /\ keys[k] = s[1]
    /\ Start(r, [NewRequest("delete", "own_delete", s) EXCEPT !.key = k])
    /\ UNCHANGED <<now, keys, challenges, proofs, issued, enrolments, passes>>

\* DELETE /admin/webauthn/users/:userId/:credentialId, its read.
AdminReadKey(r) ==
    /\ At(r, "work", "admin_delete")
    /\ IF keys[req[r].key] = req[r].target THEN Goto(r, "delete") ELSE Finish(r)
    /\ UNCHANGED <<now, keys, challenges, proofs, issued, enrolments, passes>>

\* Whether a deletion goes through deleteIfNotLast.
KeepsOne(r) ==
    \/ req[r].op = "own_delete" /\ Caller(r) \in MfaUsers
    \/ req[r].op = "admin_delete" /\ req[r].target = Caller(r)

\* Mutant of Deletable: there is something to delete, last or not.
DeletableLast(r) == keys[req[r].key] = Caller(r)

\* deleteIfNotLast, which locks the user's rows; deleteById has no condition.
Deletable(r) ==
    KeepsOne(r) => /\ keys[req[r].key] = Caller(r)
                   /\ Cardinality(KeysOf(Caller(r))) > 1

DeleteKey(r) ==
    /\ At(r, "delete", "own_delete") \/ At(r, "delete", "admin_delete")
    /\ keys' = IF Deletable(r) THEN [keys EXCEPT ![req[r].key] = Deleted] ELSE keys
    /\ Finish(r)
    /\ UNCHANGED <<now, challenges, proofs, issued, enrolments, passes>>

\* DELETE /admin/webauthn/users/:userId: never one's own.
ResetKeys(r) ==
    /\ At(r, "work", "admin_reset")
    /\ keys' = [k \in Keys |->
                  IF keys[k] = req[r].target /\ req[r].target # Caller(r)
                  THEN Deleted ELSE keys[k]]
    /\ Finish(r)
    /\ UNCHANGED <<now, challenges, proofs, issued, enrolments, passes>>

-----------------------------------------------------------------------------
(* Failures, the cleanup job and the clock                                 *)

\* The request fails where it stands; what it had written stays.
Abort(r) ==
    /\ InFlight(r)
    /\ Finish(r)
    /\ UNCHANGED <<now, keys, challenges, proofs, issued, enrolments, passes>>

Outlived(row) == row # NoValue /\ row.exp + Grace < now

\* createAuthRecordsCleanupJob: either deletion may fail on its own.
CleanupProofs ==
    /\ \E p \in Proofs : Outlived(proofs[p])
    /\ proofs' = [p \in Proofs |-> IF Outlived(proofs[p]) THEN NoValue ELSE proofs[p]]
    /\ UNCHANGED <<now, keys, challenges, req, issued, enrolments, passes>>

CleanupChallenges ==
    /\ \E c \in Challenges : Outlived(challenges[c])
    /\ challenges' = [c \in Challenges |->
                        IF Outlived(challenges[c]) THEN NoValue ELSE challenges[c]]
    /\ UNCHANGED <<now, keys, proofs, req, issued, enrolments, passes>>

Tick ==
    /\ now < MaxTime
    /\ now' = now + 1
    /\ UNCHANGED <<keys, challenges, proofs, req, issued, enrolments, passes>>

-----------------------------------------------------------------------------
RequestStep(r) ==
    \/ PassGate(r)
    \/ BeginRegistration(r)
    \/ Enrol(r)
    \/ StepUpChallenge(r)
    \/ VerifyAssertion(r)
    \/ MarkAssertion(r)
    \/ MintProof(r)
    \/ AdminReadKey(r)
    \/ DeleteKey(r)
    \/ ResetKeys(r)
    \/ Abort(r)

Arrival(r, s) ==
    \/ \E p \in Proofs \cup {NoValue} :
          \/ RegisterBegin(r, s, p)
          \/ \E u \in Users, k \in Keys : AdminRequest(r, s, "admin_delete", u, k, p)
          \/ \E u \in Users : AdminRequest(r, s, "admin_reset", u, NoValue, p)
    \/ \E c \in Challenges : FinishRegistration(r, s, c)
    \/ \E a \in Actions : StepUpBegin(r, s, a)
    \/ \E a \in Actions, c \in Challenges, k \in Keys : StepUpFinish(r, s, a, c, k)
    \/ \E k \in Keys : OwnDelete(r, s, k)

Next ==
    \/ \E r \in Requests, s \in Sessions : Arrival(r, s)
    \/ \E r \in Requests : RequestStep(r)
    \/ CleanupProofs
    \/ CleanupChallenges
    \/ Tick

Spec == Init /\ [][Next]_vars

-----------------------------------------------------------------------------
(* Properties                                                              *)

\* One touch of a passkey opens one gate, however an assertion is resent and
\* its finishes and the use of its proof interleave, and only a gate for the
\* user and the action its step-up challenge was issued for
\* (step-up-service.ts, "the caller did not claim a different action than the
\* one begin was issued for").
OnePassPerAssertion ==
  /\ \A d, e \in passes : d.challenge = e.challenge => d = e
  /\ \A d \in passes :
        /\ issued[d.challenge].type = "step_up"
        /\ issued[d.challenge].user = d.session[1]
        /\ issued[d.challenge].action = d.action

\* A user whose roles require MFA is left without a passkey only by an admin
\* other than the user, whichever of the user's own deletions race
\* (deleteIfNotLast in passkey-credentials-repository.ts).
LastPasskeyKept ==
    [][\A u \in MfaUsers :
         HasPasskey(u) /\ ~HasPasskey(u)' =>
            \E r \in Requests : /\ DeleteKey(r) \/ ResetKeys(r)
                                /\ Caller(r) \in Admins \ {u}]_vars

\* The registrations a user has begun before an enrolment end with it: two
\* passkeys never come from the same round of challenges (passkey-service.ts,
\* "Invalidate any other pending registration challenges for this user").
OneEnrolmentPerRound ==
    \A k, l \in Keys :
        /\ enrolments[k] # NoValue
        /\ enrolments[l] # NoValue
        /\ enrolments[k].user = enrolments[l].user
        /\ enrolments[k].round = enrolments[l].round
        => k = l

\* "every subsequent enrollment requires step-up" (require-step-up.ts): what a
\* begin that read its count before another enrolment does not keep.
EverySubsequentSteppedUp ==
    \A k \in Keys :
        enrolments[k] # NoValue => enrolments[k].first \/ enrolments[k].stepped
=============================================================================
