---------------------------- MODULE StepUpProofs ----------------------------
(* Theorems about StepUp, for any users, roles, passkeys, challenges, proofs *)
(* and requests, and any setting of the times.                               *)
EXTENDS StepUp, FiniteSetTheorems, TLAPS

\* The challenge was issued to step up for this user and this action.
StepUpFor(c, u, a) ==
    /\ issued[c] # NoValue
    /\ issued[c].type = "step_up"
    /\ issued[c].user = u
    /\ issued[c].action = a

\* What a request has established stays true while it goes on.
Fits(q) ==
    /\ q.op \in Actions => q.action = q.op
    /\ q.op \in {"admin_delete", "admin_reset"} => q.session[1] \in Admins
    /\ q.op = "admin_delete" => q.key \in Keys
    /\ q.pc = "delete" =>
         /\ q.key \in Keys
         /\ q.op \in {"own_delete", "admin_delete"}
         /\ q.op = "own_delete" => keys[q.key] \in {Deleted, q.session[1]}
         /\ q.op = "admin_delete" => keys[q.key] \in {Deleted, q.target}
    /\ q.pc = "enrol" =>
         /\ q.challenge \in Challenges
         /\ issued[q.challenge] # NoValue
         /\ issued[q.challenge].type = "registration"
         /\ issued[q.challenge].user = q.session[1]
    /\ q.pc \in {"verify", "mark", "mint"} =>
         /\ q.challenge \in Challenges /\ q.action \in Actions /\ q.key \in Keys
         /\ issued[q.challenge] # NoValue
         /\ issued[q.challenge].action = q.action
    /\ q.pc \in {"mark", "mint"} => StepUpFor(q.challenge, q.session[1], q.action)

RequestOK(r) == InFlight(r) => Fits(req[r])

\* A challenge row is the one that was issued.
ChallengeOK(c) ==
    challenges[c] # NoValue =>
        /\ issued[c] # NoValue
        /\ issued[c].user = challenges[c].user
        /\ issued[c].type = challenges[c].type
        /\ issued[c].action = challenges[c].action

\* The assertion of a challenge is one thing at a time: a request about to mint
\* a proof, a proof nobody has used, or a gate that was passed.
Minting(c) == {r \in Requests : InFlight(r) /\ req[r].pc = "mint" /\ req[r].challenge = c}
Usable(c) == {p \in Proofs : proofs[p] # NoValue /\ ~proofs[p].consumed /\ proofs[p].challenge = c}
PassesOf(c) == {d \in passes : d.challenge = c}
Once(S) == \A x, y \in S : x = y

\* No assertion of the challenge can be accepted any more.
Closed(c) == issued[c] # NoValue /\ (challenges[c] = NoValue \/ challenges[c].used)

ChainOK(c) ==
    /\ Once(Minting(c)) /\ Once(Usable(c)) /\ Once(PassesOf(c))
    /\ Minting(c) = {} \/ Usable(c) = {}
    /\ Minting(c) = {} \/ PassesOf(c) = {}
    /\ Usable(c) = {} \/ PassesOf(c) = {}
    /\ Closed(c) \/ (Minting(c) = {} /\ Usable(c) = {} /\ PassesOf(c) = {})

\* A registration that can still be finished is of the user's present round.
PendingOK(c) ==
    challenges[c] # NoValue /\ challenges[c].type = "registration" /\ ~challenges[c].used =>
        challenges[c].exp <= now \/ issued[c].round = Round(challenges[c].user)

ProofOK(p) ==
    proofs[p] # NoValue => StepUpFor(proofs[p].challenge, proofs[p].session[1], proofs[p].action)

PassOK(d) == StepUpFor(d.challenge, d.session[1], d.action)

EnrolOK(k) ==
    enrolments[k] # NoValue =>
        keys[k] # NoValue /\ enrolments[k].round < Round(enrolments[k].user)

Inv ==
    /\ TypeOK
    /\ IsFiniteSet(passes)
    /\ \A r \in Requests : RequestOK(r)
    /\ \A c \in Challenges : ChallengeOK(c) /\ ChainOK(c) /\ PendingOK(c)
    /\ \A p \in Proofs : ProofOK(p)
    /\ \A d \in passes : PassOK(d)
    /\ \A k \in Keys : EnrolOK(k)
    /\ OneEnrolmentPerRound

LEMMA RoundType == ASSUME NEW u PROVE Round(u) \in Nat
  <1>1. {k \in Keys : enrolments[k] # NoValue /\ enrolments[k].user = u} \in SUBSET Keys
    OBVIOUS
  <1> QED BY <1>1, StepUpAssumption, FS_Subset, FS_CardinalityType DEF Round

LEMMA InitInv == Init => Inv
  <1> SUFFICES ASSUME Init PROVE Inv
    OBVIOUS
  <1>1. 0 \in Times
    BY StepUpAssumption DEF Times
  <1>2. TypeOK
    BY <1>1 DEF Init, TypeOK
  <1>3. IsFiniteSet(passes)
    BY FS_EmptySet DEF Init
  <1>4. \A r \in Requests : RequestOK(r)
    BY DEF Init, RequestOK, InFlight
  <1>5. \A c \in Challenges : Minting(c) = {} /\ Usable(c) = {} /\ PassesOf(c) = {}
    BY DEF Init, Minting, Usable, PassesOf, InFlight
  <1>6. \A c \in Challenges : ChallengeOK(c) /\ ChainOK(c) /\ PendingOK(c)
    BY <1>5 DEF Init, ChallengeOK, ChainOK, PendingOK, Once
  <1>7. (\A p \in Proofs : ProofOK(p)) /\ (\A d \in passes : PassOK(d))
    BY DEF Init, ProofOK
  <1>8. (\A k \in Keys : EnrolOK(k)) /\ OneEnrolmentPerRound
    BY DEF Init, EnrolOK, OneEnrolmentPerRound
  <1> QED BY <1>2, <1>3, <1>4, <1>6, <1>7, <1>8 DEF Inv

\* Issues stay; passkeys are enrolled once and deleted for good.
Grows ==
    /\ \A c \in Challenges : issued[c] # NoValue => issued'[c] = issued[c]
    /\ \A k \in Keys : keys[k] # NoValue => keys'[k] \in {keys[k], Deleted}

LEMMA Flying ==
  ASSUME Inv, NEW r \in Requests, InFlight(r)
  PROVE  req[r] \in Requested /\ Fits(req[r])
  BY DEF Inv, TypeOK, InFlight, RequestOK

LEMMA FitsStays ==
  ASSUME NEW q \in Requested, Fits(q), Grows
  PROVE  Fits(q)'
  <1>1. q.session[1] \in Users /\ q.target \in Users
    BY DEF Requested, Sessions
  <1>2. NoValue \notin Users \cup {Deleted}
    BY StepUpAssumption
  <1>3. q.pc = "delete" =>
           /\ q.op = "own_delete" => keys'[q.key] \in {Deleted, q.session[1]}
           /\ q.op = "admin_delete" => keys'[q.key] \in {Deleted, q.target}
    BY <1>1, <1>2 DEF Fits, Grows
  <1>4. q.pc \in {"enrol", "verify", "mark", "mint"} => issued'[q.challenge] = issued[q.challenge]
    BY DEF Fits, Grows
  <1> QED BY <1>3, <1>4 DEF Fits, StepUpFor

LEMMA RequestStays ==
  ASSUME Inv, NEW r \in Requests, req'[r] = req[r], Grows
  PROVE  RequestOK(r)'
  <1> SUFFICES ASSUME InFlight(r) PROVE RequestOK(r)'
    BY DEF RequestOK, InFlight
  <1>1. PICK q \in Requested : q = req[r] /\ Fits(q)
    BY Flying
  <1>2. Fits(q)'
    BY <1>1, FitsStays
  <1>3. q = req'[r]
    BY <1>1
  <1> QED BY <1>2, <1>3 DEF RequestOK, Fits, StepUpFor

\* A chain that gains nothing stays right.
LEMMA ChainStays ==
  ASSUME NEW c, ChainOK(c), Minting(c)' \subseteq Minting(c), Usable(c)' \subseteq Usable(c),
         PassesOf(c)' \subseteq PassesOf(c), Closed(c) => Closed(c)'
  PROVE  ChainOK(c)'
  BY DEF ChainOK, Once

\* One request becomes new, or leaves, and the tables stay as they are.
Move(r, new) ==
    /\ new \in Requested \cup {Waiting}
    /\ new # Waiting => Fits(new) /\ new.pc # "mint"
    /\ req' = [req EXCEPT ![r] = new]
    /\ UNCHANGED <<now, keys, challenges, proofs, issued, enrolments, passes>>

LEMMA MoveStep ==
  ASSUME Inv, NEW r \in Requests, NEW new, Move(r, new)
  PROVE  Inv'
  <1>1. /\ req' \in [Requests -> Requested \cup {Waiting}] /\ req'[r] = new
        /\ \A q \in Requests \ {r} : req'[q] = req[q]
        /\ UNCHANGED <<now, keys, challenges, proofs, issued, enrolments, passes>>
    BY DEF Move, Inv, TypeOK
  <1>2. TypeOK'
    BY <1>1 DEF Inv, TypeOK
  <1>3. Grows
    BY <1>1 DEF Grows
  <1>4. ASSUME NEW q \in Requests PROVE RequestOK(q)'
    <2>1. CASE q # r
      BY <1>1, <1>3, <2>1, RequestStays
    <2>2. CASE q = r /\ new # Waiting
      <3>1. Fits(new)'
        BY <1>3, <2>2, FitsStays DEF Move
      <3> QED BY <1>1, <2>2, <3>1 DEF RequestOK, Fits, StepUpFor
    <2>3. CASE q = r /\ new = Waiting
      BY <1>1, <2>3 DEF RequestOK, InFlight
    <2> QED BY <2>1, <2>2, <2>3
  <1>5. ASSUME NEW c \in Challenges PROVE ChallengeOK(c)' /\ ChainOK(c)' /\ PendingOK(c)'
    <2>1. Minting(c)' \subseteq Minting(c)
      BY <1>1 DEF Minting, InFlight, Move
    <2>2. Usable(c)' = Usable(c) /\ PassesOf(c)' = PassesOf(c) /\ (Closed(c)' <=> Closed(c))
      BY <1>1 DEF Usable, PassesOf, Closed
    <2>3. ChainOK(c)'
      BY <2>1, <2>2, ChainStays DEF Inv
    <2> QED BY <1>1, <2>3 DEF Inv, ChallengeOK, PendingOK, Round
  <1>6. (\A p \in Proofs : ProofOK(p)') /\ (\A d \in passes' : PassOK(d)')
    BY <1>1 DEF Inv, ProofOK, PassOK, StepUpFor
  <1>7. (\A k \in Keys : EnrolOK(k)') /\ OneEnrolmentPerRound'
    BY <1>1 DEF Inv, EnrolOK, OneEnrolmentPerRound, Round
  <1>8. IsFiniteSet(passes')
    BY <1>1 DEF Inv
  <1> QED BY <1>2, <1>4, <1>5, <1>6, <1>7, <1>8 DEF Inv

LEMMA FinishMove ==
  ASSUME Inv, NEW r \in Requests, Finish(r),
         UNCHANGED <<now, keys, challenges, proofs, issued, enrolments, passes>>
  PROVE  Inv'
  <1>1. Move(r, Waiting)
    BY DEF Move, Finish
  <1> QED BY <1>1, MoveStep

\* The empty request of a session.
LEMMA NewRecord ==
  ASSUME NEW s \in Sessions, NEW pc \in {"gate", "work", "delete", "enrol", "verify"}, NEW op \in Ops
  PROVE  /\ NewRequest(pc, op, s) \in Requested
         /\ NewRequest(pc, op, s).pc = pc /\ NewRequest(pc, op, s).op = op
         /\ NewRequest(pc, op, s).session = s
  BY DEF NewRequest, Requested, Sessions

LEMMA RegisterStep ==
  ASSUME Inv, NEW r \in Requests, NEW s \in Sessions, NEW p \in Proofs \cup {NoValue},
         RegisterBegin(r, s, p)
  PROVE  Inv'
  <1>1. PICK pc \in {"gate", "work"} :
           req' = [req EXCEPT ![r] = [NewRequest(pc, "register", s) EXCEPT !.action = "register", !.proof = p]]
    BY DEF RegisterBegin, Start
  <1> DEFINE new == [NewRequest(pc, "register", s) EXCEPT !.action = "register", !.proof = p]
  <1>2. /\ new \in Requested /\ new.pc = pc /\ new.op = "register" /\ new.action = "register"
    BY DEF NewRequest, Requested, Sessions, Ops, Actions
  <1> HIDE DEF new
  <1>3. Fits(new)
    BY <1>2 DEF Fits
  <1>4. Move(r, new)
    BY <1>1, <1>2, <1>3 DEF Move, RegisterBegin, new
  <1> QED BY <1>4, MoveStep

LEMMA AdminStep ==
  ASSUME Inv, NEW r \in Requests, NEW s \in Sessions, NEW p \in Proofs \cup {NoValue}, NEW u \in Users,
         NEW op \in {"admin_delete", "admin_reset"}, NEW k \in Keys \cup {NoValue},
         op = "admin_delete" => k \in Keys, AdminRequest(r, s, op, u, k, p)
  PROVE  Inv'
  <1>1. PICK pc \in {"gate", "work"} :
           req' = [req EXCEPT ![r] = [NewRequest(pc, op, s)
                      EXCEPT !.action = op, !.proof = p, !.key = k, !.target = u]]
    BY DEF AdminRequest, Start
  <1> DEFINE new == [NewRequest(pc, op, s) EXCEPT !.action = op, !.proof = p, !.key = k, !.target = u]
  <1>2. /\ new \in Requested /\ new.pc = pc /\ new.op = op /\ new.action = op
        /\ new.session = s /\ new.key = k
    BY DEF NewRequest, Requested, Sessions, Ops, Actions
  <1> HIDE DEF new
  <1>3. Fits(new)
    BY <1>2 DEF Fits, AdminRequest
  <1>4. Move(r, new)
    BY <1>1, <1>2, <1>3 DEF Move, AdminRequest, new
  <1> QED BY <1>4, MoveStep

LEMMA FinishRegistrationStep ==
  ASSUME Inv, NEW r \in Requests, NEW s \in Sessions, NEW c \in Challenges, FinishRegistration(r, s, c)
  PROVE  Inv'
  <1> DEFINE new == [NewRequest("enrol", "enrol", s) EXCEPT !.challenge = c]
  <1>1. /\ new \in Requested /\ new.pc = "enrol" /\ new.op = "enrol"
        /\ new.session = s /\ new.challenge = c
    BY DEF NewRequest, Requested, Sessions, Ops
  <1>2. req' = [req EXCEPT ![r] = new]
    BY DEF FinishRegistration, Start
  <1>3. issued[c] # NoValue /\ issued[c].type = "registration" /\ issued[c].user = s[1]
    BY DEF FinishRegistration, ValidChallenge, Inv, ChallengeOK
  <1> HIDE DEF new
  <1>4. Fits(new)
    BY <1>1, <1>3 DEF Fits, Actions
  <1>5. Move(r, new)
    BY <1>1, <1>2, <1>4 DEF Move, FinishRegistration
  <1> QED BY <1>5, MoveStep

LEMMA StepUpBeginStep ==
  ASSUME Inv, NEW r \in Requests, NEW s \in Sessions, NEW a \in Actions, StepUpBegin(r, s, a)
  PROVE  Inv'
  <1> DEFINE new == [NewRequest("work", "step_up_begin", s) EXCEPT !.action = a]
  <1>1. new \in Requested /\ new.pc = "work" /\ new.op = "step_up_begin"
    BY DEF NewRequest, Requested, Sessions, Ops
  <1>2. req' = [req EXCEPT ![r] = new]
    BY DEF StepUpBegin, Start
  <1> HIDE DEF new
  <1>3. Fits(new)
    BY <1>1 DEF Fits, Actions
  <1>4. Move(r, new)
    BY <1>1, <1>2, <1>3 DEF Move, StepUpBegin
  <1> QED BY <1>4, MoveStep

LEMMA StepUpFinishStep ==
  ASSUME Inv, NEW r \in Requests, NEW s \in Sessions, NEW a \in Actions, NEW c \in Challenges,
         NEW k \in Keys, StepUpFinish(r, s, a, c, k)
  PROVE  Inv'
  <1> DEFINE new == [NewRequest("verify", "step_up_finish", s) EXCEPT !.action = a, !.challenge = c, !.key = k]
  <1>1. /\ new \in Requested /\ new.pc = "verify" /\ new.op = "step_up_finish"
        /\ new.action = a /\ new.challenge = c /\ new.key = k
    BY DEF NewRequest, Requested, Sessions, Ops
  <1>2. req' = [req EXCEPT ![r] = new]
    BY DEF StepUpFinish, Start
  <1>3. issued[c] # NoValue /\ issued[c].action = a
    BY DEF StepUpFinish, IssuedFor, Inv, ChallengeOK
  <1> HIDE DEF new
  <1>4. Fits(new)
    BY <1>1, <1>3 DEF Fits, Actions
  <1>5. Move(r, new)
    BY <1>1, <1>2, <1>4 DEF Move, StepUpFinish
  <1> QED BY <1>5, MoveStep

LEMMA OwnDeleteStep ==
  ASSUME Inv, NEW r \in Requests, NEW s \in Sessions, NEW k \in Keys, OwnDelete(r, s, k)
  PROVE  Inv'
  <1> DEFINE new == [NewRequest("delete", "own_delete", s) EXCEPT !.key = k]
  <1>1. /\ new \in Requested /\ new.pc = "delete" /\ new.op = "own_delete"
        /\ new.key = k /\ new.session = s
    BY DEF NewRequest, Requested, Sessions, Ops
  <1>2. req' = [req EXCEPT ![r] = new]
    BY DEF OwnDelete, Start
  <1> HIDE DEF new
  <1>3. Fits(new)
    BY <1>1 DEF Fits, Actions, OwnDelete
  <1>4. Move(r, new)
    BY <1>1, <1>2, <1>3 DEF Move, OwnDelete
  <1> QED BY <1>4, MoveStep

LEMMA ArrivalStep ==
  ASSUME Inv, NEW r \in Requests, NEW s \in Sessions, Arrival(r, s)
  PROVE  Inv'
  <1>1. ASSUME NEW p \in Proofs \cup {NoValue}, RegisterBegin(r, s, p) PROVE Inv'
    BY <1>1, RegisterStep
  <1>2. ASSUME NEW p \in Proofs \cup {NoValue}, NEW u \in Users, NEW k \in Keys,
               AdminRequest(r, s, "admin_delete", u, k, p)
        PROVE  Inv'
    BY <1>2, AdminStep
  <1>3. ASSUME NEW p \in Proofs \cup {NoValue}, NEW u \in Users,
               AdminRequest(r, s, "admin_reset", u, NoValue, p)
        PROVE  Inv'
    BY <1>3, AdminStep
  <1>4. ASSUME NEW c \in Challenges, FinishRegistration(r, s, c) PROVE Inv'
    BY <1>4, FinishRegistrationStep
  <1>5. ASSUME NEW a \in Actions, StepUpBegin(r, s, a) PROVE Inv'
    BY <1>5, StepUpBeginStep
  <1>6. ASSUME NEW a \in Actions, NEW c \in Challenges, NEW k \in Keys, StepUpFinish(r, s, a, c, k)
        PROVE  Inv'
    BY <1>6, StepUpFinishStep
  <1>7. ASSUME NEW k \in Keys, OwnDelete(r, s, k) PROVE Inv'
    BY <1>7, OwnDeleteStep
  <1> QED BY <1>1, <1>2, <1>3, <1>4, <1>5, <1>6, <1>7 DEF Arrival

\* The same record further on.
LEMMA Further ==
  ASSUME NEW q \in Requested, NEW pc \in {"work", "delete", "mark", "mint"}
  PROVE  LET f == [q EXCEPT !.pc = pc]
         IN  /\ f \in Requested /\ f.pc = pc /\ f.op = q.op /\ f.session = q.session
             /\ f.action = q.action /\ f.proof = q.proof /\ f.challenge = q.challenge
             /\ f.key = q.key /\ f.target = q.target
  BY DEF Requested

LEMMA VerifyStep ==
  ASSUME Inv, NEW r \in Requests, VerifyAssertion(r)
  PROVE  Inv'
  <1> DEFINE new == [req[r] EXCEPT !.pc = "mark"]
  <1>1. /\ InFlight(r) /\ req[r].pc = "verify" /\ req[r].op = "step_up_finish"
        /\ UNCHANGED <<now, keys, challenges, proofs, issued, enrolments, passes>>
    BY DEF VerifyAssertion, At
  <1>2. req[r] \in Requested /\ Fits(req[r])
    BY <1>1, Flying
  <1>3. CASE ValidChallenge(req[r].challenge, Caller(r), "step_up")
    <2>1. StepUpFor(req[r].challenge, req[r].session[1], req[r].action)
      BY <1>1, <1>2, <1>3 DEF Fits, ValidChallenge, Caller, StepUpFor, Inv, ChallengeOK
    <2>2. /\ new \in Requested /\ new.pc = "mark" /\ new.op = req[r].op
          /\ new.session = req[r].session /\ new.action = req[r].action
          /\ new.challenge = req[r].challenge /\ new.key = req[r].key
      BY <1>2, Further
    <2>3. req' = [req EXCEPT ![r] = new]
      BY <1>3 DEF VerifyAssertion, Goto
    <2> HIDE DEF new
    <2>4. Fits(new)
      BY <1>1, <1>2, <2>1, <2>2 DEF Fits, Actions
    <2>5. Move(r, new)
      BY <1>1, <2>2, <2>3, <2>4 DEF Move
    <2> QED BY <2>5, MoveStep
  <1>4. CASE ~ValidChallenge(req[r].challenge, Caller(r), "step_up")
    BY <1>1, <1>4, FinishMove DEF VerifyAssertion
  <1> QED BY <1>3, <1>4

LEMMA AdminReadStep ==
  ASSUME Inv, NEW r \in Requests, AdminReadKey(r)
  PROVE  Inv'
  <1> DEFINE new == [req[r] EXCEPT !.pc = "delete"]
  <1>1. /\ InFlight(r) /\ req[r].pc = "work" /\ req[r].op = "admin_delete"
        /\ UNCHANGED <<now, keys, challenges, proofs, issued, enrolments, passes>>
    BY DEF AdminReadKey, At
  <1>2. req[r] \in Requested /\ Fits(req[r])
    BY <1>1, Flying
  <1>3. CASE keys[req[r].key] = req[r].target
    <2>1. /\ new \in Requested /\ new.pc = "delete" /\ new.op = req[r].op
          /\ new.session = req[r].session /\ new.action = req[r].action
          /\ new.key = req[r].key /\ new.target = req[r].target
      BY <1>2, Further
    <2>2. req' = [req EXCEPT ![r] = new]
      BY <1>3 DEF AdminReadKey, Goto
    <2> HIDE DEF new
    <2>3. Fits(new)
      BY <1>1, <1>2, <1>3, <2>1 DEF Fits, Actions
    <2>4. Move(r, new)
      BY <1>1, <2>1, <2>2, <2>3 DEF Move
    <2> QED BY <2>4, MoveStep
  <1>4. CASE keys[req[r].key] # req[r].target
    BY <1>1, <1>4, FinishMove DEF AdminReadKey
  <1> QED BY <1>3, <1>4

\* A request that leaves takes nothing with it.
LEMMA Leaves ==
  ASSUME Inv, NEW r \in Requests, Finish(r), Grows
  PROVE  /\ req' \in [Requests -> Requested \cup {Waiting}]
         /\ \A q \in Requests : RequestOK(q)'
         /\ \A c \in Challenges : Minting(c)' \subseteq Minting(c)
  <1>1. /\ req' \in [Requests -> Requested \cup {Waiting}] /\ req'[r] = Waiting
        /\ \A q \in Requests \ {r} : req'[q] = req[q]
    BY DEF Finish, Inv, TypeOK
  <1>2. ASSUME NEW q \in Requests PROVE RequestOK(q)'
    <2>1. CASE q = r
      BY <1>1, <2>1 DEF RequestOK, InFlight
    <2>2. CASE q # r
      BY <1>1, <2>2, RequestStays
    <2> QED BY <2>1, <2>2
  <1>3. \A c \in Challenges : Minting(c)' \subseteq Minting(c)
    BY <1>1 DEF Minting, InFlight
  <1> QED BY <1>1, <1>2, <1>3

\* A deletion: passkeys become Deleted, the request ends.
Frees(r) ==
    /\ Finish(r)
    /\ keys' \in [Keys -> Users \cup {NoValue, Deleted}]
    /\ \A k \in Keys : keys'[k] \in {keys[k], Deleted}
    /\ UNCHANGED <<now, challenges, proofs, issued, enrolments, passes>>

LEMMA FreesStep ==
  ASSUME Inv, NEW r \in Requests, Frees(r)
  PROVE  Inv'
  <1>1. Grows
    BY DEF Frees, Grows
  <1>2. Finish(r) /\ UNCHANGED <<now, challenges, proofs, issued, enrolments, passes>>
    BY DEF Frees
  <1>3. /\ req' \in [Requests -> Requested \cup {Waiting}]
        /\ \A q \in Requests : RequestOK(q)'
        /\ \A c \in Challenges : Minting(c)' \subseteq Minting(c)
    BY <1>1, <1>2, Leaves
  <1>4. TypeOK'
    BY <1>2, <1>3 DEF Frees, Inv, TypeOK
  <1>5. ASSUME NEW c \in Challenges PROVE ChallengeOK(c)' /\ ChainOK(c)' /\ PendingOK(c)'
    <2>1. Usable(c)' = Usable(c) /\ PassesOf(c)' = PassesOf(c) /\ (Closed(c)' <=> Closed(c))
      BY <1>2 DEF Usable, PassesOf, Closed
    <2>2. ChainOK(c)'
      BY <1>3, <2>1, ChainStays DEF Inv
    <2> QED BY <1>2, <2>2 DEF Inv, ChallengeOK, PendingOK, Round
  <1>6. (\A p \in Proofs : ProofOK(p)') /\ (\A d \in passes' : PassOK(d)')
    BY <1>2 DEF Inv, ProofOK, PassOK, StepUpFor
  <1>7. \A k \in Keys : EnrolOK(k)'
    BY <1>2, StepUpAssumption DEF Frees, Inv, EnrolOK, Round
  <1>8. OneEnrolmentPerRound' /\ IsFiniteSet(passes')
    BY <1>2 DEF Inv, OneEnrolmentPerRound
  <1> QED BY <1>3, <1>4, <1>5, <1>6, <1>7, <1>8 DEF Inv

LEMMA DeleteKeyStep ==
  ASSUME Inv, NEW r \in Requests, DeleteKey(r)
  PROVE  Inv'
  <1>1. Frees(r)
    BY DEF DeleteKey, Frees, Inv, TypeOK
  <1> QED BY <1>1, FreesStep

LEMMA ResetKeysStep ==
  ASSUME Inv, NEW r \in Requests, ResetKeys(r)
  PROVE  Inv'
  <1>1. Frees(r)
    BY DEF ResetKeys, Frees, Inv, TypeOK
  <1> QED BY <1>1, FreesStep

\* A challenge is drawn, and the request that asked for it answered.
Draws(r, u, type, action) ==
    /\ u \in Users /\ type \in {"registration", "step_up"} /\ action \in Actions \cup {NoValue}
    /\ InFlight(r)
    /\ Draw(r, u, type, action)
    /\ Finish(r)
    /\ UNCHANGED <<now, keys, proofs, enrolments, passes>>

LEMMA DrawsStep ==
  ASSUME Inv, NEW r \in Requests, NEW u, NEW type, NEW action, Draws(r, u, type, action)
  PROVE  Inv'
  <1>1. /\ u \in Users /\ type \in {"registration", "step_up"} /\ action \in Actions \cup {NoValue}
        /\ InFlight(r) /\ Finish(r) /\ UNCHANGED <<now, keys, proofs, enrolments, passes>>
    BY DEF Draws
  <1>2. PICK c \in Challenges :
          /\ issued[c] = NoValue
          /\ challenges' = [challenges EXCEPT ![c] =
                [user |-> u, type |-> type, action |-> action,
                 exp |-> now + ChallengeTtl, used |-> FALSE]]
          /\ issued' = [issued EXCEPT ![c] =
                [user |-> u, type |-> type, action |-> action,
                 round |-> Round(u), stepped |-> req[r].stepped]]
    BY DEF Draws, Draw
  <1> DEFINE row == [user |-> u, type |-> type, action |-> action,
                     exp |-> now + ChallengeTtl, used |-> FALSE]
             issue == [user |-> u, type |-> type, action |-> action,
                       round |-> Round(u), stepped |-> req[r].stepped]
  <1>3. now + ChallengeTtl \in Nat
    BY StepUpAssumption DEF Inv, TypeOK, Times
  <1>4. row \in ChallengeRows /\ row.user = u /\ row.type = type /\ row.action = action
    BY <1>1, <1>3 DEF ChallengeRows
  <1>5. req[r].stepped \in BOOLEAN
    BY <1>1, Flying DEF Requested
  <1>6. /\ issue \in Issues /\ issue.user = u /\ issue.type = type
        /\ issue.action = action /\ issue.round = Round(u)
    BY <1>1, <1>5, RoundType DEF Issues
  <1> HIDE DEF row, issue
  <1>7. /\ challenges' \in [Challenges -> ChallengeRows \cup {NoValue}] /\ challenges'[c] = row
        /\ issued' \in [Challenges -> Issues \cup {NoValue}] /\ issued'[c] = issue
        /\ \A d \in Challenges \ {c} : challenges'[d] = challenges[d] /\ issued'[d] = issued[d]
    BY <1>2, <1>4, <1>6 DEF row, issue, Inv, TypeOK
  <1>8. row # NoValue /\ issue # NoValue
    BY <1>4, <1>6, NullAssumption
  <1>9. Grows
    BY <1>1, <1>2, <1>7 DEF Grows
  <1>10. /\ req' \in [Requests -> Requested \cup {Waiting}]
         /\ \A q \in Requests : RequestOK(q)'
         /\ \A d \in Challenges : Minting(d)' \subseteq Minting(d)
    BY <1>1, <1>9, Leaves
  <1>11. TypeOK'
    BY <1>1, <1>7, <1>10 DEF Inv, TypeOK
  <1>12. \A v : Round(v)' = Round(v)
    BY <1>1 DEF Round
  <1>13. ASSUME NEW d \in Challenges PROVE ChallengeOK(d)' /\ ChainOK(d)' /\ PendingOK(d)'
    <2>1. Usable(d)' = Usable(d) /\ PassesOf(d)' = PassesOf(d)
      BY <1>1 DEF Usable, PassesOf
    <2>2. Closed(d) => Closed(d)'
      BY <1>2, <1>7 DEF Closed
    <2>3. ChainOK(d)'
      BY <1>10, <2>1, <2>2, ChainStays DEF Inv
    <2>4. ChallengeOK(d)'
      BY <1>4, <1>6, <1>7, <1>8 DEF Inv, ChallengeOK
    <2>5. PendingOK(d)'
      <3>1. CASE d = c
        BY <1>4, <1>6, <1>7, <1>12, <3>1 DEF PendingOK
      <3>2. CASE d # c
        BY <1>1, <1>7, <1>12, <3>2 DEF Inv, PendingOK
      <3> QED BY <3>1, <3>2
    <2> QED BY <2>3, <2>4, <2>5
  <1>14. \A d \in Challenges : issued[d] # NoValue => issued'[d] = issued[d]
    BY <1>9 DEF Grows
  <1>15. ASSUME NEW p \in Proofs PROVE ProofOK(p)'
    <2>1. proofs[p] # NoValue => proofs[p].challenge \in Challenges
      BY DEF Inv, TypeOK, ProofRows
    <2> QED BY <1>1, <1>14, <2>1 DEF Inv, ProofOK, StepUpFor
  <1>16. ASSUME NEW d \in passes' PROVE PassOK(d)'
    <2>1. d \in passes /\ d.challenge \in Challenges
      BY <1>1 DEF Inv, TypeOK, Passes
    <2> QED BY <1>14, <2>1 DEF Inv, PassOK, StepUpFor
  <1>17. \A k \in Keys : EnrolOK(k)'
    BY <1>1, <1>12 DEF Inv, EnrolOK
  <1>18. OneEnrolmentPerRound' /\ IsFiniteSet(passes')
    BY <1>1 DEF Inv, OneEnrolmentPerRound
  <1> QED BY <1>10, <1>11, <1>13, <1>15, <1>16, <1>17, <1>18 DEF Inv

LEMMA BeginRegistrationStep ==
  ASSUME Inv, NEW r \in Requests, BeginRegistration(r)
  PROVE  Inv'
  <1>1. InFlight(r)
    BY DEF BeginRegistration, At
  <1>2. Caller(r) \in Users
    BY <1>1, Flying DEF Requested, Sessions, Caller
  <1>3. Draws(r, Caller(r), "registration", NoValue)
    BY <1>1, <1>2 DEF BeginRegistration, Draws
  <1> QED BY <1>3, DrawsStep

LEMMA StepUpChallengeStep ==
  ASSUME Inv, NEW r \in Requests, StepUpChallenge(r)
  PROVE  Inv'
  <1>1. InFlight(r)
    BY DEF StepUpChallenge, At
  <1>2. Caller(r) \in Users /\ req[r].action \in Actions \cup {NoValue}
    BY <1>1, Flying DEF Requested, Sessions, Caller
  <1>3. Draws(r, Caller(r), "step_up", req[r].action)
    BY <1>1, <1>2 DEF StepUpChallenge, Draws
  <1> QED BY <1>3, DrawsStep

\* A passkey is enrolled: the user's registrations of this round end with it.
Enrols(r, k, u, c) ==
    /\ keys[k] = NoValue
    /\ Pending(c)
    /\ challenges[c].user = u /\ challenges[c].type = "registration"
    /\ MarkUsed(Superseded(c))
    /\ keys' = [keys EXCEPT ![k] = u]
    /\ enrolments' = [enrolments EXCEPT ![k] =
          [user |-> u, round |-> issued[c].round,
           first |-> ~HasPasskey(u), stepped |-> issued[c].stepped]]
    /\ Finish(r)
    /\ UNCHANGED <<now, proofs, issued, passes>>

LEMMA MarkedRows ==
  ASSUME Inv, NEW S, MarkUsed(S), \A d \in S : d \in Challenges /\ challenges[d] # NoValue
  PROVE  /\ challenges' \in [Challenges -> ChallengeRows \cup {NoValue}]
         /\ \A d \in Challenges \ S : challenges'[d] = challenges[d]
         /\ \A d \in S : /\ challenges'[d] # NoValue /\ challenges'[d].used
                         /\ challenges'[d].user = challenges[d].user
                         /\ challenges'[d].type = challenges[d].type
                         /\ challenges'[d].action = challenges[d].action
  <1>1. ASSUME NEW row \in ChallengeRows
        PROVE  LET m == [row EXCEPT !.used = TRUE]
               IN  /\ m \in ChallengeRows /\ m # NoValue /\ m.used
                   /\ m.user = row.user /\ m.type = row.type /\ m.action = row.action
    <2>1. [row EXCEPT !.used = TRUE] \in ChallengeRows
      BY DEF ChallengeRows
    <2> QED BY <2>1, NullAssumption DEF ChallengeRows
  <1>2. \A d \in Challenges : challenges'[d] = IF d \in S THEN [challenges[d] EXCEPT !.used = TRUE]
                                                         ELSE challenges[d]
    BY DEF MarkUsed
  <1>3. \A d \in S : challenges[d] \in ChallengeRows
    BY DEF Inv, TypeOK
  <1>4. \A d \in S : LET m == challenges'[d]
                     IN  /\ m \in ChallengeRows /\ m # NoValue /\ m.used
                         /\ m.user = challenges[d].user /\ m.type = challenges[d].type
                         /\ m.action = challenges[d].action
    BY <1>1, <1>2, <1>3
  <1>5. challenges' \in [Challenges -> ChallengeRows \cup {NoValue}]
    <2>1. \A d \in Challenges : challenges'[d] \in ChallengeRows \cup {NoValue}
      BY <1>2, <1>4 DEF Inv, TypeOK
    <2> QED BY <2>1 DEF MarkUsed
  <1> QED BY <1>2, <1>4, <1>5

\* Marked rows are still the ones that were issued, and close their chains.
LEMMA MarkedOK ==
  ASSUME Inv, NEW S, MarkUsed(S), \A d \in S : d \in Challenges /\ challenges[d] # NoValue,
         UNCHANGED issued
  PROVE  \A d \in Challenges : ChallengeOK(d)' /\ (Closed(d) => Closed(d)') /\ (d \in S => Closed(d)')
  <1>1. \A d \in Challenges : d \notin S => challenges'[d] = challenges[d]
    BY MarkedRows
  <1>2. \A d \in S : /\ challenges'[d] # NoValue /\ challenges'[d].used
                     /\ challenges'[d].user = challenges[d].user
                     /\ challenges'[d].type = challenges[d].type
                     /\ challenges'[d].action = challenges[d].action
    BY MarkedRows
  <1>3. \A d \in Challenges : ChallengeOK(d)
    BY DEF Inv
  <1> QED BY <1>1, <1>2, <1>3 DEF ChallengeOK, Closed

LEMMA EnrolsStep ==
  ASSUME Inv, NEW r \in Requests, NEW k \in Keys, NEW u \in Users, NEW c \in Challenges,
         Enrols(r, k, u, c)
  PROVE  Inv'
  <1>1. /\ Finish(r) /\ MarkUsed(Superseded(c)) /\ Pending(c) /\ keys[k] = NoValue
        /\ challenges[c].user = u /\ challenges[c].type = "registration"
        /\ UNCHANGED <<now, proofs, issued, passes>>
    BY DEF Enrols
  <1>2. Superseded(c) \subseteq Challenges /\ \A d \in Superseded(c) : challenges[d] # NoValue
    BY <1>1 DEF Superseded, Pending
  <1>3. NoValue \notin Users \cup {Deleted}
    BY StepUpAssumption
  <1>4. /\ keys' \in [Keys -> Users \cup {NoValue, Deleted}] /\ keys'[k] = u
        /\ \A l \in Keys \ {k} : keys'[l] = keys[l]
    BY DEF Enrols, Inv, TypeOK
  <1>5. Grows
    BY <1>1, <1>4 DEF Grows
  <1>6. /\ req' \in [Requests -> Requested \cup {Waiting}]
        /\ \A q \in Requests : RequestOK(q)'
        /\ \A d \in Challenges : Minting(d)' \subseteq Minting(d)
    BY <1>1, <1>5, Leaves
  <1>7. /\ challenges' \in [Challenges -> ChallengeRows \cup {NoValue}]
        /\ \A d \in Challenges \ Superseded(c) : challenges'[d] = challenges[d]
        /\ \A d \in Superseded(c) : challenges'[d].used
    BY <1>1, <1>2, MarkedRows
  <1>8. \A d \in Challenges : ChallengeOK(d)' /\ (Closed(d) => Closed(d)')
    BY <1>1, <1>2, MarkedOK
  <1>9. issued[c] \in Issues /\ issued[c].round = Round(u)
    BY <1>1, RoundType DEF Inv, TypeOK, ChallengeOK, PendingOK, Pending, ChallengeRows, Times
  <1> DEFINE e == [user |-> u, round |-> issued[c].round,
                   first |-> ~HasPasskey(u), stepped |-> issued[c].stepped]
  <1>10. e \in Enrolments /\ e.user = u /\ e.round = Round(u)
    BY <1>9 DEF Enrolments, Issues
  <1> HIDE DEF e
  <1>11. /\ enrolments' \in [Keys -> Enrolments \cup {NoValue}] /\ enrolments'[k] = e
         /\ \A l \in Keys \ {k} : enrolments'[l] = enrolments[l]
    BY <1>10 DEF Enrols, e, Inv, TypeOK
  <1>12. e # NoValue /\ enrolments[k] = NoValue
    BY <1>1, <1>10, NullAssumption DEF Inv, EnrolOK
  <1>13. ASSUME NEW v
         PROVE  Round(v)' = IF v = u THEN Round(v) + 1 ELSE Round(v)
    <2> DEFINE S == {l \in Keys : enrolments[l] # NoValue /\ enrolments[l].user = v}
               T == {l \in Keys : enrolments'[l] # NoValue /\ enrolments'[l].user = v}
    <2>1. S \subseteq Keys /\ k \notin S
      BY <1>12
    <2>2. T = IF v = u THEN S \cup {k} ELSE S
      BY <1>10, <1>11, <1>12
    <2>3. Cardinality(S) = Round(v) /\ Cardinality(T) = Round(v)'
      BY DEF Round
    <2> HIDE DEF S, T
    <2>4. IsFiniteSet(S)
      BY <2>1, StepUpAssumption, FS_Subset
    <2>5. Cardinality(S \cup {k}) = Cardinality(S) + 1
      BY <2>1, <2>4, FS_AddElement
    <2> QED BY <2>2, <2>3, <2>5
  <1>14. TypeOK'
    BY <1>1, <1>4, <1>6, <1>7, <1>11 DEF Inv, TypeOK
  <1>15. ASSUME NEW d \in Challenges PROVE ChainOK(d)' /\ PendingOK(d)'
    <2>1. Usable(d)' = Usable(d) /\ PassesOf(d)' = PassesOf(d)
      BY <1>1 DEF Usable, PassesOf
    <2>2. ChainOK(d)'
      BY <1>6, <1>8, <2>1, ChainStays DEF Inv
    <2>3. CASE d \in Superseded(c)
      BY <1>7, <2>2, <2>3 DEF PendingOK
    <2>4. CASE d \notin Superseded(c)
      <3>1. challenges'[d] = challenges[d] /\ issued' = issued /\ now' = now
        BY <1>1, <1>7, <2>4
      <3>2. SUFFICES ASSUME challenges[d] # NoValue, challenges[d].type = "registration",
                            ~challenges[d].used, ~(challenges[d].exp <= now)
                     PROVE  issued[d].round = Round(challenges[d].user)'
        BY <2>2, <3>1 DEF PendingOK
      <3>3. challenges[d].exp > now
        BY <3>2 DEF Inv, TypeOK, ChallengeRows, Times
      <3>4. challenges[d].user # u
        BY <1>1, <2>4, <3>2, <3>3 DEF Superseded, Pending
      <3>5. Round(challenges[d].user)' = Round(challenges[d].user)
        BY <3>1, <3>4, <1>13
      <3> QED BY <3>2, <3>5 DEF Inv, PendingOK
    <2> QED BY <2>2, <2>3, <2>4
  <1>16. (\A p \in Proofs : ProofOK(p)') /\ (\A d \in passes' : PassOK(d)')
    BY <1>1 DEF Inv, ProofOK, PassOK, StepUpFor
  <1>17. \A v : Round(v) \in Nat
    BY RoundType
  <1>18. ASSUME NEW l \in Keys PROVE EnrolOK(l)'
    <2>1. CASE l = k
      BY <1>3, <1>4, <1>10, <1>11, <1>13, <1>17, <2>1 DEF EnrolOK
    <2>2. CASE l # k
      <3>1. PICK f : f = enrolments[l] /\ f = enrolments'[l]
        BY <1>11, <2>2
      <3>2. SUFFICES ASSUME f # NoValue PROVE keys'[l] # NoValue /\ f.round < Round(f.user)'
        BY <3>1 DEF EnrolOK
      <3>3. f.round \in Nat /\ f.round < Round(f.user)
        BY <3>1, <3>2 DEF Inv, TypeOK, Enrolments, EnrolOK
      <3>4. keys'[l] # NoValue
        BY <1>4, <2>2, <3>1, <3>2 DEF Inv, EnrolOK
      <3> QED BY <1>13, <1>17, <3>3, <3>4
    <2> QED BY <2>1, <2>2
  <1>19. ASSUME NEW l \in Keys, enrolments[l] # NoValue, enrolments[l].user = u
         PROVE  enrolments[l].round # Round(u)
    BY <1>17, <1>19 DEF Inv, TypeOK, EnrolOK, Enrolments
  <1>20. OneEnrolmentPerRound'
    BY <1>10, <1>11, <1>12, <1>19 DEF Inv, OneEnrolmentPerRound
  <1>21. IsFiniteSet(passes')
    BY <1>1 DEF Inv
  <1> QED BY <1>6, <1>8, <1>14, <1>15, <1>16, <1>18, <1>20, <1>21 DEF Inv

LEMMA EnrolStep ==
  ASSUME Inv, NEW r \in Requests, Enrol(r)
  PROVE  Inv'
  <1> DEFINE c == req[r].challenge
  <1>1. /\ InFlight(r) /\ req[r].pc = "enrol" /\ Finish(r)
        /\ UNCHANGED <<now, proofs, issued, passes>>
    BY DEF Enrol, At
  <1>2. req[r] \in Requested /\ Fits(req[r])
    BY <1>1, Flying
  <1>3. /\ c \in Challenges /\ Caller(r) \in Users
        /\ issued[c].type = "registration" /\ issued[c].user = Caller(r)
    BY <1>1, <1>2 DEF Fits, Caller, Requested, Sessions
  <1>4. CASE Pending(c)
    <2>1. challenges[c].user = Caller(r) /\ challenges[c].type = "registration"
      BY <1>3, <1>4 DEF Pending, Inv, ChallengeOK
    <2>2. PICK k \in Keys :
            /\ keys[k] = NoValue
            /\ MarkUsed(Superseded(c))
            /\ keys' = [keys EXCEPT ![k] = Caller(r)]
            /\ enrolments' = [enrolments EXCEPT ![k] =
                  [user |-> Caller(r), round |-> issued[c].round,
                   first |-> ~HasPasskey(Caller(r)), stepped |-> issued[c].stepped]]
      BY <1>4 DEF Enrol
    <2>3. Enrols(r, k, Caller(r), c)
      BY <1>1, <1>4, <2>1, <2>2 DEF Enrols
    <2> QED BY <1>3, <2>3, EnrolsStep
  <1>5. CASE ~Pending(c)
    BY <1>1, <1>5, FinishMove DEF Enrol
  <1> QED BY <1>4, <1>5

LEMMA MarkAssertionStep ==
  ASSUME Inv, NEW r \in Requests, MarkAssertion(r)
  PROVE  Inv'
  <1>1. /\ InFlight(r) /\ req[r].pc = "mark" /\ req[r].op = "step_up_finish"
        /\ UNCHANGED <<now, keys, proofs, issued, enrolments, passes>>
    BY DEF MarkAssertion, At
  <1>2. PICK q0 \in Requested : q0 = req[r] /\ Fits(q0)
    BY <1>1, Flying
  <1> DEFINE c == q0.challenge
             new == [q0 EXCEPT !.pc = "mint"]
  <1>3. CASE Pending(c) /\ keys[q0.key] \in Users
    <2>1. /\ c \in Challenges /\ challenges[c] # NoValue /\ ~challenges[c].used
          /\ MarkUsed({c}) /\ req' = [req EXCEPT ![r] = new]
      BY <1>1, <1>2, <1>3 DEF MarkAssertion, Goto, Pending, Fits
    <2>2. /\ new \in Requested /\ new.pc = "mint" /\ new.op = q0.op
          /\ new.session = q0.session /\ new.action = q0.action
          /\ new.challenge = c /\ new.key = q0.key
      BY <1>2, Further
    <2> HIDE DEF new
    <2>3. Fits(new)
      BY <1>1, <1>2, <2>2 DEF Fits, Actions
    <2>4. Grows
      BY <1>1 DEF Grows
    <2>5. new # Waiting
      BY <2>2 DEF Waiting
    <2>6. /\ req' \in [Requests -> Requested \cup {Waiting}] /\ req'[r] = new
          /\ \A q \in Requests \ {r} : req'[q] = req[q]
      BY <2>1, <2>2 DEF Inv, TypeOK
    <2>7. ASSUME NEW q \in Requests PROVE RequestOK(q)'
      <3>1. CASE q # r
        BY <2>4, <2>6, <3>1, RequestStays
      <3>2. CASE q = r
        <4>1. Fits(new)'
          BY <2>2, <2>3, <2>4, FitsStays
        <4> QED BY <2>6, <3>2, <4>1 DEF RequestOK, Fits, StepUpFor
      <3> QED BY <3>1, <3>2
    <2>8. /\ challenges' \in [Challenges -> ChallengeRows \cup {NoValue}]
          /\ \A d \in Challenges \ {c} : challenges'[d] = challenges[d]
          /\ challenges'[c].used
      BY <2>1, MarkedRows
    <2>9. /\ \A d \in Challenges : ChallengeOK(d)' /\ (Closed(d) => Closed(d)')
          /\ Closed(c)'
      BY <1>1, <2>1, MarkedOK
    <2>10. TypeOK'
      BY <1>1, <2>6, <2>8 DEF Inv, TypeOK
    <2>11. ASSUME NEW d \in Challenges PROVE ChainOK(d)'
      <3>1. Usable(d)' = Usable(d) /\ PassesOf(d)' = PassesOf(d)
        BY <1>1 DEF Usable, PassesOf
      <3>2. CASE d = c
        <4>1. Minting(c) = {} /\ Usable(c) = {} /\ PassesOf(c) = {}
          BY <2>1 DEF Inv, ChainOK, Closed
        <4>2. \A q \in Minting(c)' : q = r
          BY <2>6, <4>1 DEF Minting, InFlight
        <4> QED BY <2>9, <3>1, <3>2, <4>1, <4>2 DEF ChainOK, Once
      <3>3. CASE d # c
        <4>1. Minting(d)' \subseteq Minting(d)
          BY <2>2, <2>6, <3>3 DEF Minting, InFlight
        <4> QED BY <2>9, <3>1, <4>1, ChainStays DEF Inv
      <3> QED BY <3>2, <3>3
    <2>12. ASSUME NEW d \in Challenges PROVE PendingOK(d)'
      BY <1>1, <2>8 DEF Inv, PendingOK, Round
    <2>13. (\A p \in Proofs : ProofOK(p)') /\ (\A d \in passes' : PassOK(d)')
      BY <1>1 DEF Inv, ProofOK, PassOK, StepUpFor
    <2>14. (\A k \in Keys : EnrolOK(k)') /\ OneEnrolmentPerRound' /\ IsFiniteSet(passes')
      BY <1>1 DEF Inv, EnrolOK, OneEnrolmentPerRound, Round
    <2> QED BY <2>7, <2>9, <2>10, <2>11, <2>12, <2>13, <2>14 DEF Inv
  <1>4. CASE ~(Pending(c) /\ keys[q0.key] \in Users)
    BY <1>1, <1>2, <1>4, FinishMove DEF MarkAssertion
  <1> QED BY <1>3, <1>4

LEMMA MintProofStep ==
  ASSUME Inv, NEW r \in Requests, MintProof(r)
  PROVE  Inv'
  <1>1. /\ InFlight(r) /\ req[r].pc = "mint" /\ Finish(r)
        /\ UNCHANGED <<now, keys, challenges, issued, enrolments, passes>>
    BY DEF MintProof, At
  <1>2. PICK q0 \in Requested : q0 = req[r] /\ Fits(q0)
    BY <1>1, Flying
  <1> DEFINE c == q0.challenge
             row == [session |-> q0.session, action |-> q0.action,
                     exp |-> ProofDeadline, consumed |-> FALSE, challenge |-> c]
  <1>3. PICK p \in Proofs :
          proofs[p] = NoValue /\ proofs' = [proofs EXCEPT ![p] = row]
    BY <1>2 DEF MintProof
  <1>4. ProofDeadline \in Nat
    BY StepUpAssumption DEF ProofDeadline, Inv, TypeOK, Times
  <1>5. /\ c \in Challenges /\ q0.action \in Actions /\ q0.session \in Sessions
        /\ StepUpFor(c, q0.session[1], q0.action)
    BY <1>1, <1>2 DEF Fits, Requested
  <1>6. /\ row \in ProofRows /\ row.session = q0.session /\ row.action = q0.action
        /\ ~row.consumed /\ row.challenge = c
    BY <1>4, <1>5 DEF ProofRows
  <1> HIDE DEF row
  <1>7. /\ proofs' \in [Proofs -> ProofRows \cup {NoValue}] /\ proofs'[p] = row
        /\ \A o \in Proofs \ {p} : proofs'[o] = proofs[o]
    BY <1>3, <1>6 DEF Inv, TypeOK
  <1>8. Grows
    BY <1>1 DEF Grows
  <1>9. /\ req' \in [Requests -> Requested \cup {Waiting}]
        /\ \A q \in Requests : RequestOK(q)'
        /\ \A d \in Challenges : Minting(d)' \subseteq Minting(d)
    BY <1>1, <1>8, Leaves
  <1>10. TypeOK'
    BY <1>1, <1>7, <1>9 DEF Inv, TypeOK
  <1>11. \A d \in Challenges : Closed(d)' <=> Closed(d)
    BY <1>1 DEF Closed
  <1>12. ASSUME NEW d \in Challenges PROVE ChainOK(d)'
    <2>1. PassesOf(d)' = PassesOf(d)
      BY <1>1 DEF PassesOf
    <2>2. CASE d = c
      <3>1. r \in Minting(c)
        BY <1>1, <1>2 DEF Minting
      <3>2. Usable(c) = {} /\ PassesOf(c) = {} /\ Closed(c) /\ \A q \in Minting(c) : q = r
        BY <1>5, <3>1 DEF Inv, ChainOK, Once
      <3>3. r \notin Minting(c)'
        BY <1>1 DEF Minting, InFlight, Finish, Inv, TypeOK
      <3>4. Minting(d)' = {}
        BY <1>5, <1>9, <2>2, <3>2, <3>3
      <3>5. \A o \in Usable(d)' : o = p
        BY <1>7, <2>2, <3>2 DEF Usable
      <3> QED BY <1>11, <2>1, <2>2, <3>2, <3>4, <3>5 DEF ChainOK, Once
    <2>3. CASE d # c
      <3>1. Usable(d)' \subseteq Usable(d)
        BY <1>6, <1>7, <2>3 DEF Usable
      <3> QED BY <1>9, <1>11, <2>1, <3>1, ChainStays DEF Inv
    <2> QED BY <2>2, <2>3
  <1>13. ASSUME NEW d \in Challenges PROVE ChallengeOK(d)' /\ PendingOK(d)'
    BY <1>1 DEF Inv, ChallengeOK, PendingOK, Round
  <1>14. ASSUME NEW o \in Proofs PROVE ProofOK(o)'
    <2>1. CASE o = p
      BY <1>1, <1>5, <1>6, <1>7, <2>1 DEF ProofOK, StepUpFor
    <2>2. CASE o # p
      BY <1>1, <1>7, <2>2 DEF Inv, ProofOK, StepUpFor
    <2> QED BY <2>1, <2>2
  <1>15. \A d \in passes' : PassOK(d)'
    BY <1>1 DEF Inv, PassOK, StepUpFor
  <1>16. (\A k \in Keys : EnrolOK(k)') /\ OneEnrolmentPerRound' /\ IsFiniteSet(passes')
    BY <1>1 DEF Inv, EnrolOK, OneEnrolmentPerRound, Round
  <1> QED BY <1>9, <1>10, <1>12, <1>13, <1>14, <1>15, <1>16 DEF Inv

LEMMA PassGateStep ==
  ASSUME Inv, NEW r \in Requests, PassGate(r)
  PROVE  Inv'
  <1>1. /\ InFlight(r) /\ req[r].op \in Actions /\ req[r].pc = "gate"
        /\ UNCHANGED <<now, keys, challenges, issued, enrolments>>
    BY DEF PassGate, At
  <1>2. PICK q0 \in Requested : q0 = req[r] /\ Fits(q0)
    BY <1>1, Flying
  <1> DEFINE p == q0.proof
             new == [q0 EXCEPT !.pc = "work", !.stepped = TRUE]
  <1>3. CASE p # NoValue /\ Consumable(p, q0.session, q0.action)
    <2> PICK c, n : c = proofs[p].challenge /\ n = Cardinality(passes)
      OBVIOUS
    <2> DEFINE pass == [proof |-> p, challenge |-> c, session |-> q0.session,
                        action |-> q0.op, n |-> n]
    <2>1. /\ proofs' = [proofs EXCEPT ![p].consumed = TRUE]
          /\ passes' = passes \cup {pass}
          /\ req' = [req EXCEPT ![r].pc = "work", ![r].stepped = TRUE]
      BY <1>2, <1>3 DEF PassGate
    <2>2. p \in Proofs /\ proofs[p] \in ProofRows /\ ~proofs[p].consumed
      BY <1>2, <1>3 DEF Requested, Consumable, Inv, TypeOK
    <2>3. c \in Challenges /\ StepUpFor(c, q0.session[1], q0.op)
      BY <1>1, <1>2, <1>3, <2>2 DEF ProofRows, Inv, ProofOK, Consumable, Fits
    <2>4. n \in Nat
      BY FS_CardinalityType DEF Inv
    <2>5. /\ pass \in Passes /\ pass.challenge = c
          /\ pass.session = q0.session /\ pass.action = q0.op
      BY <1>1, <1>2, <2>2, <2>3, <2>4 DEF Passes, Requested
    <2>6. /\ new \in Requested /\ new.pc = "work" /\ new.op = q0.op
          /\ new.session = q0.session /\ new.action = q0.action
          /\ new.key = q0.key
      BY <1>2 DEF Requested
    <2>7. req' = [req EXCEPT ![r] = new]
      BY <1>2, <2>1
    <2> HIDE DEF new, pass
    <2>8. Fits(new)
      BY <1>1, <1>2, <2>6 DEF Fits
    <2>9. Grows
      BY <1>1 DEF Grows
    <2>10. /\ req' \in [Requests -> Requested \cup {Waiting}] /\ req'[r] = new
           /\ \A q \in Requests \ {r} : req'[q] = req[q]
      BY <2>6, <2>7 DEF Inv, TypeOK
    <2>11. ASSUME NEW q \in Requests PROVE RequestOK(q)'
      <3>1. CASE q # r
        BY <2>9, <2>10, <3>1, RequestStays
      <3>2. CASE q = r
        <4>1. Fits(new)'
          BY <2>6, <2>8, <2>9, FitsStays
        <4> QED BY <2>10, <3>2, <4>1 DEF RequestOK, Fits, StepUpFor
      <3> QED BY <3>1, <3>2
    <2>12. [proofs[p] EXCEPT !.consumed = TRUE] \in ProofRows
      BY <2>2 DEF ProofRows
    <2>13. /\ proofs' \in [Proofs -> ProofRows \cup {NoValue}]
           /\ \A o \in Proofs \ {p} : proofs'[o] = proofs[o]
      BY <2>1, <2>2, <2>12 DEF Inv, TypeOK
    <2>14. /\ proofs'[p].consumed /\ proofs'[p].session = proofs[p].session
           /\ proofs'[p].action = proofs[p].action /\ proofs'[p].challenge = c
      BY <2>1, <2>2 DEF Inv, TypeOK, ProofRows
    <2>15. TypeOK'
      BY <1>1, <2>1, <2>5, <2>10, <2>13 DEF Inv, TypeOK
    <2>16. ASSUME NEW d \in Challenges PROVE ChainOK(d)'
      <3>1. Minting(d)' \subseteq Minting(d)
        BY <2>6, <2>10 DEF Minting, InFlight
      <3>2. Usable(d)' \subseteq Usable(d) \ {p}
        BY <2>13, <2>14 DEF Usable
      <3>3. Closed(d)' <=> Closed(d)
        BY <1>1 DEF Closed
      <3>4. CASE d = c
        <4>1. p \in Usable(c)
          BY <1>3, <2>2 DEF Usable, Consumable
        <4>2. /\ Minting(c) = {} /\ PassesOf(c) = {} /\ Closed(c)
              /\ \A o \in Usable(c) : o = p
          BY <2>3, <4>1 DEF Inv, ChainOK, Once
        <4>3. \A e \in PassesOf(c)' : e = pass
          BY <2>1, <4>2 DEF PassesOf
        <4> QED BY <3>1, <3>2, <3>3, <3>4, <4>2, <4>3 DEF ChainOK, Once
      <3>5. CASE d # c
        <4>1. PassesOf(d)' \subseteq PassesOf(d)
          BY <2>1, <2>5, <3>5 DEF PassesOf
        <4> QED BY <3>1, <3>2, <3>3, <4>1, ChainStays DEF Inv
      <3> QED BY <3>4, <3>5
    <2>17. ASSUME NEW d \in Challenges PROVE ChallengeOK(d)' /\ PendingOK(d)'
      BY <1>1 DEF Inv, ChallengeOK, PendingOK, Round
    <2>18. ASSUME NEW o \in Proofs PROVE ProofOK(o)'
      BY <1>1, <2>2, <2>13, <2>14, NullAssumption DEF Inv, ProofOK, StepUpFor
    <2>19. ASSUME NEW d \in passes' PROVE PassOK(d)'
      BY <1>1, <2>1, <2>3, <2>5 DEF Inv, PassOK, StepUpFor
    <2>20. IsFiniteSet(passes')
      BY <2>1, FS_AddElement DEF Inv
    <2>21. (\A k \in Keys : EnrolOK(k)') /\ OneEnrolmentPerRound'
      BY <1>1 DEF Inv, EnrolOK, OneEnrolmentPerRound, Round
    <2> QED BY <2>11, <2>15, <2>16, <2>17, <2>18, <2>19, <2>20, <2>21 DEF Inv
  <1>4. CASE ~(p # NoValue /\ Consumable(p, q0.session, q0.action))
    BY <1>1, <1>2, <1>4, FinishMove DEF PassGate
  <1> QED BY <1>3, <1>4

LEMMA CleanupProofsStep ==
  ASSUME Inv, CleanupProofs
  PROVE  Inv'
  <1>1. UNCHANGED <<now, keys, challenges, req, issued, enrolments, passes>>
    BY DEF CleanupProofs
  <1>2. /\ proofs' \in [Proofs -> ProofRows \cup {NoValue}]
        /\ \A p \in Proofs : proofs'[p] \in {proofs[p], NoValue}
    BY DEF CleanupProofs, Inv, TypeOK
  <1>3. Grows
    BY <1>1 DEF Grows
  <1>4. \A r \in Requests : RequestOK(r)'
    BY <1>1, <1>3, RequestStays
  <1>5. TypeOK'
    BY <1>1, <1>2 DEF Inv, TypeOK
  <1>6. ASSUME NEW c \in Challenges PROVE ChallengeOK(c)' /\ ChainOK(c)' /\ PendingOK(c)'
    <2>1. /\ Minting(c)' = Minting(c) /\ PassesOf(c)' = PassesOf(c) /\ (Closed(c)' <=> Closed(c))
          /\ Usable(c)' \subseteq Usable(c)
      BY <1>1, <1>2 DEF Minting, Usable, PassesOf, Closed, InFlight
    <2>2. ChainOK(c)'
      BY <2>1, ChainStays DEF Inv
    <2> QED BY <1>1, <2>2 DEF Inv, ChallengeOK, PendingOK, Round
  <1>7. (\A p \in Proofs : ProofOK(p)') /\ (\A d \in passes' : PassOK(d)')
    BY <1>1, <1>2 DEF Inv, ProofOK, PassOK, StepUpFor
  <1>8. (\A k \in Keys : EnrolOK(k)') /\ OneEnrolmentPerRound' /\ IsFiniteSet(passes')
    BY <1>1 DEF Inv, EnrolOK, OneEnrolmentPerRound, Round
  <1> QED BY <1>4, <1>5, <1>6, <1>7, <1>8 DEF Inv

LEMMA CleanupChallengesStep ==
  ASSUME Inv, CleanupChallenges
  PROVE  Inv'
  <1>1. UNCHANGED <<now, keys, proofs, req, issued, enrolments, passes>>
    BY DEF CleanupChallenges
  <1>2. /\ challenges' \in [Challenges -> ChallengeRows \cup {NoValue}]
        /\ \A c \in Challenges : challenges'[c] \in {challenges[c], NoValue}
    BY DEF CleanupChallenges, Inv, TypeOK
  <1>3. Grows
    BY <1>1 DEF Grows
  <1>4. \A r \in Requests : RequestOK(r)'
    BY <1>1, <1>3, RequestStays
  <1>5. TypeOK'
    BY <1>1, <1>2 DEF Inv, TypeOK
  <1>6. ASSUME NEW c \in Challenges PROVE ChallengeOK(c)' /\ ChainOK(c)' /\ PendingOK(c)'
    <2>1. Minting(c)' = Minting(c) /\ Usable(c)' = Usable(c) /\ PassesOf(c)' = PassesOf(c)
      BY <1>1 DEF Minting, Usable, PassesOf, InFlight
    <2>2. Closed(c) => Closed(c)'
      BY <1>1, <1>2 DEF Closed
    <2>3. ChainOK(c)'
      BY <2>1, <2>2, ChainStays DEF Inv
    <2> QED BY <1>1, <1>2, <2>3 DEF Inv, ChallengeOK, PendingOK, Round
  <1>7. (\A p \in Proofs : ProofOK(p)') /\ (\A d \in passes' : PassOK(d)')
    BY <1>1 DEF Inv, ProofOK, PassOK, StepUpFor
  <1>8. (\A k \in Keys : EnrolOK(k)') /\ OneEnrolmentPerRound' /\ IsFiniteSet(passes')
    BY <1>1 DEF Inv, EnrolOK, OneEnrolmentPerRound, Round
  <1> QED BY <1>4, <1>5, <1>6, <1>7, <1>8 DEF Inv

\* The clock moves, or nothing does.
LEMMA TickStep ==
  ASSUME Inv, Tick \/ UNCHANGED vars
  PROVE  Inv'
  <1>1. /\ UNCHANGED <<keys, challenges, proofs, req, issued, enrolments, passes>>
        /\ now' \in Times /\ now <= now'
    BY StepUpAssumption DEF Tick, vars, Inv, TypeOK, Times
  <1>2. Grows
    BY <1>1 DEF Grows
  <1>3. \A r \in Requests : RequestOK(r)'
    BY <1>1, <1>2, RequestStays
  <1>4. TypeOK'
    BY <1>1 DEF Inv, TypeOK
  <1>5. ASSUME NEW c \in Challenges PROVE ChallengeOK(c)' /\ ChainOK(c)' /\ PendingOK(c)'
    <2>1. /\ Minting(c)' = Minting(c) /\ Usable(c)' = Usable(c) /\ PassesOf(c)' = PassesOf(c)
          /\ Closed(c)' <=> Closed(c)
      BY <1>1 DEF Minting, Usable, PassesOf, Closed, InFlight
    <2>2. ChainOK(c)'
      BY <2>1, ChainStays DEF Inv
    <2>3. challenges[c] # NoValue => challenges[c].exp \in Nat
      BY DEF Inv, TypeOK, ChallengeRows
    <2>4. PendingOK(c)'
      BY <1>1, <2>3 DEF Inv, TypeOK, PendingOK, Round, Times
    <2> QED BY <1>1, <2>2, <2>4 DEF Inv, ChallengeOK
  <1>6. (\A p \in Proofs : ProofOK(p)') /\ (\A d \in passes' : PassOK(d)')
    BY <1>1 DEF Inv, ProofOK, PassOK, StepUpFor
  <1>7. (\A k \in Keys : EnrolOK(k)') /\ OneEnrolmentPerRound' /\ IsFiniteSet(passes')
    BY <1>1 DEF Inv, EnrolOK, OneEnrolmentPerRound, Round
  <1> QED BY <1>3, <1>4, <1>5, <1>6, <1>7 DEF Inv

LEMMA NextInv == Inv /\ [Next]_vars => Inv'
  <1> SUFFICES ASSUME Inv, [Next]_vars PROVE Inv'
    OBVIOUS
  <1>1. ASSUME NEW r \in Requests, NEW s \in Sessions, Arrival(r, s) PROVE Inv'
    BY <1>1, ArrivalStep
  <1>2. ASSUME NEW r \in Requests, RequestStep(r) PROVE Inv'
    <2>1. CASE PassGate(r)
      BY <2>1, PassGateStep
    <2>2. CASE BeginRegistration(r)
      BY <2>2, BeginRegistrationStep
    <2>3. CASE Enrol(r)
      BY <2>3, EnrolStep
    <2>4. CASE StepUpChallenge(r)
      BY <2>4, StepUpChallengeStep
    <2>5. CASE VerifyAssertion(r)
      BY <2>5, VerifyStep
    <2>6. CASE MarkAssertion(r)
      BY <2>6, MarkAssertionStep
    <2>7. CASE MintProof(r)
      BY <2>7, MintProofStep
    <2>8. CASE AdminReadKey(r)
      BY <2>8, AdminReadStep
    <2>9. CASE DeleteKey(r)
      BY <2>9, DeleteKeyStep
    <2>10. CASE ResetKeys(r)
      BY <2>10, ResetKeysStep
    <2>11. CASE Abort(r)
      BY <2>11, FinishMove DEF Abort
    <2> QED BY <1>2, <2>1, <2>2, <2>3, <2>4, <2>5, <2>6, <2>7, <2>8, <2>9, <2>10, <2>11
        DEF RequestStep
  <1>3. CASE CleanupProofs
    BY <1>3, CleanupProofsStep
  <1>4. CASE CleanupChallenges
    BY <1>4, CleanupChallengesStep
  <1>5. CASE Tick \/ UNCHANGED vars
    BY <1>5, TickStep
  <1> QED BY <1>1, <1>2, <1>3, <1>4, <1>5 DEF Next

LEMMA Invariant == Spec => []Inv
  BY InitInv, NextInv, PTL DEF Spec

\* The tables, the requests and the history keep their types whatever the
\* requests do (the schema of passkey_credentials, passkey_challenges and
\* step_up_proofs).
THEOREM TypeCorrect == Spec => []TypeOK
  <1>1. Inv => TypeOK
    BY DEF Inv
  <1> QED BY Invariant, <1>1, PTL

\* One touch of a passkey opens one gate, and one that was asked for it: an
\* assertion is a request to mint, a proof or a pass, and one of them at a time
\* (markAsUsed, stepUpProofs.create and consume).
THEOREM SingleGate == Spec => []OnePassPerAssertion
  <1>1. Inv => OnePassPerAssertion
    <2> SUFFICES ASSUME Inv PROVE OnePassPerAssertion
      OBVIOUS
    <2>1. ASSUME NEW d \in passes, NEW e \in passes, d.challenge = e.challenge PROVE d = e
      <3>1. d.challenge \in Challenges /\ d \in PassesOf(d.challenge) /\ e \in PassesOf(d.challenge)
        BY <2>1 DEF Inv, TypeOK, Passes, PassesOf
      <3>2. Once(PassesOf(d.challenge))
        BY <3>1 DEF Inv, ChainOK
      <3> QED BY <3>1, <3>2 DEF Once
    <2>2. \A d \in passes : PassOK(d)
      BY DEF Inv
    <2> QED BY <2>1, <2>2 DEF OnePassPerAssertion, PassOK, StepUpFor
  <1> QED BY Invariant, <1>1, PTL

\* The registrations begun before an enrolment end with it, however many were
\* pending and however their finishes interleave (markAllPendingAsUsed).
THEOREM RoundsEnd == Spec => []OneEnrolmentPerRound
  <1>1. Inv => OneEnrolmentPerRound
    BY DEF Inv
  <1> QED BY Invariant, <1>1, PTL

\* A user with two passkeys has one that is not this one.
LEMMA AnotherKey ==
  ASSUME NEW u, NEW k, Cardinality(KeysOf(u)) > 1
  PROVE  \E l \in KeysOf(u) : l # k
  <1>1. IsFiniteSet(KeysOf(u))
    BY StepUpAssumption, FS_Subset DEF KeysOf
  <1> SUFFICES ASSUME KeysOf(u) \subseteq {k} PROVE FALSE
    OBVIOUS
  <1>2. IsFiniteSet({k}) /\ Cardinality({k}) = 1
    BY FS_Singleton
  <1>3. Cardinality(KeysOf(u)) <= 1
    BY <1>2, FS_Subset
  <1> QED BY <1>1, <1>3, FS_CardinalityType

LEMMA DeleteKeeps ==
  ASSUME Inv, NEW u \in MfaUsers, NEW r \in Requests, DeleteKey(r), NEW k \in Keys, keys[k] = u,
         ~HasPasskey(u)'
  PROVE  Caller(r) \in Admins \ {u}
  <1>1. /\ InFlight(r) /\ req[r].pc = "delete"
        /\ req[r].op \in {"own_delete", "admin_delete"}
    <2>1. At(r, "delete", "own_delete") \/ At(r, "delete", "admin_delete")
      BY DEF DeleteKey
    <2> QED BY <2>1 DEF At
  <1>2. req[r] \in Requested /\ Fits(req[r])
    BY <1>1, Flying
  <1>3. \A l \in Keys : keys'[l] # u
    BY DEF HasPasskey, KeysOf
  <1>4. /\ Deletable(r) /\ req[r].key = k
        /\ \A l \in Keys \ {k} : keys'[l] = keys[l]
    BY <1>3 DEF DeleteKey, Inv, TypeOK
  <1>5. u \in Users /\ u # Deleted
    BY StepUpAssumption
  <1>6. ~KeepsOne(r)
    <2>1. SUFFICES ASSUME KeepsOne(r) PROVE FALSE
      OBVIOUS
    <2>2. keys[k] = Caller(r) /\ Cardinality(KeysOf(u)) > 1
      BY <1>4, <2>1 DEF Deletable
    <2>3. PICK l \in KeysOf(u) : l # k
      BY <2>2, AnotherKey
    <2> QED BY <1>3, <1>4, <2>3 DEF KeysOf
  <1>7. CASE req[r].op = "own_delete"
    <2>1. Caller(r) = u
      BY <1>1, <1>2, <1>4, <1>5, <1>7 DEF Fits, Caller
    <2> QED BY <1>6, <1>7, <2>1 DEF KeepsOne
  <1>8. CASE req[r].op = "admin_delete"
    <2>1. req[r].target = u /\ Caller(r) \in Admins
      BY <1>1, <1>2, <1>4, <1>5, <1>8 DEF Fits, Caller
    <2> QED BY <1>6, <1>8, <2>1 DEF KeepsOne
  <1> QED BY <1>1, <1>7, <1>8

\* The last passkey of a user who must use MFA goes only at the hands of an
\* admin other than the user (deleteIfNotLast, and the admin routes).
THEOREM KeepsLastPasskey == Spec => LastPasskeyKept
  <1> DEFINE Kept == \A u \in MfaUsers :
                       HasPasskey(u) /\ ~HasPasskey(u)' =>
                          \E r \in Requests : /\ DeleteKey(r) \/ ResetKeys(r)
                                              /\ Caller(r) \in Admins \ {u}
  <1>1. Inv /\ [Next]_vars => Kept
    <2> SUFFICES ASSUME Inv, [Next]_vars, NEW u \in MfaUsers, HasPasskey(u), ~HasPasskey(u)'
                 PROVE  \E r \in Requests : /\ DeleteKey(r) \/ ResetKeys(r)
                                            /\ Caller(r) \in Admins \ {u}
      OBVIOUS
    <2>1. PICK k \in Keys : keys[k] = u
      BY DEF HasPasskey, KeysOf
    <2>2. keys'[k] # u
      BY DEF HasPasskey, KeysOf
    <2>3. u # NoValue /\ u # Deleted
      BY StepUpAssumption
    <2>4. ASSUME NEW r \in Requests, DeleteKey(r) PROVE Caller(r) \in Admins \ {u}
      BY <2>1, <2>4, DeleteKeeps
    <2>5. ASSUME NEW r \in Requests, ResetKeys(r) PROVE Caller(r) \in Admins \ {u}
      <3>1. InFlight(r) /\ req[r].op = "admin_reset"
        BY <2>5 DEF ResetKeys, At
      <3>2. Caller(r) \in Admins
        BY <3>1, Flying DEF Fits, Caller
      <3> QED BY <2>1, <2>2, <2>5, <3>2 DEF ResetKeys
    <2>6. ASSUME NEW r \in Requests, Enrol(r) PROVE FALSE
      BY <2>1, <2>2, <2>3, <2>6 DEF Enrol, Inv, TypeOK
    <2>7. ASSUME NEW r \in Requests, NEW s \in Sessions, Arrival(r, s) PROVE FALSE
      BY <2>1, <2>2, <2>7 DEF Arrival, RegisterBegin, AdminRequest, FinishRegistration,
         StepUpBegin, StepUpFinish, OwnDelete
    <2>8. ASSUME NEW r \in Requests, RequestStep(r), ~DeleteKey(r), ~ResetKeys(r), ~Enrol(r)
          PROVE  FALSE
      BY <2>1, <2>2, <2>8 DEF RequestStep, PassGate, BeginRegistration, StepUpChallenge,
         VerifyAssertion, MarkAssertion, MintProof, AdminReadKey, Abort
    <2>9. CASE CleanupProofs \/ CleanupChallenges \/ Tick \/ UNCHANGED vars
      BY <2>1, <2>2, <2>9 DEF CleanupProofs, CleanupChallenges, Tick, vars
    <2> QED BY <2>4, <2>5, <2>6, <2>7, <2>8, <2>9 DEF Next
  <1> QED BY Invariant, <1>1, PTL DEF Spec, LastPasskeyKept, Kept
=============================================================================
