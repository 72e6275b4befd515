-------------------------- MODULE SiweLoginProofs --------------------------
(***************************************************************************)
(* The properties of the login routes, for every number of users, wallets, *)
(* nonces and requests and every setting of the times that the retention   *)
(* assumption of SiweLogin allows: a nonce and an assertion are used once, *)
(* by their owner, no second factor is skipped, and the routes implement   *)
(* SingleUseLogin.                                                         *)
(***************************************************************************)
EXTENDS SiweLogin, TLAPS

USE DEF InFlight, At

\* What the fields of a request hold, by its kind and by where it stands.
RequestOK(r) ==
    LET q == req[r] IN
    /\ q.pc = "ensure" <=> q.kind = "ensure"
    /\ q.pc = "find_user" => q.kind = "siwe"
    /\ q.pc \in {"mfa", "assert", "mark"} => q.kind \in {"siwe", "oidc"}
    /\ q.pc \in {"assert", "mark"} => q.assertion \in Challenges
    /\ q.pc = "mark" => challenges[q.assertion] # NoValue
    /\ q.pc = "link" => q.kind = "associate"
    /\ q.kind \in {"oidc", "associate"} => q.user \in Users
    /\ q.kind = "siwe" /\ q.pc # "find_user" => q.user \in Users
    /\ q.kind \in {"ensure"} \cup MachineTypes => q.address \in Addresses
    /\ q.kind \in {"siwe", "associate"} \cup MachineTypes => q.nonce \in Nonces
    /\ q.kind = "oidc" => q.pc # "consume" /\ q.nonce = NoValue
    /\ q.challenge # NoValue => challenges[q.challenge] # NoValue

RequestsOK == \A r \in Requests : InFlight(r) => RequestOK(r)

TypeInv == TypeOK /\ RequestsOK

\* The tables start empty or arbitrary within their types, and no request runs.
LEMMA InitType == Init => TypeInv
  <1> SUFFICES ASSUME Init PROVE TypeInv OBVIOUS
  <1> USE SetsAssumption, TimesAssumption DEF Init, Times
  <1> QED BY DEF TypeInv, TypeOK, RequestsOK

\* Each handler keeps the tables and the fields of its request well-formed.
LEMMA TypeStep == TypeInv /\ [Next]_vars => TypeInv'
  <1> SUFFICES ASSUME TypeInv, [Next]_vars PROVE TypeInv' OBVIOUS
  <1> USE SetsAssumption, TimesAssumption
      DEF TypeInv, TypeOK, RequestsOK, RequestOK, RequestRecords, Tokens, ChallengeRows, SessionRows, Times,
          TargetTypes, Kinds, ReqPcs, Idle, accounts, Start, Goto, Finish
  <1>1. ASSUME NEW a \in Addresses, IssueLogin(a) PROVE TypeInv'
    BY <1>1 DEF IssueLogin, IssueToken
  <1>2. ASSUME NEW a \in Addresses, UnlinkWallet(a) \/ \E u \in Users : GiveWallet(a, u)
        PROVE  TypeInv'
    BY <1>2 DEF UnlinkWallet, GiveWallet, MayChange
  <1>3. ASSUME NEW u \in Users, NEW a \in Addresses, IssueAssociation(u, a) PROVE TypeInv'
    BY <1>3 DEF IssueAssociation, IssueToken
  <1>4. ASSUME NEW t \in MachineTypes, NEW a \in Addresses, IssueMachine(t, a) PROVE TypeInv'
    BY <1>4 DEF IssueMachine, IssueToken
  <1>5. ASSUME NEW r \in Requests, NEW a \in Addresses, IssueAdminLogin(r, a) PROVE TypeInv'
    BY <1>5 DEF IssueAdminLogin
  <1>6. ASSUME NEW r \in Requests, NEW n \in Nonces, NEW c \in MaybeChallenge,
               StartSiwe(r, n, c) PROVE TypeInv'
    BY <1>6 DEF StartSiwe, TokenValid, MaybeChallenge
  <1>7. ASSUME NEW r \in Requests, NEW u \in Users, NEW c \in MaybeChallenge,
               StartOidc(r, u, c) PROVE TypeInv'
    BY <1>7 DEF StartOidc, MaybeChallenge, AfterUser
  <1>8. ASSUME NEW r \in Requests, NEW t \in MachineTypes, NEW n \in Nonces,
               StartMachine(r, t, n) PROVE TypeInv'
    BY <1>8 DEF StartMachine, TokenValid
  <1>9. ASSUME NEW r \in Requests, NEW u \in Users, NEW n \in Nonces,
               StartAssociate(r, u, n) PROVE TypeInv'
    BY <1>9 DEF StartAssociate, TokenValid
  <1>10. ASSUME NEW r \in Requests, RequestStep(r) PROVE TypeInv'
    <2>1. CASE EnsureAdminWalletUser(r)
      BY <2>1 DEF EnsureAdminWalletUser, IssueToken, WinnerUser
    <2>2. CASE FindUser(r)
      BY <2>2 DEF FindUser, AfterUser
    <2>3. CASE MfaNotEnrolled(r)
      BY <2>3 DEF MfaNotEnrolled, AfterMfa
    <2>4. CASE MfaChallenge(r)
      BY <2>4 DEF MfaChallenge
    <2>5. CASE MfaAssertion(r)
      BY <2>5 DEF MfaAssertion
    <2>6. CASE ReadChallenge(r)
      BY <2>6 DEF ReadChallenge, ChallengeAccepted
    <2>7. CASE MarkChallenge(r)
      <3> DEFINE c == req[r].assertion
      <3>1. c \in Challenges /\ challenges[c] \in ChallengeRows
        BY <2>7 DEF MarkChallenge
      <3> DEFINE marked == [challenges EXCEPT ![c].used = TRUE]
      <3>m. /\ marked \in [Challenges -> ChallengeRows \cup {NoValue}]
            /\ \A d \in Challenges : challenges[d] # NoValue => marked[d] # NoValue
        <4>1. [challenges[c] EXCEPT !.used = TRUE] \in ChallengeRows
          BY <3>1
        <4>2. \A d \in Challenges :
                marked[d] = IF d = c THEN [challenges[c] EXCEPT !.used = TRUE]
                                     ELSE challenges[d]
          OBVIOUS
        <4>3. marked \in [Challenges -> ChallengeRows \cup {NoValue}]
          <5>1. marked = [d \in Challenges |-> marked[d]] OBVIOUS
          <5>2. \A d \in Challenges : marked[d] \in ChallengeRows \cup {NoValue}
            <6> HIDE DEF marked
            <6> QED BY <4>1, <4>2
          <5> HIDE DEF marked
          <5> QED BY <5>1, <5>2
        <4> HIDE DEF marked
        <4> QED BY <4>1, <4>2, <4>3, <3>1, NullAssumption
      <3>2. CASE Finish(r) /\ UNCHANGED challenges
        BY <2>7, <3>2 DEF MarkChallenge
      <3>3. CASE /\ challenges' = marked
                 /\ Finish(r)
        <4> HIDE DEF marked
        <4> QED BY <2>7, <3>1, <3>m, <3>3 DEF MarkChallenge
      <3>4. CASE /\ challenges' = marked
                 /\ req' = [req EXCEPT ![r].pc = AfterMfa(r), ![r].challenge = c]
                 /\ guarded' = guarded
        <4> HIDE DEF marked
        <4> QED BY <2>7, <3>1, <3>m, <3>4 DEF MarkChallenge, AfterMfa
      <3> QED BY <2>7, <3>2, <3>3, <3>4 DEF MarkChallenge
    <2>8. CASE ConsumeNonce(r)
      BY <2>8 DEF ConsumeNonce, AfterConsume
    <2>9. CASE CreateSession(r)
      BY <2>9 DEF CreateSession, Holder
    <2>10. CASE LinkWallet(r)
      BY <2>10 DEF LinkWallet
    <2>11. CASE Abort(r)
      BY <2>11 DEF Abort
    <2> QED BY <1>10, <2>1, <2>2, <2>3, <2>4, <2>5, <2>6, <2>7, <2>8, <2>9,
               <2>10, <2>11 DEF RequestStep
  <1>11. ASSUME NEW u \in Users, ChangeRole(u) \/ ChangePasskeys(u) PROVE TypeInv'
    BY <1>11 DEF ChangeRole, ChangePasskeys, MayChange, StillGuarded
  <1>12. CASE CleanupNonces
    BY <1>12 DEF CleanupNonces, Purgeable
  <1>13. CASE Tick
    BY <1>13 DEF Tick
  <1>14. CASE UNCHANGED vars
    BY <1>14 DEF vars
  <1> QED BY <1>1, <1>2, <1>3, <1>4, <1>5, <1>6, <1>7, <1>8, <1>9, <1>10, <1>11,
             <1>12, <1>13, <1>14 DEF Next

\* The type invariant of the module, with what the fields of a request in
\* flight hold: the shape every handler of the login routes relies on.
THEOREM TypeCorrect == Spec => []TypeOK
  <1>1. TypeInv => TypeOK BY DEF TypeInv
  <1> QED BY InitType, TypeStep, <1>1, PTL DEF Spec

-----------------------------------------------------------------------------
(* The nonce.  The argument: a session made from nonce n leaves n in the   *)
(* consumed table; the cleanup removes it only when every request that     *)
(* could still hold the token (validated before its expiry, no older than  *)
(* MaxLatency) has ended; so the next insert of n either conflicts or      *)
(* never comes.                                                            *)

\* A request carries a nonce whose token was valid when it started.
CarriesValid ==
    \A r \in Requests :
        InFlight(r) =>
            /\ req[r].started <= now
            /\ now <= req[r].started + MaxLatency
            /\ req[r].nonce # NoValue =>
                  /\ tokens[req[r].nonce] # NoValue
                  /\ req[r].started < tokens[req[r].nonce].exp

\* A token expires at most Expiration after now, and after its consumption.
TokenTimes ==
    \A n \in Nonces :
        /\ tokens[n] # NoValue => tokens[n].exp <= now + Expiration
        /\ consumed[n] # NoValue =>
              /\ tokens[n] # NoValue
              /\ tokens[n].exp <= consumed[n] + Expiration

\* The request has consumed its nonce and not answered yet.
Holds(r, n) ==
    InFlight(r) /\ req[r].nonce = n /\ req[r].pc \in {"create", "link"}

SessionOf(s, n) == sessions[s] # NoValue /\ sessions[s].nonce = n

Spent(n) ==
    \/ \E s \in SessionIds : SessionOf(s, n)
    \/ \E r \in Requests : Holds(r, n)

\* A spent nonce is in the table, or too old for any request to carry.
SpentRemembered ==
    \A n \in Nonces :
        Spent(n) =>
            /\ tokens[n] # NoValue
            /\ consumed[n] # NoValue \/ tokens[n].exp + MaxLatency <= now

\* At most one session or request has a nonce.
OneHolder ==
    \A n \in Nonces :
        /\ \A s, t \in SessionIds : SessionOf(s, n) /\ SessionOf(t, n) => s = t
        /\ \A r, q \in Requests : Holds(r, n) /\ Holds(q, n) => r = q
        /\ \A r \in Requests, s \in SessionIds : ~(Holds(r, n) /\ SessionOf(s, n))

NonceInv == TypeInv /\ CarriesValid /\ TokenTimes /\ SpentRemembered /\ OneHolder

\* Nothing is issued, consumed or in flight at the start.
LEMMA NonceInit == Init => NonceInv
  <1> SUFFICES ASSUME Init PROVE NonceInv OBVIOUS
  <1>1. TypeInv BY InitType
  <1> QED BY <1>1 DEF Init, NonceInv, CarriesValid, TokenTimes, SpentRemembered,
             OneHolder, Spent, Holds, SessionOf

\* What most steps do to the nonces: requests end or go on, without acquiring
\* a nonce; tokens are only added.
RequestsGoOn ==
    \A r \in Requests :
        InFlight(r)' =>
            /\ InFlight(r)
            /\ req'[r].nonce = req[r].nonce
            /\ req'[r].started = req[r].started
            /\ req'[r].pc \in {"create", "link"} =>
                  req[r].pc \in {"create", "link"} \/ req[r].nonce = NoValue

TokensGrow ==
    \A n \in Nonces :
        \/ tokens'[n] = tokens[n]
        \/ /\ tokens[n] = NoValue
           /\ tokens'[n] # NoValue
           /\ tokens'[n].exp = now + Expiration

Parts == CarriesValid /\ TokenTimes /\ SpentRemembered /\ OneHolder

\* A step that touches neither the consumed nonces nor the sessions, and starts
\* nothing, keeps the parts of the invariant.
LEMMA QuietStep ==
    ASSUME NonceInv, RequestsGoOn, TokensGrow, UNCHANGED <<now, consumed, sessions>>
    PROVE  Parts'
  <1> USE SetsAssumption, TimesAssumption
      DEF NonceInv, TypeInv, TypeOK, Times
  <1>t. \A n \in Nonces : tokens[n] # NoValue => tokens'[n] = tokens[n]
    BY DEF TokensGrow
  <1>n. \A r \in Requests : InFlight(r) => req[r].nonce \in Nonces \cup {NoValue}
    BY DEF RequestRecords
  <1>1. CarriesValid'
    BY <1>t, <1>n DEF CarriesValid, RequestsGoOn
  <1>2. TokenTimes'
    BY <1>t DEF TokenTimes, TokensGrow, Tokens
  <1>h. \A r \in Requests, n \in Nonces : Holds(r, n)' => Holds(r, n)
    BY DEF Holds, RequestsGoOn
  <1>s. \A s \in SessionIds, n \in Nonces : SessionOf(s, n)' <=> SessionOf(s, n)
    BY DEF SessionOf
  <1>3. SpentRemembered'
    BY <1>t, <1>h, <1>s DEF SpentRemembered, Spent
  <1>4. OneHolder'
    BY <1>h, <1>s DEF OneHolder
  <1> QED BY <1>1, <1>2, <1>3, <1>4 DEF Parts

\* A request that presents a token valid now keeps them too.
LEMMA StartStep ==
    ASSUME NonceInv, NEW r \in Requests, ~InFlight(r),
           NEW pc, NEW kind, NEW n \in Nonces \cup {NoValue}, NEW a, NEW u, NEW c,
           Start(r, pc, kind, n, a, u, c),
           pc \notin {"create", "link"} \/ n = NoValue,
           n # NoValue => TokenValid(n),
           UNCHANGED <<now, tokens, consumed, sessions>>
    PROVE  Parts'
  <1> USE SetsAssumption, TimesAssumption
      DEF NonceInv, TypeInv, TypeOK, Times, Start
  <1>1. CarriesValid'
    BY DEF CarriesValid, TokenValid, Tokens
  <1>2. TokenTimes'
    BY DEF TokenTimes
  <1>h. \A p \in Requests, m \in Nonces : Holds(p, m)' => Holds(p, m)
    BY DEF Holds
  <1>s. \A s \in SessionIds, m \in Nonces : SessionOf(s, m)' <=> SessionOf(s, m)
    BY DEF SessionOf
  <1>3. SpentRemembered'
    BY <1>h, <1>s DEF SpentRemembered, Spent
  <1>4. OneHolder'
    BY <1>h, <1>s DEF OneHolder
  <1> QED BY <1>1, <1>2, <1>3, <1>4 DEF Parts

\* The insert succeeds: nobody holds the nonce and no session has it.
LEMMA ConsumeStep ==
    ASSUME NonceInv, NEW r \in Requests, ConsumeNonce(r),
           consumed[req[r].nonce] = NoValue
    PROVE  Parts'
  <1> USE SetsAssumption, TimesAssumption
      DEF NonceInv, TypeInv, TypeOK, Times
  <1> DEFINE n == req[r].nonce
  <1>1. /\ n \in Nonces
        /\ consumed' = [consumed EXCEPT ![n] = now]
        /\ UNCHANGED <<now, tokens, sessions>>
        /\ req[r] \in RequestRecords /\ req[r].pc = "consume" /\ InFlight(r)
    BY DEF ConsumeNonce, RequestsOK, RequestOK, RequestRecords, ReqPcs, Kinds, Idle
  <1>2. /\ tokens[n] # NoValue
        /\ now < tokens[n].exp + MaxLatency
        /\ tokens[n].exp <= now + Expiration
    BY <1>1 DEF CarriesValid, TokenTimes, Tokens, RequestRecords
  <1>3. ~Spent(n)
    BY <1>1, <1>2 DEF SpentRemembered, Tokens
  <1>4. \A p \in Requests : InFlight(p)' =>
            /\ InFlight(p)
            /\ req'[p].nonce = req[p].nonce
            /\ req'[p].started = req[p].started
            /\ p # r => req'[p] = req[p]
    BY <1>1 DEF ConsumeNonce, Finish, Goto, RequestRecords
  <1>5. CarriesValid'
    BY <1>1, <1>4 DEF CarriesValid, RequestRecords
  <1>6. TokenTimes'
    BY <1>1, <1>2 DEF TokenTimes, Tokens
  <1>h. \A p \in Requests, m \in Nonces :
            Holds(p, m)' => Holds(p, m) \/ (p = r /\ m = n)
    BY <1>1, <1>4 DEF Holds
  <1>s. \A s \in SessionIds, m \in Nonces : SessionOf(s, m)' <=> SessionOf(s, m)
    BY <1>1 DEF SessionOf
  <1>7. SpentRemembered'
    BY <1>1, <1>2, <1>h, <1>s DEF SpentRemembered, Spent
  <1>8. OneHolder'
    BY <1>1, <1>3, <1>h, <1>s DEF OneHolder, Spent
  <1> QED BY <1>5, <1>6, <1>7, <1>8 DEF Parts

\* The request hands its nonce over to the session it creates.
LEMMA CreateStep ==
    ASSUME NonceInv, NEW r \in Requests, CreateSession(r)
    PROVE  Parts'
  <1> USE SetsAssumption, TimesAssumption, NullAssumption
      DEF NonceInv, TypeInv, TypeOK, Times
  <1>1. PICK s \in SessionIds :
            /\ sessions[s] = NoValue
            /\ sessions' = [sessions EXCEPT ![s] =
                  [kind |-> req[r].kind, holder |-> Holder(r),
                   nonce |-> req[r].nonce, challenge |-> req[r].challenge]]
    BY DEF CreateSession
  <1>2. /\ req' = [req EXCEPT ![r] = Idle]
        /\ UNCHANGED <<now, tokens, consumed>>
        /\ InFlight(r) /\ req[r].pc = "create"
    BY DEF CreateSession, Finish, accounts
  <1>3. \A t \in SessionIds, n \in Nonces :
            SessionOf(t, n)' => SessionOf(t, n) \/ (t = s /\ Holds(r, n))
    BY <1>1, <1>2 DEF SessionOf, Holds
  <1>4. \A p \in Requests, n \in Nonces : Holds(p, n)' => Holds(p, n) /\ p # r
    BY <1>2 DEF Holds
  <1>5. CarriesValid'
    BY <1>2 DEF CarriesValid
  <1>6. TokenTimes'
    BY <1>2 DEF TokenTimes
  <1>7. SpentRemembered'
    BY <1>2, <1>3, <1>4 DEF SpentRemembered, Spent
  <1>8. OneHolder'
    BY <1>1, <1>2, <1>3, <1>4 DEF OneHolder
  <1> QED BY <1>5, <1>6, <1>7, <1>8 DEF Parts

\* The cleanup forgets a nonce only when no request can carry it any more.
LEMMA CleanupStep ==
    ASSUME NonceInv, CleanupNonces
    PROVE  Parts'
  <1> USE SetsAssumption, TimesAssumption, RetentionAssumption
      DEF NonceInv, TypeInv, TypeOK, Times
  <1>1. UNCHANGED <<now, tokens, sessions, req>>
    BY DEF CleanupNonces, accounts
  <1>2. \A n \in Nonces :
            \/ consumed'[n] = consumed[n]
            \/ /\ consumed'[n] = NoValue
               /\ consumed[n] # NoValue
               /\ consumed[n] + NonceTtl < now
    BY DEF CleanupNonces, Purgeable
  <1>3. \A n \in Nonces :
            consumed[n] # NoValue /\ consumed'[n] = NoValue =>
                tokens[n].exp + MaxLatency <= now
    BY <1>2 DEF TokenTimes, Tokens
  <1>4. \A p \in Requests, n \in Nonces : Holds(p, n)' <=> Holds(p, n)
    BY <1>1 DEF Holds
  <1>5. \A s \in SessionIds, n \in Nonces : SessionOf(s, n)' <=> SessionOf(s, n)
    BY <1>1 DEF SessionOf
  <1>6. CarriesValid'
    BY <1>1 DEF CarriesValid
  <1>7. TokenTimes'
    BY <1>1, <1>2 DEF TokenTimes
  <1>8. SpentRemembered'
    BY <1>1, <1>2, <1>3, <1>4, <1>5 DEF SpentRemembered, Spent
  <1>9. OneHolder'
    BY <1>4, <1>5 DEF OneHolder
  <1> QED BY <1>6, <1>7, <1>8, <1>9 DEF Parts

\* The clock moves only while every request is younger than MaxLatency.
LEMMA TickStep ==
    ASSUME NonceInv, Tick
    PROVE  Parts'
  <1> USE SetsAssumption, TimesAssumption
      DEF NonceInv, TypeInv, TypeOK, Times
  <1>1. UNCHANGED <<tokens, sessions, req, consumed>> /\ now' = now + 1
    BY DEF Tick
  <1>2. CarriesValid'
    BY <1>1 DEF Tick, CarriesValid, RequestRecords
  <1>3. TokenTimes'
    BY <1>1 DEF TokenTimes, Tokens
  <1>4. SpentRemembered'
    BY <1>1 DEF SpentRemembered, Spent, Holds, SessionOf, Tokens
  <1>5. OneHolder'
    BY <1>1 DEF OneHolder, Holds, SessionOf
  <1> QED BY <1>2, <1>3, <1>4, <1>5 DEF Parts

\* A new nonce is nobody's: no request carries it and no row remembers it.
LEMMA IssueStep ==
    ASSUME NonceInv, NEW type \in TargetTypes, NEW a \in Addresses,
           NEW h \in Users \cup {NoValue}, IssueToken(type, a, h),
           UNCHANGED <<now, consumed, sessions>>, RequestsGoOn
    PROVE  Parts'
  <1> DEFINE row == [type |-> type, address |-> a, target |-> h, exp |-> now + Expiration]
  <1>1. PICK n \in Nonces :
            tokens[n] = NoValue /\ tokens' = [tokens EXCEPT ![n] = row]
    BY DEF IssueToken
  <1>2. row \in Tokens
    BY TimesAssumption DEF Tokens, NonceInv, TypeInv, TypeOK, Times
  <1>3. row # NoValue /\ row.exp = now + Expiration
    BY <1>2, NullAssumption
  <1>4. TokensGrow
    <2> HIDE DEF row
    <2> QED BY <1>1, <1>3 DEF TokensGrow, NonceInv, TypeInv, TypeOK
  <1> QED BY <1>4, QuietStep

\* A request that ends gives up the nonce it carries.
LEMMA FinishGoesOn ==
    ASSUME NonceInv, NEW r \in Requests, Finish(r)
    PROVE  RequestsGoOn
  BY DEF RequestsGoOn, Finish, NonceInv, TypeInv, TypeOK, InFlight

\* A request that moves on keeps its nonce and its age.
LEMMA GotoGoesOn ==
    ASSUME NonceInv, NEW r \in Requests, InFlight(r), NEW pc, Goto(r, pc),
           pc \notin {"create", "link"} \/ req[r].nonce = NoValue
    PROVE  RequestsGoOn
  BY DEF RequestsGoOn, Goto, NonceInv, TypeInv, TypeOK, RequestRecords, InFlight

\* The inductive step, one case per handler of the login routes.
LEMMA NonceStep == NonceInv /\ [Next]_vars => NonceInv'
  <1> SUFFICES ASSUME NonceInv, [Next]_vars PROVE Parts'
    BY TypeStep DEF NonceInv, Parts
  <1>q. ASSUME RequestsGoOn, UNCHANGED <<now, tokens, consumed, sessions>>
        PROVE  Parts'
    BY <1>q, QuietStep DEF TokensGrow
  <1>u. ASSUME UNCHANGED req PROVE RequestsGoOn
    BY <1>u DEF RequestsGoOn
  <1>1. ASSUME NEW a \in Addresses, IssueLogin(a) PROVE Parts'
    BY <1>1, <1>u, IssueStep DEF IssueLogin, accounts, NonceInv, TypeInv, TypeOK, TargetTypes
  <1>2. ASSUME NEW a \in Addresses, UnlinkWallet(a) \/ \E u \in Users : GiveWallet(a, u)
        PROVE  Parts'
    BY <1>2, <1>u, <1>q DEF UnlinkWallet, GiveWallet
  <1>3. ASSUME NEW u \in Users, NEW a \in Addresses, IssueAssociation(u, a) PROVE Parts'
    BY <1>3, <1>u, IssueStep DEF IssueAssociation, accounts, TargetTypes
  <1>4. ASSUME NEW t \in MachineTypes, NEW a \in Addresses, IssueMachine(t, a) PROVE Parts'
    BY <1>4, <1>u, IssueStep DEF IssueMachine, accounts, TargetTypes
  <1>5. ASSUME NEW r \in Requests, NEW a \in Addresses, IssueAdminLogin(r, a) PROVE Parts'
    BY <1>5, StartStep DEF IssueAdminLogin, accounts
  <1>6. ASSUME NEW r \in Requests, NEW n \in Nonces, NEW c \in MaybeChallenge,
               StartSiwe(r, n, c) PROVE Parts'
    BY <1>6, StartStep DEF StartSiwe, accounts
  <1>7. ASSUME NEW r \in Requests, NEW u \in Users, NEW c \in MaybeChallenge,
               StartOidc(r, u, c) PROVE Parts'
    BY <1>7, StartStep DEF StartOidc, accounts, AfterUser
  <1>8. ASSUME NEW r \in Requests, NEW t \in MachineTypes, NEW n \in Nonces,
               StartMachine(r, t, n) PROVE Parts'
    BY <1>8, StartStep DEF StartMachine, accounts
  <1>9. ASSUME NEW r \in Requests, NEW u \in Users, NEW n \in Nonces,
               StartAssociate(r, u, n) PROVE Parts'
    BY <1>9, StartStep DEF StartAssociate, accounts
  <1>10. ASSUME NEW r \in Requests, RequestStep(r) PROVE Parts'
    <2> USE FinishGoesOn DEF accounts
    <2>1. CASE EnsureAdminWalletUser(r)
      BY <2>1, IssueStep
      DEF EnsureAdminWalletUser, WinnerUser, NonceInv, TypeInv, TypeOK, TargetTypes,
          RequestsOK, RequestOK
    <2>2. CASE FindUser(r)
      <3>1. RequestsGoOn
        BY <2>2 DEF FindUser, AfterUser, RequestsGoOn, NonceInv, TypeInv, TypeOK,
                    RequestRecords
      <3> QED BY <2>2, <3>1, <1>q DEF FindUser
    <2>3. CASE MfaNotEnrolled(r)
      <3>1. AfterMfa(r) = "consume" \/ req[r].nonce = NoValue
        BY <2>3 DEF MfaNotEnrolled, AfterMfa, NonceInv, TypeInv, RequestsOK, RequestOK
      <3> QED BY <2>3, <3>1, GotoGoesOn, <1>q DEF MfaNotEnrolled
    <2>4. CASE MfaChallenge(r)
      BY <2>4, <1>q DEF MfaChallenge
    <2>5. CASE MfaAssertion(r)
      BY <2>5, GotoGoesOn, <1>q DEF MfaAssertion
    <2>6. CASE ReadChallenge(r)
      BY <2>6, GotoGoesOn, <1>q DEF ReadChallenge
    <2>7. CASE MarkChallenge(r)
      <3>1. AfterMfa(r) = "consume" \/ req[r].nonce = NoValue
        BY <2>7 DEF MarkChallenge, AfterMfa, NonceInv, TypeInv, RequestsOK, RequestOK
      <3>2. RequestsGoOn
        BY <2>7, <3>1 DEF MarkChallenge, RequestsGoOn, NonceInv, TypeInv, TypeOK,
                          RequestRecords
      <3> QED BY <2>7, <3>2, <1>q DEF MarkChallenge
    <2>8. CASE ConsumeNonce(r)
      <3>1. CASE consumed[req[r].nonce] = NoValue
        BY <2>8, <3>1, ConsumeStep
      <3>2. CASE consumed[req[r].nonce] # NoValue
        BY <2>8, <3>2, <1>q DEF ConsumeNonce
      <3> QED BY <3>1, <3>2
    <2>9. CASE CreateSession(r)
      BY <2>9, CreateStep
    <2>10. CASE LinkWallet(r)
      BY <2>10, <1>q DEF LinkWallet
    <2>11. CASE Abort(r)
      BY <2>11, <1>q DEF Abort
    <2> QED BY <1>10, <2>1, <2>2, <2>3, <2>4, <2>5, <2>6, <2>7, <2>8, <2>9,
               <2>10, <2>11 DEF RequestStep
  <1>11. ASSUME NEW u \in Users, ChangeRole(u) \/ ChangePasskeys(u) PROVE Parts'
    BY <1>11, <1>u, <1>q DEF ChangeRole, ChangePasskeys
  <1>12. CASE CleanupNonces
    BY <1>12, CleanupStep
  <1>13. CASE Tick
    BY <1>13, TickStep
  <1>14. CASE UNCHANGED vars
    BY <1>14, <1>u, <1>q DEF vars
  <1> QED BY <1>1, <1>2, <1>3, <1>4, <1>5, <1>6, <1>7, <1>8, <1>9, <1>10, <1>11,
             <1>12, <1>13, <1>14 DEF Next

\* The main result: a SIWE nonce is exchanged for at most one session, for any
\* number of requests, routes and cleanup runs.
THEOREM NonceSingleUse == Spec => []OneSessionPerNonce
  <1>1. NonceInv => OneSessionPerNonce
    <2> SUFFICES ASSUME NonceInv, NEW s \in SessionIds, NEW t \in SessionIds,
                        sessions[s] # NoValue, sessions[t] # NoValue,
                        sessions[s].nonce # NoValue,
                        sessions[s].nonce = sessions[t].nonce
                 PROVE  s = t
      BY DEF OneSessionPerNonce
    <2>1. sessions[s].nonce \in Nonces
      BY DEF NonceInv, TypeInv, TypeOK, SessionRows
    <2> QED BY <2>1 DEF NonceInv, OneHolder, SessionOf
  <1> QED BY NonceInit, NonceStep, <1>1, PTL DEF Spec

-----------------------------------------------------------------------------
(* The owner of the session.  The argument: a bound token names its user   *)
(* from its creation on, a login takes the user from the token once, and   *)
(* neither the token nor the user of the request changes afterwards.       *)

\* The token of a login request, or of a session, is there, and if it is bound
\* the user is the one it names.
BoundTo(n, u) ==
    /\ n \in Nonces
    /\ tokens[n] # NoValue
    /\ tokens[n].target # NoValue => u = tokens[n].target

OwnerInv ==
    /\ \A n \in Nonces :
          /\ tokens[n] # NoValue
          /\ tokens[n].type = "user"
          /\ tokens[n].address \in AdminWallets
          => tokens[n].target # NoValue
    /\ \A r \in Requests :
          InFlight(r) /\ req[r].kind = "siwe" =>
             IF At(r, "find_user") THEN req[r].user = NoValue /\ tokens[req[r].nonce] # NoValue
                                   ELSE BoundTo(req[r].nonce, req[r].user)
    /\ \A s \in SessionIds :
          sessions[s] # NoValue /\ sessions[s].kind = "siwe" =>
             BoundTo(sessions[s].nonce, sessions[s].holder)

\* What most steps do to the login requests: they end, or go on for the same
\* user with the same nonce and the same passkey challenge.
LoginsGoOn ==
    \A r \in Requests :
        InFlight(r)' =>
            /\ InFlight(r)
            /\ req'[r].kind = req[r].kind
            /\ req'[r].nonce = req[r].nonce
            /\ req'[r].user = req[r].user
            /\ req'[r].pc = "find_user" <=> req[r].pc = "find_user"

TokensStay == \A n \in Nonces : tokens[n] # NoValue => tokens'[n] = tokens[n]

\* Nobody logs in at the start.
LEMMA OwnerInit == Init => OwnerInv
  BY DEF Init, OwnerInv

\* A step that neither hands out a token nor creates a session.
LEMMA OwnerQuiet ==
    ASSUME TypeInv, OwnerInv, LoginsGoOn, UNCHANGED <<tokens, sessions>>
    PROVE  OwnerInv'
  BY DEF OwnerInv, LoginsGoOn, BoundTo

\* A request starts.
LEMMA OwnerStart ==
    ASSUME TypeInv, OwnerInv, NEW r \in Requests, ~InFlight(r),
           NEW pc, NEW kind, NEW n, NEW a, NEW u, NEW c,
           Start(r, pc, kind, n, a, u, c),
           kind = "siwe" => /\ pc = "find_user" /\ u = NoValue
                            /\ n \in Nonces /\ tokens[n] # NoValue,
           UNCHANGED <<tokens, sessions>>
    PROVE  OwnerInv'
  BY DEF OwnerInv, BoundTo, Start, TypeInv, TypeOK

\* A token is handed out.
LEMMA OwnerIssue ==
    ASSUME TypeInv, OwnerInv, NEW type \in TargetTypes, NEW a \in Addresses,
           NEW h \in Users \cup {NoValue}, IssueToken(type, a, h),
           type = "user" /\ a \in AdminWallets => h # NoValue,
           UNCHANGED sessions, LoginsGoOn
    PROVE  OwnerInv'
  <1> DEFINE row == [type |-> type, address |-> a, target |-> h, exp |-> now + Expiration]
  <1>1. PICK n \in Nonces :
            tokens[n] = NoValue /\ tokens' = [tokens EXCEPT ![n] = row]
    BY DEF IssueToken
  <1>2. /\ \A m \in Nonces : m # n => tokens'[m] = tokens[m]
        /\ tokens'[n] = row
    BY <1>1 DEF TypeInv, TypeOK
  <1>3. TokensStay
    BY <1>1, <1>2 DEF TokensStay
  <1>4. row.type = type /\ row.address = a /\ row.target = h
    OBVIOUS
  <1>5. \A r \in Requests : InFlight(r) /\ req[r].kind = "siwe" => req[r].nonce \in Nonces
    BY DEF TypeInv, RequestsOK, RequestOK
  <1> HIDE DEF row
  <1>6. \A m \in Nonces :
          /\ tokens'[m] # NoValue
          /\ tokens'[m].type = "user"
          /\ tokens'[m].address \in AdminWallets
          => tokens'[m].target # NoValue
    BY <1>2, <1>4 DEF OwnerInv
  <1>7. \A m \in Nonces, u \in Users \cup Addresses \cup {NoValue} :
          BoundTo(m, u) => BoundTo(m, u)'
    BY <1>3 DEF BoundTo, TokensStay
  <1>8. \A r \in Requests :
          InFlight(r)' /\ req'[r].kind = "siwe" =>
             IF At(r, "find_user")'
               THEN req'[r].user = NoValue /\ tokens'[req'[r].nonce] # NoValue
               ELSE BoundTo(req[r].nonce, req[r].user)'
    BY <1>3, <1>5 DEF OwnerInv, LoginsGoOn, TokensStay, BoundTo
  <1>9. \A s \in SessionIds :
          sessions'[s] # NoValue /\ sessions'[s].kind = "siwe" =>
             BoundTo(sessions[s].nonce, sessions[s].holder)'
    BY <1>3 DEF OwnerInv, TokensStay, BoundTo
  <1> QED BY <1>6, <1>8, <1>9 DEF OwnerInv

\* A request ends.
LEMMA FinishKeepsLogins ==
    ASSUME TypeInv, NEW r \in Requests, Finish(r)
    PROVE  LoginsGoOn
  BY DEF LoginsGoOn, Finish, TypeInv, TypeOK

\* A request moves on with what it knows.
LEMMA GotoKeepsLogins ==
    ASSUME TypeInv, NEW r \in Requests, InFlight(r), NEW pc, Goto(r, pc),
           pc # "find_user", req[r].pc # "find_user"
    PROVE  LoginsGoOn
  BY DEF LoginsGoOn, Goto, TypeInv, TypeOK, RequestRecords

\* The inductive step, one case per handler.
LEMMA OwnerStep == TypeInv /\ OwnerInv /\ [Next]_vars => OwnerInv'
  <1> SUFFICES ASSUME TypeInv, OwnerInv, [Next]_vars PROVE OwnerInv' OBVIOUS
  <1> USE SetsAssumption DEF accounts
  <1>u. ASSUME UNCHANGED req PROVE LoginsGoOn
    BY <1>u DEF LoginsGoOn
  <1>1. ASSUME NEW a \in Addresses, IssueLogin(a) PROVE OwnerInv'
    BY <1>1, <1>u, OwnerIssue DEF IssueLogin, TypeInv, TypeOK, TargetTypes
  <1>2. ASSUME NEW a \in Addresses, UnlinkWallet(a) \/ \E u \in Users : GiveWallet(a, u)
        PROVE  OwnerInv'
    BY <1>2, <1>u, OwnerQuiet DEF UnlinkWallet, GiveWallet
  <1>3. ASSUME NEW u \in Users, NEW a \in Addresses, IssueAssociation(u, a) PROVE OwnerInv'
    BY <1>3, <1>u, OwnerIssue DEF IssueAssociation, TargetTypes
  <1>4. ASSUME NEW t \in MachineTypes, NEW a \in Addresses, IssueMachine(t, a) PROVE OwnerInv'
    BY <1>4, <1>u, OwnerIssue DEF IssueMachine, TargetTypes
  <1>5. ASSUME NEW r \in Requests, NEW a \in Addresses, IssueAdminLogin(r, a) PROVE OwnerInv'
    BY <1>5, OwnerStart DEF IssueAdminLogin
  <1>6. ASSUME NEW r \in Requests, NEW n \in Nonces, NEW c \in MaybeChallenge,
               StartSiwe(r, n, c) PROVE OwnerInv'
    BY <1>6, OwnerStart DEF StartSiwe, TokenValid
  <1>7. ASSUME NEW r \in Requests, NEW u \in Users, NEW c \in MaybeChallenge,
               StartOidc(r, u, c) PROVE OwnerInv'
    BY <1>7, OwnerStart DEF StartOidc
  <1>8. ASSUME NEW r \in Requests, NEW t \in MachineTypes, NEW n \in Nonces,
               StartMachine(r, t, n) PROVE OwnerInv'
    BY <1>8, OwnerStart DEF StartMachine
  <1>9. ASSUME NEW r \in Requests, NEW u \in Users, NEW n \in Nonces,
               StartAssociate(r, u, n) PROVE OwnerInv'
    BY <1>9, OwnerStart DEF StartAssociate
  <1>10. ASSUME NEW r \in Requests, RequestStep(r) PROVE OwnerInv'
    <2> USE FinishKeepsLogins, GotoKeepsLogins, OwnerQuiet
    <2>1. CASE EnsureAdminWalletUser(r)
      BY <2>1, OwnerIssue
      DEF EnsureAdminWalletUser, WinnerUser, TypeInv, TypeOK, TargetTypes, RequestsOK, RequestOK
    <2>2. CASE FindUser(r)
      <3> DEFINE u == TokenUser(req[r].nonce)
      <3>1. CASE u \notin users
        BY <2>2, <3>1 DEF FindUser
      <3>2. CASE u \in users
        <4>1. /\ req' = [req EXCEPT ![r].user = u, ![r].pc = AfterUser(u, "consume")]
              /\ UNCHANGED <<tokens, sessions>>
              /\ InFlight(r) /\ req[r].pc = "find_user" /\ req[r].kind = "siwe"
              /\ req[r] \in RequestRecords /\ req[r].nonce \in Nonces
          BY <2>2, <3>2 DEF FindUser, TypeInv, TypeOK, RequestsOK, RequestOK
        <4>2. BoundTo(req[r].nonce, u)
          BY <4>1 DEF OwnerInv, BoundTo, TokenUser
        <4> HIDE DEF u
        <4>3. req'[r].pc \in {"mfa", "consume"}
          BY <4>1 DEF AfterUser, TypeInv, TypeOK, RequestRecords
        <4>4. req'[r].nonce = req[r].nonce /\ req'[r].user = u
          BY <4>1 DEF TypeInv, TypeOK, RequestRecords
        <4>5. \A q \in Requests : q # r => req'[q] = req[q]
          BY <4>1 DEF TypeInv, TypeOK
        <4>6. \A q \in Requests :
                InFlight(q)' /\ req'[q].kind = "siwe" =>
                   IF At(q, "find_user")'
                     THEN req'[q].user = NoValue /\ tokens'[req'[q].nonce] # NoValue
                     ELSE BoundTo(req[q].nonce, req[q].user)'
          <5> SUFFICES ASSUME NEW q \in Requests, InFlight(q)', req'[q].kind = "siwe"
                       PROVE  IF At(q, "find_user")'
                                THEN req'[q].user = NoValue /\ tokens'[req'[q].nonce] # NoValue
                                ELSE BoundTo(req[q].nonce, req[q].user)'
            OBVIOUS
          <5>1. CASE q = r
            BY <5>1, <4>1, <4>2, <4>3, <4>4 DEF BoundTo
          <5>2. CASE q # r
            <6>1. req'[q] = req[q] /\ tokens' = tokens
              BY <5>2, <4>1, <4>5
            <6>2. IF At(q, "find_user")
                    THEN req[q].user = NoValue /\ tokens[req[q].nonce] # NoValue
                    ELSE BoundTo(req[q].nonce, req[q].user)
              BY <6>1 DEF OwnerInv
            <6> QED BY <6>1, <6>2 DEF BoundTo
          <5> QED BY <5>1, <5>2
        <4> QED BY <4>1, <4>6 DEF OwnerInv, BoundTo
      <3> QED BY <3>1, <3>2
    <2>3. CASE MfaNotEnrolled(r)
      BY <2>3 DEF MfaNotEnrolled, AfterMfa
    <2>4. CASE MfaChallenge(r)
      BY <2>4 DEF MfaChallenge
    <2>5. CASE MfaAssertion(r)
      BY <2>5 DEF MfaAssertion
    <2>6. CASE ReadChallenge(r)
      BY <2>6 DEF ReadChallenge
    <2>7. CASE MarkChallenge(r)
      <3>1. LoginsGoOn
        BY <2>7 DEF MarkChallenge, AfterMfa, LoginsGoOn, TypeInv, TypeOK, RequestRecords
      <3> QED BY <2>7, <3>1 DEF MarkChallenge
    <2>8. CASE ConsumeNonce(r)
      BY <2>8 DEF ConsumeNonce, AfterConsume
    <2>9. CASE CreateSession(r)
      <3>1. PICK s \in SessionIds :
              /\ sessions[s] = NoValue
              /\ sessions' = [sessions EXCEPT ![s] =
                    [kind |-> req[r].kind, holder |-> Holder(r),
                     nonce |-> req[r].nonce, challenge |-> req[r].challenge]]
        BY <2>9 DEF CreateSession
      <3>2. /\ InFlight(r) /\ req[r].pc = "create"
            /\ UNCHANGED tokens
            /\ LoginsGoOn
        BY <2>9 DEF CreateSession
      <3>3. req[r].kind = "siwe" => BoundTo(req[r].nonce, Holder(r))
        BY <3>2 DEF OwnerInv, Holder
      <3>4. \A t \in SessionIds :
              sessions'[t] # NoValue /\ sessions'[t].kind = "siwe" =>
                 BoundTo(sessions'[t].nonce, sessions'[t].holder)
        BY <3>1, <3>3 DEF OwnerInv, TypeInv, TypeOK
      <3> QED BY <3>2, <3>4 DEF OwnerInv, LoginsGoOn, BoundTo
    <2>10. CASE LinkWallet(r)
      BY <2>10 DEF LinkWallet
    <2>11. CASE Abort(r)
      BY <2>11 DEF Abort
    <2> QED BY <1>10, <2>1, <2>2, <2>3, <2>4, <2>5, <2>6, <2>7, <2>8, <2>9,
               <2>10, <2>11 DEF RequestStep
  <1>11. ASSUME NEW u \in Users, ChangeRole(u) \/ ChangePasskeys(u) PROVE OwnerInv'
    BY <1>11, <1>u, OwnerQuiet DEF ChangeRole, ChangePasskeys
  <1>12. CASE CleanupNonces
    BY <1>12, <1>u, OwnerQuiet DEF CleanupNonces
  <1>13. CASE Tick
    BY <1>13, <1>u, OwnerQuiet DEF Tick
  <1>14. CASE UNCHANGED vars
    BY <1>14, <1>u, OwnerQuiet DEF vars
  <1> QED BY <1>1, <1>2, <1>3, <1>4, <1>5, <1>6, <1>7, <1>8, <1>9, <1>10, <1>11,
             <1>12, <1>13, <1>14 DEF Next

\* The session of a bound challenge is its user's, whatever becomes of the
\* wallet between the challenge and the login, and an admin wallet's challenge
\* is always bound.
THEOREM BoundUserLogsIn == Spec => []SessionOfBoundUser
  <1>1. OwnerInv => SessionOfBoundUser
    BY DEF OwnerInv, SessionOfBoundUser, BoundTo
  <1> QED BY InitType, TypeStep, OwnerInit, OwnerStep, <1>1, PTL DEF Spec

-----------------------------------------------------------------------------
(* The passkey challenge.  The argument: marking a challenge used is one   *)
(* statement that succeeds once, and the request that succeeded carries    *)
(* the challenge to the one session it creates.                            *)

\* The challenge was answered, by this user and for this nonce.
AnsweredBy(c, kind, u, n) ==
    /\ c \in Challenges
    /\ challenges[c] # NoValue
    /\ challenges[c].used
    /\ challenges[c].user = u
    /\ kind \in {"siwe", "oidc"}
    /\ kind = "siwe" => challenges[c].linked = n

HoldsAnswer(r, c) == InFlight(r) /\ req[r].challenge = c
BackedBy(s, c) == sessions[s] # NoValue /\ sessions[s].challenge = c

AnswersOK ==
    /\ \A r \in Requests :
          InFlight(r) /\ req[r].challenge # NoValue =>
             /\ req[r].pc \in {"consume", "create"}
             /\ AnsweredBy(req[r].challenge, req[r].kind, req[r].user, req[r].nonce)
    /\ \A r \in Requests :
          InFlight(r) /\ req[r].pc = "mark" =>
             challenges[req[r].assertion].user = req[r].user
    /\ \A s \in SessionIds :
          sessions[s] # NoValue /\ sessions[s].challenge # NoValue =>
             AnsweredBy(sessions[s].challenge, sessions[s].kind, sessions[s].holder,
                        sessions[s].nonce)

\* At most one session or request has an answered challenge.
OneAnswer ==
    \A c \in Challenges :
        /\ \A s, t \in SessionIds : BackedBy(s, c) /\ BackedBy(t, c) => s = t
        /\ \A r, q \in Requests : HoldsAnswer(r, c) /\ HoldsAnswer(q, c) => r = q
        /\ \A r \in Requests, s \in SessionIds : ~(HoldsAnswer(r, c) /\ BackedBy(s, c))

AnswerInv == AnswersOK /\ OneAnswer

\* No challenge is answered at the start.
LEMMA AnswerInit == Init => AnswerInv
  BY DEF Init, AnswerInv, AnswersOK, OneAnswer, HoldsAnswer, BackedBy

\* What most steps do: requests end or go on with what they know, or begin a
\* second factor anew; challenges are added, and used ones stay as they are.
AnswersGoOn ==
    \A r \in Requests :
        InFlight(r)' =>
            \/ /\ InFlight(r)
               /\ req'[r].challenge = req[r].challenge
               /\ req'[r].kind = req[r].kind
               /\ req'[r].nonce = req[r].nonce
               /\ req[r].challenge # NoValue =>
                     /\ req'[r].user = req[r].user
                     /\ req'[r].pc \in {"consume", "create"}
               /\ req'[r].pc = "mark" =>
                     /\ req[r].pc = "mark"
                     /\ req'[r].user = req[r].user
                     /\ req'[r].assertion = req[r].assertion
            \/ /\ req'[r].challenge = NoValue
               /\ req'[r].pc # "mark"

ChallengesGrow ==
    \A c \in Challenges :
        challenges[c] # NoValue =>
            /\ challenges'[c] # NoValue
            /\ challenges'[c].user = challenges[c].user
            /\ challenges'[c].linked = challenges[c].linked
            /\ challenges[c].used => challenges'[c].used

\* A step that answers no challenge and creates no session.
LEMMA AnswerQuiet ==
    ASSUME TypeInv, AnswerInv, AnswersGoOn, ChallengesGrow, UNCHANGED sessions
    PROVE  AnswerInv'
  <1>m. \A r \in Requests : InFlight(r) /\ req[r].pc = "mark" =>
           /\ req[r].assertion \in Challenges
           /\ challenges[req[r].assertion] # NoValue
    BY DEF TypeInv, RequestsOK, RequestOK
  <1>a. \A c \in Challenges :
           \A kind \in Kinds, u \in Users \cup Addresses \cup {NoValue},
              n \in Nonces \cup {NoValue} :
              AnsweredBy(c, kind, u, n) => AnsweredBy(c, kind, u, n)'
    BY DEF AnsweredBy, ChallengesGrow
  <1>1. \A r \in Requests :
          InFlight(r)' /\ req'[r].challenge # NoValue =>
             /\ req'[r].pc \in {"consume", "create"}
             /\ AnsweredBy(req[r].challenge, req[r].kind, req[r].user, req[r].nonce)'
    <2> SUFFICES ASSUME NEW r \in Requests, InFlight(r)', req'[r].challenge # NoValue
                 PROVE  /\ req'[r].pc \in {"consume", "create"}
                        /\ AnsweredBy(req[r].challenge, req[r].kind, req[r].user,
                                      req[r].nonce)'
      OBVIOUS
    <2>1. /\ InFlight(r)
          /\ req'[r].challenge = req[r].challenge
          /\ req'[r].kind = req[r].kind
          /\ req'[r].nonce = req[r].nonce
          /\ req'[r].user = req[r].user
          /\ req'[r].pc \in {"consume", "create"}
      BY DEF AnswersGoOn
    <2>2. AnsweredBy(req[r].challenge, req[r].kind, req[r].user, req[r].nonce)
      BY <2>1 DEF AnswerInv, AnswersOK
    <2> QED BY <2>1, <2>2 DEF AnsweredBy, ChallengesGrow
  <1>2. \A r \in Requests :
          InFlight(r)' /\ req'[r].pc = "mark" =>
             challenges'[req'[r].assertion].user = req'[r].user
    BY <1>m DEF AnswersGoOn, AnswerInv, AnswersOK, ChallengesGrow
  <1>3. \A s \in SessionIds :
          sessions'[s] # NoValue /\ sessions'[s].challenge # NoValue =>
             AnsweredBy(sessions[s].challenge, sessions[s].kind, sessions[s].holder,
                        sessions[s].nonce)'
    BY DEF AnswerInv, AnswersOK, AnsweredBy, ChallengesGrow
  <1>4. AnswersOK'
    BY <1>1, <1>2, <1>3 DEF AnswersOK
  <1>5. \A r \in Requests, c \in Challenges : HoldsAnswer(r, c)' => HoldsAnswer(r, c)
    BY SetsAssumption DEF HoldsAnswer, AnswersGoOn
  <1>6. \A s \in SessionIds, c \in Challenges : BackedBy(s, c)' <=> BackedBy(s, c)
    BY DEF BackedBy
  <1>7. OneAnswer'
    BY <1>5, <1>6 DEF AnswerInv, OneAnswer
  <1> QED BY <1>4, <1>7 DEF AnswerInv

\* A request starts without an answered challenge.
LEMMA AnswerStart ==
    ASSUME TypeInv, AnswerInv, NEW r \in Requests, NEW pc, NEW kind, NEW n, NEW a, NEW u, NEW c,
           Start(r, pc, kind, n, a, u, c), pc # "mark"
    PROVE  AnswersGoOn
  BY DEF AnswerInv, AnswersOK, AnswersGoOn, Start, TypeInv, TypeOK

\* A request ends.
LEMMA AnswerFinish ==
    ASSUME TypeInv, AnswerInv, NEW r \in Requests, Finish(r)
    PROVE  AnswersGoOn
  BY DEF AnswerInv, AnswersOK, AnswersGoOn, Finish, TypeInv, TypeOK

\* A request moves on, with its answer only towards the session.
LEMMA AnswerGoto ==
    ASSUME TypeInv, AnswerInv, NEW r \in Requests, InFlight(r), NEW pc, Goto(r, pc),
           pc # "mark", req[r].challenge # NoValue => pc \in {"consume", "create"}
    PROVE  AnswersGoOn
  BY DEF AnswerInv, AnswersOK, AnswersGoOn, Goto, TypeInv, TypeOK, RequestRecords

\* The row the request read is its user's.
LEMMA MarkableRead ==
    ASSUME TypeInv, AnswerInv, NEW r \in Requests, InFlight(r), req[r].challenge = NoValue,
           ChallengeAccepted(req[r].assertion, req[r].user), Goto(r, "mark"),
           UNCHANGED <<challenges, sessions>>
    PROVE  AnswerInv'
  <1>1. /\ req'[r].challenge = NoValue
        /\ req'[r].user = req[r].user
        /\ req'[r].assertion = req[r].assertion
        /\ \A q \in Requests : q # r => req'[q] = req[q]
    BY DEF Goto, TypeInv, TypeOK, RequestRecords
  <1>2. challenges[req[r].assertion].user = req[r].user
    BY DEF ChallengeAccepted
  <1>3. AnswersOK'
    BY <1>1, <1>2 DEF AnswerInv, AnswersOK, AnsweredBy
  <1>4. OneAnswer'
    BY <1>1, SetsAssumption DEF AnswerInv, OneAnswer, HoldsAnswer, BackedBy
  <1> QED BY <1>3, <1>4 DEF AnswerInv

\* The successful update: the challenge becomes the request's alone.
LEMMA MarkStep ==
    ASSUME TypeInv, AnswerInv, NEW r \in Requests, InFlight(r), req[r].pc = "mark",
           NEW c, c = req[r].assertion,
           Markable(c), LinkMatches(r, c),
           challenges' = [challenges EXCEPT ![c].used = TRUE],
           req' = [req EXCEPT ![r].pc = AfterMfa(r), ![r].challenge = c],
           UNCHANGED sessions, ChallengesGrow
    PROVE  AnswerInv'
  <1> USE SetsAssumption
  <1>1. /\ c \in Challenges /\ challenges[c] # NoValue
        /\ req[r] \in RequestRecords
        /\ challenges[c] \in ChallengeRows
        /\ req[r].kind \in {"siwe", "oidc"}
    BY DEF TypeInv, TypeOK, RequestsOK, RequestOK
  <1>2. /\ req'[r].challenge = c
        /\ req'[r].kind = req[r].kind
        /\ req'[r].user = req[r].user
        /\ req'[r].nonce = req[r].nonce
        /\ req'[r].pc \in {"consume", "create"}
        /\ \A q \in Requests : q # r => req'[q] = req[q]
    BY <1>1 DEF AfterMfa, TypeInv, TypeOK, RequestRecords
  <1>3. /\ challenges'[c].used
        /\ challenges'[c].user = req[r].user
        /\ req[r].kind = "siwe" => challenges'[c].linked = req[r].nonce
        /\ challenges'[c] # NoValue
    <2>1. challenges'[c] = [challenges[c] EXCEPT !.used = TRUE]
      BY <1>1 DEF TypeInv, TypeOK
    <2>2. challenges[c].user = req[r].user
      BY DEF AnswerInv, AnswersOK
    <2>3. challenges'[c] # NoValue
      BY <1>1 DEF ChallengesGrow
    <2> QED BY <1>1, <2>1, <2>2, <2>3 DEF LinkMatches, ChallengeRows
  <1>4. AnsweredBy(req[r].challenge, req[r].kind, req[r].user, req[r].nonce)'
    BY <1>1, <1>2, <1>3 DEF AnsweredBy
  <1>5. /\ \A q \in Requests : ~HoldsAnswer(q, c)
        /\ \A s \in SessionIds : ~BackedBy(s, c)
    BY <1>1 DEF AnswerInv, AnswersOK, AnsweredBy, HoldsAnswer, BackedBy, Markable
  <1>6. \A q \in Requests :
          InFlight(q)' /\ req'[q].challenge # NoValue =>
             /\ req'[q].pc \in {"consume", "create"}
             /\ AnsweredBy(req[q].challenge, req[q].kind, req[q].user, req[q].nonce)'
    <2> SUFFICES ASSUME NEW q \in Requests, InFlight(q)', req'[q].challenge # NoValue
                 PROVE  /\ req'[q].pc \in {"consume", "create"}
                        /\ AnsweredBy(req[q].challenge, req[q].kind, req[q].user,
                                      req[q].nonce)'
      OBVIOUS
    <2>1. CASE q = r
      BY <2>1, <1>2, <1>4
    <2>2. CASE q # r
      <3>1. req'[q] = req[q] /\ InFlight(q)
        BY <2>2, <1>2
      <3>2. /\ req[q].pc \in {"consume", "create"}
            /\ AnsweredBy(req[q].challenge, req[q].kind, req[q].user, req[q].nonce)
        BY <3>1 DEF AnswerInv, AnswersOK
      <3> QED BY <3>1, <3>2 DEF AnsweredBy, ChallengesGrow
    <2> QED BY <2>1, <2>2
  <1>7. \A q \in Requests :
          InFlight(q)' /\ req'[q].pc = "mark" =>
             challenges'[req'[q].assertion].user = req'[q].user
    <2> SUFFICES ASSUME NEW q \in Requests, InFlight(q)', req'[q].pc = "mark"
                 PROVE  challenges'[req'[q].assertion].user = req'[q].user
      OBVIOUS
    <2>1. req'[q] = req[q] /\ InFlight(q)
      BY <1>2
    <2>2. /\ req[q].assertion \in Challenges
          /\ challenges[req[q].assertion] # NoValue
          /\ challenges[req[q].assertion].user = req[q].user
      BY <2>1 DEF AnswerInv, AnswersOK, TypeInv, RequestsOK, RequestOK
    <2> QED BY <2>1, <2>2 DEF ChallengesGrow
  <1>8. \A s \in SessionIds :
          sessions'[s] # NoValue /\ sessions'[s].challenge # NoValue =>
             AnsweredBy(sessions[s].challenge, sessions[s].kind, sessions[s].holder,
                        sessions[s].nonce)'
    BY DEF AnswerInv, AnswersOK, AnsweredBy, ChallengesGrow
  <1>9. AnswersOK'
    BY <1>6, <1>7, <1>8 DEF AnswersOK
  <1>10. \A q \in Requests, d \in Challenges :
            HoldsAnswer(q, d)' => HoldsAnswer(q, d) \/ (q = r /\ d = c)
    BY <1>2 DEF HoldsAnswer
  <1>11. \A s \in SessionIds, d \in Challenges : BackedBy(s, d)' <=> BackedBy(s, d)
    BY DEF BackedBy
  <1>12. OneAnswer'
    <2>1. OneAnswer
      BY DEF AnswerInv
    <2>2. \A d \in Challenges, q \in Requests, p \in Requests :
             HoldsAnswer(q, d)' /\ HoldsAnswer(p, d)' => q = p
      BY <2>1, <1>5, <1>10 DEF OneAnswer
    <2>3. \A d \in Challenges, q \in Requests, s \in SessionIds :
             ~(HoldsAnswer(q, d)' /\ BackedBy(s, d)')
      BY <2>1, <1>5, <1>10, <1>11 DEF OneAnswer
    <2> QED BY <2>1, <2>2, <2>3, <1>11 DEF OneAnswer
  <1> QED BY <1>9, <1>12 DEF AnswerInv

\* The request hands the challenge over to the session it creates.
LEMMA AnswerCreate ==
    ASSUME TypeInv, AnswerInv, NEW r \in Requests, CreateSession(r)
    PROVE  AnswerInv'
  <1> USE SetsAssumption DEF accounts
  <1>1. PICK s \in SessionIds :
            /\ sessions[s] = NoValue
            /\ sessions' = [sessions EXCEPT ![s] =
                  [kind |-> req[r].kind, holder |-> Holder(r),
                   nonce |-> req[r].nonce, challenge |-> req[r].challenge]]
    BY DEF CreateSession
  <1>2. /\ req' = [req EXCEPT ![r] = Idle]
        /\ UNCHANGED challenges
        /\ InFlight(r) /\ req[r].pc = "create"
    BY DEF CreateSession, Finish
  <1>3. /\ sessions'[s].kind = req[r].kind
        /\ sessions'[s].holder = Holder(r)
        /\ sessions'[s].nonce = req[r].nonce
        /\ sessions'[s].challenge = req[r].challenge
        /\ \A t \in SessionIds : t # s => sessions'[t] = sessions[t]
    BY <1>1 DEF TypeInv, TypeOK
  <1>4. /\ ~InFlight(r)'
        /\ \A q \in Requests : q # r => req'[q] = req[q]
    BY <1>2 DEF TypeInv, TypeOK
  <1>5. req[r].challenge # NoValue =>
           AnsweredBy(req[r].challenge, req[r].kind, Holder(r), req[r].nonce)
    BY <1>2 DEF AnswerInv, AnswersOK, Holder, AnsweredBy
  <1>6. \A t \in SessionIds :
          sessions'[t] # NoValue /\ sessions'[t].challenge # NoValue =>
             AnsweredBy(sessions[t].challenge, sessions[t].kind, sessions[t].holder,
                        sessions[t].nonce)'
    BY <1>2, <1>3, <1>5 DEF AnswerInv, AnswersOK, AnsweredBy
  <1>7. AnswersOK'
    BY <1>2, <1>4, <1>6 DEF AnswerInv, AnswersOK, AnsweredBy
  <1>8. \A q \in Requests, c \in Challenges : HoldsAnswer(q, c)' => HoldsAnswer(q, c) /\ q # r
    BY <1>4 DEF HoldsAnswer
  <1>9. \A t \in SessionIds, c \in Challenges :
           BackedBy(t, c)' => BackedBy(t, c) \/ (t = s /\ HoldsAnswer(r, c))
    BY <1>2, <1>3 DEF BackedBy, HoldsAnswer
  <1>10. \A c \in Challenges : ~BackedBy(s, c)
    BY <1>1 DEF BackedBy
  <1>11. OneAnswer'
    BY <1>8, <1>9, <1>10 DEF AnswerInv, OneAnswer
  <1> QED BY <1>7, <1>11 DEF AnswerInv

\* The inductive step, one case per handler.
LEMMA AnswerStep == TypeInv /\ AnswerInv /\ [Next]_vars => AnswerInv'
  <1> SUFFICES ASSUME TypeInv, AnswerInv, [Next]_vars PROVE AnswerInv' OBVIOUS
  <1> USE DEF accounts
  <1>u. ASSUME UNCHANGED req PROVE AnswersGoOn
    BY <1>u DEF AnswersGoOn, AnswerInv, AnswersOK
  <1>c. ASSUME UNCHANGED challenges PROVE ChallengesGrow
    BY <1>c DEF ChallengesGrow
  <1>q. ASSUME AnswersGoOn, UNCHANGED <<challenges, sessions>> PROVE AnswerInv'
    BY <1>q, <1>c, AnswerQuiet
  <1>1. ASSUME NEW a \in Addresses,
               \/ IssueLogin(a) \/ UnlinkWallet(a)
               \/ \E u \in Users : IssueAssociation(u, a) \/ GiveWallet(a, u)
               \/ \E t \in MachineTypes : IssueMachine(t, a)
        PROVE  AnswerInv'
    BY <1>1, <1>u, <1>q DEF IssueLogin, UnlinkWallet, IssueAssociation, GiveWallet, IssueMachine
  <1>5. ASSUME NEW r \in Requests, NEW a \in Addresses, IssueAdminLogin(r, a) PROVE AnswerInv'
    BY <1>5, <1>q, AnswerStart DEF IssueAdminLogin
  <1>6. ASSUME NEW r \in Requests, NEW n \in Nonces, NEW c \in MaybeChallenge,
               StartSiwe(r, n, c) PROVE AnswerInv'
    BY <1>6, <1>q, AnswerStart DEF StartSiwe
  <1>7. ASSUME NEW r \in Requests, NEW u \in Users, NEW c \in MaybeChallenge,
               StartOidc(r, u, c) PROVE AnswerInv'
    BY <1>7, <1>q, AnswerStart DEF StartOidc, AfterUser
  <1>8. ASSUME NEW r \in Requests, NEW t \in MachineTypes, NEW n \in Nonces,
               StartMachine(r, t, n) PROVE AnswerInv'
    BY <1>8, <1>q, AnswerStart DEF StartMachine
  <1>9. ASSUME NEW r \in Requests, NEW u \in Users, NEW n \in Nonces,
               StartAssociate(r, u, n) PROVE AnswerInv'
    BY <1>9, <1>q, AnswerStart DEF StartAssociate
  <1>10. ASSUME NEW r \in Requests, RequestStep(r) PROVE AnswerInv'
    <2> USE AnswerFinish, AnswerGoto, <1>q
    <2>p. InFlight(r) /\ req[r].challenge # NoValue => req[r].pc \in {"consume", "create"}
      BY DEF AnswerInv, AnswersOK
    <2>1. CASE EnsureAdminWalletUser(r)
      BY <2>1 DEF EnsureAdminWalletUser
    <2>2. CASE FindUser(r)
      <3>1. AnswersGoOn
        BY <2>2, <2>p DEF FindUser, AfterUser, AnswersGoOn, Finish, TypeInv, TypeOK,
                          RequestRecords
      <3> QED BY <2>2, <3>1 DEF FindUser
    <2>3. CASE MfaNotEnrolled(r)
      BY <2>3, <2>p DEF MfaNotEnrolled, AfterMfa
    <2>4. CASE MfaChallenge(r)
      <3>1. ChallengesGrow /\ Finish(r) /\ UNCHANGED sessions
        BY <2>4 DEF MfaChallenge, ChallengesGrow, TypeInv, TypeOK
      <3> QED BY <3>1, AnswerQuiet
    <2>5. CASE MfaAssertion(r)
      BY <2>5, <2>p DEF MfaAssertion
    <2>6. CASE ReadChallenge(r)
      <3>1. CASE Finish(r)
        BY <2>6, <3>1 DEF ReadChallenge
      <3>2. CASE ChallengeAccepted(req[r].assertion, req[r].user) /\ Goto(r, "mark")
        BY <2>6, <3>2, <2>p, MarkableRead DEF ReadChallenge
      <3> QED BY <2>6, <3>1, <3>2 DEF ReadChallenge
    <2>7. CASE MarkChallenge(r)
      <3> DEFINE c == req[r].assertion
      <3>1. /\ c \in Challenges /\ challenges[c] \in ChallengeRows
            /\ InFlight(r) /\ req[r].pc = "mark" /\ UNCHANGED sessions
        BY <2>7 DEF MarkChallenge, TypeInv, TypeOK, RequestsOK, RequestOK
      <3>2. CASE Finish(r) /\ UNCHANGED challenges
        BY <3>1, <3>2
      <3>3. CASE challenges' = [challenges EXCEPT ![c].used = TRUE]
        <4>1. [challenges[c] EXCEPT !.used = TRUE] \in ChallengeRows
          BY <3>1 DEF ChallengeRows
        <4>2. /\ challenges'[c] = [challenges[c] EXCEPT !.used = TRUE]
              /\ \A d \in Challenges : d # c => challenges'[d] = challenges[d]
          BY <3>1, <3>3 DEF TypeInv, TypeOK
        <4>3. /\ challenges'[c].user = challenges[c].user
              /\ challenges'[c].linked = challenges[c].linked
              /\ challenges'[c].used
              /\ challenges'[c] # NoValue
          BY <3>1, <4>1, <4>2, NullAssumption DEF ChallengeRows
        <4>4. ChallengesGrow
          BY <4>2, <4>3 DEF ChallengesGrow
        <4>5. CASE Finish(r)
          BY <4>4, <4>5, <3>1, AnswerQuiet
        <4>6. CASE /\ Markable(c) /\ LinkMatches(r, c)
                   /\ req' = [req EXCEPT ![r].pc = AfterMfa(r), ![r].challenge = c]
          BY <3>1, <3>3, <4>4, <4>6, MarkStep
        <4> QED BY <2>7, <3>3, <4>5, <4>6 DEF MarkChallenge
      <3> QED BY <2>7, <3>2, <3>3 DEF MarkChallenge
    <2>8. CASE ConsumeNonce(r)
      <3>1. req[r].challenge # NoValue => req[r].kind \in {"siwe", "oidc"}
        BY <2>8 DEF ConsumeNonce, AnswerInv, AnswersOK, AnsweredBy
      <3>2. req[r].kind # "oidc"
        BY <2>8 DEF ConsumeNonce, TypeInv, RequestsOK, RequestOK
      <3> QED BY <2>8, <3>1, <3>2 DEF ConsumeNonce, AfterConsume
    <2>9. CASE CreateSession(r)
      BY <2>9, AnswerCreate
    <2>10. CASE LinkWallet(r)
      BY <2>10 DEF LinkWallet
    <2>11. CASE Abort(r)
      BY <2>11 DEF Abort
    <2> QED BY <1>10, <2>1, <2>2, <2>3, <2>4, <2>5, <2>6, <2>7, <2>8, <2>9,
               <2>10, <2>11 DEF RequestStep
  <1>11. ASSUME NEW u \in Users, ChangeRole(u) \/ ChangePasskeys(u) PROVE AnswerInv'
    BY <1>11, <1>u, <1>q DEF ChangeRole, ChangePasskeys
  <1>12. CASE CleanupNonces \/ Tick
    BY <1>12, <1>u, <1>q DEF CleanupNonces, Tick
  <1>14. CASE UNCHANGED vars
    BY <1>14, <1>u, <1>q DEF vars
  <1> QED BY <1>1, <1>5, <1>6, <1>7, <1>8, <1>9, <1>10, <1>11, <1>12, <1>14 DEF Next

\* An assertion backs one session at most, and that session is its user's and,
\* for a SIWE login, made from the nonce its challenge was issued for.
THEOREM ChallengeSingleUse == Spec => []OneSessionPerChallenge
  <1>1. TypeInv /\ AnswerInv => OneSessionPerChallenge
    <2> SUFFICES ASSUME TypeInv, AnswerInv PROVE OneSessionPerChallenge OBVIOUS
    <2>1. \A s \in SessionIds : sessions[s] # NoValue /\ sessions[s].challenge # NoValue =>
             sessions[s].challenge \in Challenges
      BY DEF AnswerInv, AnswersOK, AnsweredBy
    <2> QED BY <2>1 DEF OneSessionPerChallenge, AnswerInv, AnswersOK, OneAnswer, AnsweredBy, BackedBy
  <1> QED BY InitType, TypeStep, AnswerInit, AnswerStep, <1>1, PTL DEF Spec

-----------------------------------------------------------------------------
(* The second factor cannot be skipped.  The argument: a guarded request   *)
(* has a user that is an enrolled admin, and it stands before the second   *)
(* factor or has passed it.                                                *)

\* The user of a request: the one it found, or the one its token stands for.
UserOf(r) == IF req[r].user # NoValue THEN req[r].user ELSE TokenUser(req[r].nonce)

GuardedOK(r) ==
    /\ InFlight(r)
    /\ req[r].kind \in {"siwe", "oidc"}
    /\ At(r, "find_user") => req[r].user = NoValue
    /\ req[r].user = NoValue => /\ req[r].nonce \in Nonces
                                /\ tokens[req[r].nonce] # NoValue
    /\ UserOf(r) \in admins \cap enrolled
    /\ req[r].pc \in {"find_user", "mfa", "assert", "mark"} \/ req[r].challenge # NoValue

GuardedInv == \A r \in guarded : GuardedOK(r)

\* No request is guarded at the start.
LEMMA GuardedInit == Init => GuardedInv
  BY DEF Init, GuardedInv

\* What most steps do: the guarded requests that remain are as they were, and
\* nobody loses a wallet, the admin role or the last passkey.
LEMMA GuardedQuiet ==
    ASSUME TypeInv, GuardedInv,
           guarded' \subseteq guarded,
           \A r \in guarded' : req'[r] = req[r],
           TokensStay, admins \subseteq admins', enrolled' = enrolled,
           \A a \in Addresses : wallets[a] # NoValue => wallets'[a] = wallets[a]
    PROVE  GuardedInv'
  <1> SUFFICES ASSUME NEW r \in guarded' PROVE GuardedOK(r)'
    BY DEF GuardedInv
  <1>1. GuardedOK(r) /\ req'[r] = req[r] /\ r \in Requests
    BY DEF GuardedInv, TypeInv, TypeOK
  <1>2. CASE req[r].user # NoValue
    BY <1>1, <1>2 DEF GuardedOK, UserOf
  <1>3. CASE req[r].user = NoValue
    <2> DEFINE n == req[r].nonce
    <2>1. n \in Nonces /\ tokens[n] # NoValue /\ tokens'[n] = tokens[n]
      BY <1>1, <1>3 DEF GuardedOK, TokensStay
    <2>2. TokenUser(n) \in admins \cap enrolled
      BY <1>1, <1>3 DEF GuardedOK, UserOf
    <2>3. tokens[n].address \in Addresses
      BY <2>1 DEF TypeInv, TypeOK, Tokens
    <2>4. TokenUser(n) # NoValue
      BY <2>2, SetsAssumption DEF TypeInv, TypeOK
    <2>5. TokenUser(n)' = TokenUser(n)
      BY <1>1, <2>1, <2>3, <2>4 DEF TokenUser
    <2> HIDE DEF n
    <2>6. UserOf(r)' = TokenUser(req[r].nonce)'
      BY <1>1, <1>3 DEF UserOf
    <2> QED BY <1>1, <1>3, <2>1, <2>2, <2>5, <2>6 DEF GuardedOK, n
  <1> QED BY <1>2, <1>3

\* A request starts, guarded or not.
LEMMA GuardedStart ==
    ASSUME TypeInv, GuardedInv, NEW r \in Requests, ~InFlight(r),
           NEW pc, NEW kind, NEW n, NEW a, NEW u, NEW c,
           Start(r, pc, kind, n, a, u, c),
           \/ guarded' = guarded
           \/ guarded' = guarded \cup {r} /\ GuardedOK(r)',
           UNCHANGED <<tokens, wallets, admins, enrolled>>
    PROVE  GuardedInv'
  <1>1. \A q \in guarded : q # r /\ q \in Requests
    BY DEF GuardedInv, GuardedOK, TypeInv, TypeOK
  <1>2. \A q \in guarded : req'[q] = req[q]
    BY <1>1 DEF Start, TypeInv, TypeOK
  <1>3. \A q \in guarded : GuardedOK(q)'
    BY <1>2 DEF GuardedInv, GuardedOK, UserOf, TokenUser
  <1> QED BY <1>3 DEF GuardedInv

\* A request ends: what happens to it is not guarded any more.
LEMMA GuardedFinish ==
    ASSUME TypeInv, GuardedInv, NEW r \in Requests, Finish(r),
           TokensStay, admins \subseteq admins', enrolled' = enrolled,
           \A a \in Addresses : wallets[a] # NoValue => wallets'[a] = wallets[a]
    PROVE  GuardedInv'
  <1>1. /\ guarded' \subseteq guarded
        /\ \A q \in guarded' : req'[q] = req[q]
    BY DEF Finish, TypeInv, TypeOK
  <1> QED BY <1>1, GuardedQuiet

\* A request moves on for the same user.
LEMMA GuardedGoOn ==
    ASSUME TypeInv, GuardedInv, NEW r \in Requests, guarded' = guarded,
           UNCHANGED <<tokens, wallets, admins, enrolled>>,
           \A q \in Requests : q # r => req'[q] = req[q],
           r \in guarded => GuardedOK(r)'
    PROVE  GuardedInv'
  <1>1. ASSUME NEW q \in guarded, q # r PROVE GuardedOK(q)'
    BY <1>1 DEF GuardedInv, GuardedOK, UserOf, TokenUser, TypeInv, TypeOK
  <1> QED BY <1>1 DEF GuardedInv

\* An account changes: the definition of guarded follows it.
LEMMA GuardedAccounts ==
    ASSUME TypeInv, GuardedInv, UNCHANGED <<req, tokens, wallets>>,
           guarded' = StillGuarded(admins', enrolled')
    PROVE  GuardedInv'
  BY DEF GuardedInv, GuardedOK, StillGuarded, UserOf, TokenUser

\* The inductive step, one case per handler.
LEMMA GuardedStep == TypeInv /\ GuardedInv /\ [Next]_vars => GuardedInv'
  <1> SUFFICES ASSUME TypeInv, GuardedInv, [Next]_vars PROVE GuardedInv' OBVIOUS
  <1> USE SetsAssumption DEF accounts
  <1>q. ASSUME UNCHANGED <<req, guarded, wallets, admins, enrolled>>, TokensStay
        PROVE  GuardedInv'
    BY <1>q, GuardedQuiet
  <1>k. ASSUME UNCHANGED tokens PROVE TokensStay
    BY <1>k DEF TokensStay
  <1>i. ASSUME NEW t, NEW a, NEW h, IssueToken(t, a, h) PROVE TokensStay
    BY <1>i DEF IssueToken, TokensStay, TypeInv, TypeOK
  <1>1. ASSUME NEW a \in Addresses,
               \/ IssueLogin(a)
               \/ \E u \in Users : IssueAssociation(u, a)
               \/ \E t \in MachineTypes : IssueMachine(t, a)
        PROVE  GuardedInv'
    BY <1>1, <1>i, <1>q DEF IssueLogin, IssueAssociation, IssueMachine
  <1>2. ASSUME NEW a \in Addresses, UnlinkWallet(a) PROVE GuardedInv'
    <2> SUFFICES ASSUME NEW r \in guarded' PROVE GuardedOK(r)'
      BY DEF GuardedInv
    <2>1. /\ r \in guarded /\ GuardedOK(r)
          /\ req[r].user # NoValue \/ tokens[req[r].nonce].target # NoValue
          /\ UNCHANGED <<req, tokens, admins, enrolled>>
      BY <1>2 DEF UnlinkWallet, GuardedInv
    <2> QED BY <2>1 DEF GuardedOK, UserOf, TokenUser
  <1>3. ASSUME NEW u \in Users, NEW a \in Addresses, GiveWallet(a, u) PROVE GuardedInv'
    <2>1. \A b \in Addresses : wallets[b] # NoValue => wallets'[b] = wallets[b]
      BY <1>3 DEF GiveWallet, TypeInv, TypeOK
    <2> QED BY <1>3, <1>k, <2>1, GuardedQuiet DEF GiveWallet
  <1>5. ASSUME NEW r \in Requests, NEW a \in Addresses, IssueAdminLogin(r, a) PROVE GuardedInv'
    BY <1>5, GuardedStart DEF IssueAdminLogin
  <1>6. ASSUME NEW r \in Requests, NEW n \in Nonces, NEW c \in MaybeChallenge,
               StartSiwe(r, n, c) PROVE GuardedInv'
    <2>1. CASE TokenUser(n) \in admins \cap enrolled
      <3>1. /\ req'[r].pc = "find_user" /\ req'[r].kind = "siwe" /\ req'[r].nonce = n
            /\ req'[r].user = NoValue
            /\ InFlight(r)'
        BY <1>6 DEF StartSiwe, Start, TypeInv, TypeOK, Idle
      <3>2. TokenUser(n)' = TokenUser(n) /\ UNCHANGED <<tokens, admins, enrolled>>
        BY <1>6 DEF StartSiwe, TokenUser
      <3>3. UserOf(r)' = TokenUser(n)
        BY <3>1, <3>2 DEF UserOf, TokenUser
      <3>4. tokens'[n] # NoValue
        BY <1>6 DEF StartSiwe, TokenValid
      <3>5. GuardedOK(r)'
        BY <2>1, <3>1, <3>2, <3>3, <3>4 DEF GuardedOK
      <3> QED BY <1>6, <2>1, <3>5, GuardedStart DEF StartSiwe
    <2>2. CASE TokenUser(n) \notin admins \cap enrolled
      BY <1>6, <2>2, GuardedStart DEF StartSiwe
    <2> QED BY <2>1, <2>2
  <1>7. ASSUME NEW r \in Requests, NEW u \in Users, NEW c \in MaybeChallenge,
               StartOidc(r, u, c) PROVE GuardedInv'
    <2>1. CASE NeedsPasskey(u)
      <3>1. /\ req'[r].pc = "mfa" /\ req'[r].kind = "oidc" /\ req'[r].user = u
            /\ InFlight(r)'
        BY <1>7, <2>1 DEF StartOidc, Start, NeedsPasskey, AfterUser, TypeInv, TypeOK, Idle
      <3>2. u # NoValue /\ UNCHANGED <<admins, enrolled>>
        BY <1>7 DEF StartOidc
      <3>3. GuardedOK(r)'
        BY <2>1, <3>1, <3>2 DEF GuardedOK, UserOf, NeedsPasskey
      <3> QED BY <1>7, <2>1, <3>3, GuardedStart DEF StartOidc
    <2>2. CASE ~NeedsPasskey(u)
      BY <1>7, <2>2, GuardedStart DEF StartOidc
    <2> QED BY <2>1, <2>2
  <1>8. ASSUME NEW r \in Requests, NEW t \in MachineTypes, NEW n \in Nonces,
               StartMachine(r, t, n) PROVE GuardedInv'
    BY <1>8, GuardedStart DEF StartMachine
  <1>9. ASSUME NEW r \in Requests, NEW u \in Users, NEW n \in Nonces,
               StartAssociate(r, u, n) PROVE GuardedInv'
    BY <1>9, GuardedStart DEF StartAssociate
  <1>10. ASSUME NEW r \in Requests, RequestStep(r) PROVE GuardedInv'
    <2>f. ASSUME Finish(r), UNCHANGED <<tokens, wallets, admins, enrolled>> PROVE GuardedInv'
      BY <2>f, <1>k, GuardedFinish
    <2>g. ASSUME r \in guarded PROVE GuardedOK(r) /\ req[r] \in RequestRecords /\ RequestOK(r)
      BY <2>g DEF GuardedInv, GuardedOK, TypeInv, TypeOK, RequestsOK
    <2>n. ASSUME NEW pc, Goto(r, pc), guarded' = guarded, pc # "find_user",
                 UNCHANGED <<tokens, wallets, admins, enrolled>>,
                 r \in guarded => \/ pc \in {"mfa", "assert", "mark"}
                                  \/ req[r].challenge # NoValue
          PROVE  GuardedInv'
      <3>1. \A q \in Requests : q # r => req'[q] = req[q]
        BY <2>n DEF Goto, TypeInv, TypeOK
      <3>2. ASSUME r \in guarded PROVE GuardedOK(r)'
        <4>1. GuardedOK(r) /\ req[r] \in RequestRecords
          BY <2>g, <3>2
        <4>2. /\ req'[r].pc = pc /\ req'[r].kind = req[r].kind /\ req'[r].user = req[r].user
              /\ req'[r].nonce = req[r].nonce /\ req'[r].challenge = req[r].challenge
              /\ InFlight(r)'
          BY <2>n, <4>1 DEF Goto, TypeInv, TypeOK, RequestRecords, Idle, GuardedOK
        <4>3. UserOf(r)' = UserOf(r)
          BY <2>n, <4>2 DEF UserOf, TokenUser
        <4> QED BY <2>n, <3>2, <4>1, <4>2, <4>3 DEF GuardedOK
      <3> QED BY <2>n, <3>1, <3>2, GuardedGoOn
    <2>1. CASE EnsureAdminWalletUser(r)
      <3>1. /\ TokensStay /\ admins \subseteq admins' /\ enrolled' = enrolled
            /\ \A a \in Addresses : wallets[a] # NoValue => wallets'[a] = wallets[a]
        BY <2>1, <1>i DEF EnsureAdminWalletUser, TypeInv, TypeOK
      <3> QED BY <2>1, <3>1, GuardedFinish DEF EnsureAdminWalletUser
    <2>2. CASE FindUser(r)
      <3> DEFINE u == TokenUser(req[r].nonce)
      <3>1. CASE u \notin users
        BY <2>2, <2>f, <3>1 DEF FindUser
      <3>2. CASE u \in users
        <4>1. /\ req' = [req EXCEPT ![r].user = u, ![r].pc = AfterUser(u, "consume")]
              /\ guarded' = guarded
              /\ UNCHANGED <<tokens, wallets, admins, enrolled>>
              /\ InFlight(r) /\ req[r].pc = "find_user" /\ u \in Users
          BY <2>2, <3>2 DEF FindUser, TypeInv, TypeOK
        <4>2. \A q \in Requests : q # r => req'[q] = req[q]
          BY <4>1 DEF TypeInv, TypeOK
        <4>3. ASSUME r \in guarded PROVE GuardedOK(r)'
          <5>1. GuardedOK(r) /\ req[r] \in RequestRecords
            BY <2>g, <4>3
          <5>2. u \in admins \cap enrolled
            BY <4>1, <5>1 DEF GuardedOK, UserOf
          <5> HIDE DEF u
          <5>3. AfterUser(u, "consume") = "mfa"
            BY <5>2 DEF AfterUser
          <5>4. /\ req'[r].user = u /\ req'[r].pc = "mfa" /\ req'[r].kind = req[r].kind
                /\ InFlight(r)'
            BY <4>1, <5>1, <5>3 DEF TypeInv, TypeOK, RequestRecords, Idle
          <5> QED BY <4>1, <5>1, <5>2, <5>4 DEF GuardedOK, UserOf
        <4> QED BY <4>1, <4>2, <4>3, GuardedGoOn
      <3> QED BY <3>1, <3>2
    <2>3. CASE MfaNotEnrolled(r)
      <3>1. r \notin guarded \/ req[r].challenge # NoValue
        <4> SUFFICES ASSUME r \in guarded PROVE FALSE OBVIOUS
        <4>1. GuardedOK(r) /\ RequestOK(r) /\ req[r].pc = "mfa" /\ req[r].user \notin enrolled
          BY <2>3, <2>g DEF MfaNotEnrolled
        <4>2. req[r].user \in Users
          BY <4>1 DEF RequestOK, GuardedOK
        <4> QED BY <4>1, <4>2 DEF GuardedOK, UserOf
      <3> QED BY <2>3, <2>n, <3>1 DEF MfaNotEnrolled, AfterMfa
    <2>4. CASE MfaChallenge(r)
      BY <2>4, <2>f DEF MfaChallenge
    <2>5. CASE MfaAssertion(r)
      BY <2>5, <2>n DEF MfaAssertion
    <2>6. CASE ReadChallenge(r)
      BY <2>6, <2>f, <2>n DEF ReadChallenge
    <2>7. CASE MarkChallenge(r)
      <3> DEFINE c == req[r].assertion
      <3>1. CASE Finish(r)
        BY <2>7, <2>f, <3>1 DEF MarkChallenge
      <3>2. CASE /\ req' = [req EXCEPT ![r].pc = AfterMfa(r), ![r].challenge = c]
                 /\ guarded' = guarded
        <4>1. /\ UNCHANGED <<tokens, wallets, admins, enrolled>>
              /\ c # NoValue
          BY <2>7 DEF MarkChallenge, TypeInv, RequestsOK, RequestOK
        <4>2. \A q \in Requests : q # r => req'[q] = req[q]
          BY <3>2 DEF TypeInv, TypeOK
        <4>3. ASSUME r \in guarded PROVE GuardedOK(r)'
          <5>1. GuardedOK(r) /\ req[r] \in RequestRecords
            BY <2>g, <4>3
          <5>2. /\ req'[r].challenge = c /\ req'[r].kind = req[r].kind
                /\ req'[r].user = req[r].user /\ req'[r].nonce = req[r].nonce
                /\ req'[r].pc \in {"create", "consume"}
                /\ InFlight(r)'
            BY <3>2, <5>1 DEF AfterMfa, TypeInv, TypeOK, RequestRecords, Idle
          <5>3. UserOf(r)' = UserOf(r)
            BY <4>1, <5>2 DEF UserOf, TokenUser
          <5> HIDE DEF c
          <5> QED BY <4>1, <5>1, <5>2, <5>3 DEF GuardedOK
        <4> QED BY <3>2, <4>1, <4>2, <4>3, GuardedGoOn
      <3> QED BY <2>7, <3>1, <3>2 DEF MarkChallenge
    <2>8. CASE ConsumeNonce(r)
      <3>1. r \in guarded => req[r].challenge # NoValue
        BY <2>8, <2>g DEF ConsumeNonce, GuardedOK
      <3>2. AfterConsume(r) # "find_user"
        BY DEF AfterConsume
      <3> QED BY <2>8, <2>f, <2>n, <3>1, <3>2 DEF ConsumeNonce
    <2>9. CASE CreateSession(r)
      BY <2>9, <2>f DEF CreateSession
    <2>10. CASE LinkWallet(r)
      <3>1. \A a \in Addresses : wallets[a] # NoValue => wallets'[a] = wallets[a]
        BY <2>10 DEF LinkWallet, TypeInv, TypeOK
      <3> QED BY <2>10, <1>k, <3>1, GuardedFinish DEF LinkWallet
    <2>11. CASE Abort(r)
      BY <2>11, <2>f DEF Abort
    <2> QED BY <1>10, <2>1, <2>2, <2>3, <2>4, <2>5, <2>6, <2>7, <2>8, <2>9,
               <2>10, <2>11 DEF RequestStep
  <1>11. ASSUME NEW u \in Users, ChangeRole(u) \/ ChangePasskeys(u) PROVE GuardedInv'
    BY <1>11, GuardedAccounts DEF ChangeRole, ChangePasskeys
  <1>12. CASE CleanupNonces \/ Tick \/ UNCHANGED vars
    BY <1>12, <1>k, <1>q DEF CleanupNonces, Tick, vars
  <1> QED BY <1>1, <1>2, <1>3, <1>5, <1>6, <1>7, <1>8, <1>9, <1>10, <1>11, <1>12 DEF Next

\* A user who needs a passkey from the start of a login to its end gets no
\* session without one, whatever happens to roles, passkeys and wallets between.
THEOREM SecondFactorKept == Spec => NoLoginAroundMfa
  <1>1. TypeInv /\ GuardedInv =>
           \A r \in guarded : CreateSession(r) => req[r].challenge # NoValue
    BY DEF GuardedInv, GuardedOK, CreateSession
  <1>2. TypeInv /\ GuardedInv =>
           [\A r \in guarded : CreateSession(r) => req[r].challenge # NoValue]_vars
    BY <1>1
  <1> QED BY InitType, TypeStep, GuardedInit, GuardedStep, <1>2, PTL DEF Spec, NoLoginAroundMfa

-----------------------------------------------------------------------------
(* The login routes implement SingleUseLogin.  Beyond the nonce and its    *)
(* owner, the machine logins must be seen to use machine tokens, which are *)
(* never bound.                                                            *)

MachineInv ==
    /\ \A n \in Nonces :
          tokens[n] # NoValue /\ tokens[n].type # "user" => tokens[n].target = NoValue
    /\ \A r \in Requests :
          InFlight(r) /\ req[r].pc = "create" =>
             /\ req[r].kind # "associate"
             /\ req[r].kind \in MachineTypes =>
                   /\ tokens[req[r].nonce] # NoValue
                   /\ tokens[req[r].nonce].type = req[r].kind

\* What most steps do: no machine login reaches the creation of a session.
MachinesGoOn ==
    \A r \in Requests :
        InFlight(r)' /\ req'[r].pc = "create" =>
            \/ req'[r].kind \in {"siwe", "oidc"}
            \/ InFlight(r) /\ req'[r] = req[r]

\* No token and no request at the start.
LEMMA MachineInit == Init => MachineInv
  BY DEF Init, MachineInv

\* A step that hands out no token.
LEMMA MachineQuiet ==
    ASSUME TypeInv, MachineInv, MachinesGoOn, UNCHANGED tokens
    PROVE  MachineInv'
  BY SetsAssumption DEF MachineInv, MachinesGoOn

\* A token is handed out, bound only if it is a user's.
LEMMA MachineIssue ==
    ASSUME TypeInv, MachineInv, NEW type \in TargetTypes, NEW a \in Addresses,
           NEW h \in Users \cup {NoValue}, IssueToken(type, a, h),
           type # "user" => h = NoValue, MachinesGoOn
    PROVE  MachineInv'
  <1> DEFINE row == [type |-> type, address |-> a, target |-> h, exp |-> now + Expiration]
  <1>1. PICK n \in Nonces :
            tokens[n] = NoValue /\ tokens' = [tokens EXCEPT ![n] = row]
    BY DEF IssueToken
  <1>2. /\ \A m \in Nonces : m # n => tokens'[m] = tokens[m]
        /\ tokens'[n] = row
    BY <1>1 DEF TypeInv, TypeOK
  <1>3. row.type = type /\ row.target = h
    OBVIOUS
  <1>4. \A r \in Requests : InFlight(r) /\ req[r].kind \in MachineTypes => req[r].nonce \in Nonces
    BY DEF TypeInv, RequestsOK, RequestOK
  <1> HIDE DEF row
  <1>5. \A m \in Nonces :
          tokens'[m] # NoValue /\ tokens'[m].type # "user" => tokens'[m].target = NoValue
    BY <1>2, <1>3 DEF MachineInv
  <1>6. ASSUME NEW r \in Requests, InFlight(r)', req'[r].pc = "create"
        PROVE  /\ req'[r].kind # "associate"
               /\ req'[r].kind \in MachineTypes =>
                     /\ tokens'[req'[r].nonce] # NoValue
                     /\ tokens'[req'[r].nonce].type = req'[r].kind
    <2>1. CASE req'[r].kind \in {"siwe", "oidc"}
      BY <2>1, SetsAssumption
    <2>2. CASE InFlight(r) /\ req'[r] = req[r]
      BY <1>1, <1>2, <1>4, <1>6, <2>2 DEF MachineInv
    <2> QED BY <1>6, <2>1, <2>2 DEF MachinesGoOn
  <1> QED BY <1>5, <1>6 DEF MachineInv

\* A request ends.
LEMMA MachineFinish ==
    ASSUME TypeInv, NEW r \in Requests, Finish(r)
    PROVE  MachinesGoOn
  BY DEF MachinesGoOn, Finish, TypeInv, TypeOK

\* A request starts before the creation, or is an OIDC login.
LEMMA MachineStart ==
    ASSUME TypeInv, NEW r \in Requests, NEW pc, NEW kind, NEW n, NEW a, NEW u, NEW c,
           Start(r, pc, kind, n, a, u, c), pc # "create" \/ kind = "oidc"
    PROVE  MachinesGoOn
  BY DEF MachinesGoOn, Start, TypeInv, TypeOK

\* A request moves on to another step.
LEMMA MachineGoto ==
    ASSUME TypeInv, NEW r \in Requests, InFlight(r), NEW pc, Goto(r, pc),
           pc # "create" \/ req[r].kind \in {"siwe", "oidc"}
    PROVE  MachinesGoOn
  BY DEF MachinesGoOn, Goto, TypeInv, TypeOK, RequestRecords

\* The inductive step: only the consumption of a nonce lets a machine through.
LEMMA MachineStep == NonceInv /\ MachineInv /\ [Next]_vars => MachineInv'
  <1> SUFFICES ASSUME TypeInv, CarriesValid, MachineInv, [Next]_vars PROVE MachineInv'
    BY DEF NonceInv
  <1> USE SetsAssumption DEF accounts
  <1>u. ASSUME UNCHANGED req PROVE MachinesGoOn
    BY <1>u DEF MachinesGoOn
  <1>1. ASSUME NEW a \in Addresses, IssueLogin(a) PROVE MachineInv'
    BY <1>1, <1>u, MachineIssue DEF IssueLogin, TypeInv, TypeOK, TargetTypes
  <1>2. ASSUME NEW a \in Addresses, UnlinkWallet(a) \/ \E u \in Users : GiveWallet(a, u)
        PROVE  MachineInv'
    BY <1>2, <1>u, MachineQuiet DEF UnlinkWallet, GiveWallet
  <1>3. ASSUME NEW u \in Users, NEW a \in Addresses, IssueAssociation(u, a) PROVE MachineInv'
    BY <1>3, <1>u, MachineIssue DEF IssueAssociation, TargetTypes
  <1>4. ASSUME NEW t \in MachineTypes, NEW a \in Addresses, IssueMachine(t, a) PROVE MachineInv'
    BY <1>4, <1>u, MachineIssue DEF IssueMachine, TargetTypes
  <1>5. ASSUME NEW r \in Requests, NEW a \in Addresses, IssueAdminLogin(r, a) PROVE MachineInv'
    BY <1>5, MachineStart, MachineQuiet DEF IssueAdminLogin
  <1>6. ASSUME NEW r \in Requests, NEW n \in Nonces, NEW c \in MaybeChallenge,
               StartSiwe(r, n, c) PROVE MachineInv'
    BY <1>6, MachineStart, MachineQuiet DEF StartSiwe
  <1>7. ASSUME NEW r \in Requests, NEW u \in Users, NEW c \in MaybeChallenge,
               StartOidc(r, u, c) PROVE MachineInv'
    BY <1>7, MachineStart, MachineQuiet DEF StartOidc
  <1>8. ASSUME NEW r \in Requests, NEW t \in MachineTypes, NEW n \in Nonces,
               StartMachine(r, t, n) PROVE MachineInv'
    BY <1>8, MachineStart, MachineQuiet DEF StartMachine
  <1>9. ASSUME NEW r \in Requests, NEW u \in Users, NEW n \in Nonces,
               StartAssociate(r, u, n) PROVE MachineInv'
    BY <1>9, MachineStart, MachineQuiet DEF StartAssociate
  <1>10. ASSUME NEW r \in Requests, RequestStep(r) PROVE MachineInv'
    <2> USE MachineFinish, MachineGoto, MachineQuiet
    <2>m. InFlight(r) /\ req[r].pc \in {"mfa", "assert", "mark"} =>
             req[r].kind \in {"siwe", "oidc"} /\ req[r] \in RequestRecords
      BY DEF TypeInv, TypeOK, RequestsOK, RequestOK
    <2>1. CASE EnsureAdminWalletUser(r)
      BY <2>1, MachineIssue
      DEF EnsureAdminWalletUser, WinnerUser, TypeInv, TypeOK, TargetTypes, RequestsOK, RequestOK
    <2>2. CASE FindUser(r)
      <3>1. MachinesGoOn
        BY <2>2 DEF FindUser, AfterUser, MachinesGoOn, Finish, TypeInv, TypeOK, RequestRecords
      <3> QED BY <2>2, <3>1 DEF FindUser
    <2>3. CASE MfaNotEnrolled(r)
      BY <2>3, <2>m DEF MfaNotEnrolled
    <2>4. CASE MfaChallenge(r)
      BY <2>4 DEF MfaChallenge
    <2>5. CASE MfaAssertion(r)
      BY <2>5 DEF MfaAssertion
    <2>6. CASE ReadChallenge(r)
      BY <2>6 DEF ReadChallenge
    <2>7. CASE MarkChallenge(r)
      <3>1. MachinesGoOn
        BY <2>7, <2>m DEF MarkChallenge, MachinesGoOn, Finish, TypeInv, TypeOK, RequestRecords
      <3> QED BY <2>7, <3>1 DEF MarkChallenge
    <2>8. CASE ConsumeNonce(r)
      <3>1. CASE Finish(r)
        BY <2>8, <3>1 DEF ConsumeNonce
      <3>2. CASE Goto(r, AfterConsume(r))
        <4>1. /\ InFlight(r) /\ req[r] \in RequestRecords /\ RequestOK(r) /\ UNCHANGED tokens
              /\ req[r].pc = "consume"
          BY <2>8 DEF ConsumeNonce, TypeInv, TypeOK, RequestsOK
        <4>2. CASE req[r].kind \in MachineTypes
          <5>1. /\ req[r].nonce \in Nonces
                /\ AfterConsume(r) = "create" => tokens[req[r].nonce].type = req[r].kind
            BY <4>1, <4>2 DEF AfterConsume, RequestOK
          <5>2. /\ req'[r].pc = AfterConsume(r) /\ req'[r].kind = req[r].kind
                /\ req'[r].nonce = req[r].nonce
                /\ \A q \in Requests : q # r => req'[q] = req[q]
            BY <3>2, <4>1 DEF Goto, TypeInv, TypeOK, RequestRecords
          <5>3. AfterConsume(r) = "create" => tokens[req[r].nonce] # NoValue
            BY <4>1, <5>1 DEF CarriesValid
          <5> QED BY <4>1, <4>2, <5>1, <5>2, <5>3 DEF MachineInv
        <4>3. CASE req[r].kind \notin MachineTypes
          <5>1. req[r].kind \in {"siwe", "oidc"} \/ AfterConsume(r) # "create"
            BY <4>1, <4>3 DEF AfterConsume, RequestOK, RequestRecords, Kinds
          <5> QED BY <3>2, <4>1, <5>1
        <4> QED BY <4>2, <4>3
      <3> QED BY <2>8, <3>1, <3>2 DEF ConsumeNonce
    <2>9. CASE CreateSession(r)
      BY <2>9 DEF CreateSession
    <2>10. CASE LinkWallet(r)
      BY <2>10 DEF LinkWallet
    <2>11. CASE Abort(r)
      BY <2>11 DEF Abort
    <2> QED BY <1>10, <2>1, <2>2, <2>3, <2>4, <2>5, <2>6, <2>7, <2>8, <2>9,
               <2>10, <2>11 DEF RequestStep
  <1>11. ASSUME NEW u \in Users, ChangeRole(u) \/ ChangePasskeys(u) PROVE MachineInv'
    BY <1>11, <1>u, MachineQuiet DEF ChangeRole, ChangePasskeys
  <1>12. CASE CleanupNonces \/ Tick \/ UNCHANGED vars
    BY <1>12, <1>u, MachineQuiet DEF CleanupNonces, Tick, vars
  <1> QED BY <1>1, <1>2, <1>3, <1>4, <1>5, <1>6, <1>7, <1>8, <1>9, <1>10, <1>11, <1>12 DEF Next

\* The initial states map to initial states.
LEMMA PromiseInit == Init => Promise!Init
  <1> SUFFICES ASSUME Init PROVE Promise!Init OBVIOUS
  <1>1. \A n \in Nonces : tokens[n] = NoValue
    BY DEF Init
  <1>2. \A t \in SessionIds : sessions[t] = NoValue
    BY DEF Init
  <1>3. BoundOf = [n \in Nonces |-> Promise!NotIssued]
    BY <1>1 DEF BoundOf, Promise!NotIssued
  <1>4. \A n \in Nonces : GrantedOf[n] = {}
    BY <1>2 DEF GrantedOf
  <1>5. GrantedOf = [n \in Nonces |-> {}]
    BY <1>4 DEF GrantedOf
  <1> QED BY <1>3, <1>5 DEF Promise!Init

\* A step that hands out no token and creates no session is a stutter.
LEMMA PromiseStutter ==
    ASSUME UNCHANGED <<tokens, sessions>>
    PROVE  UNCHANGED <<BoundOf, GrantedOf>>
  BY DEF BoundOf, GrantedOf

\* Handing out a token is Issue.
LEMMA PromiseIssue ==
    ASSUME TypeInv, NEW type \in TargetTypes, NEW a \in Addresses,
           NEW h \in Users \cup {NoValue}, IssueToken(type, a, h), UNCHANGED sessions
    PROVE  Promise!Next
  <1> DEFINE row == [type |-> type, address |-> a, target |-> h, exp |-> now + Expiration]
  <1>1. PICK n \in Nonces :
            tokens[n] = NoValue /\ tokens' = [tokens EXCEPT ![n] = row]
    BY DEF IssueToken
  <1>2. row \in Tokens /\ row.target = h
    BY TimesAssumption DEF Tokens, TypeInv, TypeOK, Times
  <1> HIDE DEF row
  <1>3. row # NoValue
    BY <1>2, NullAssumption
  <1>4. BoundOf[n] = Promise!NotIssued
    BY <1>1 DEF BoundOf, Promise!NotIssued
  <1>5. BoundOf' = [BoundOf EXCEPT ![n] = [issued |-> TRUE, to |-> h]]
    <2>1. \A m \in Nonces :
            tokens'[m] = IF m = n THEN row ELSE tokens[m]
      BY <1>1 DEF TypeInv, TypeOK
    <2> QED BY <1>2, <1>3, <2>1 DEF BoundOf
  <1>6. UNCHANGED GrantedOf
    BY DEF GrantedOf
  <1>7. Promise!Issue(n, h)
    BY <1>4, <1>5, <1>6 DEF Promise!Issue
  <1> QED BY <1>7 DEF Promise!Next

\* Creating a session from a nonce is Grant; from none, a stutter.
LEMMA PromiseGrant ==
    ASSUME NonceInv, OwnerInv, MachineInv, NEW r \in Requests, CreateSession(r)
    PROVE  Promise!Next \/ UNCHANGED <<BoundOf, GrantedOf>>
  <1> USE SetsAssumption, NullAssumption DEF accounts
  <1> DEFINE row == [kind |-> req[r].kind, holder |-> Holder(r),
                     nonce |-> req[r].nonce, challenge |-> req[r].challenge]
             n == req[r].nonce
             h == Holder(r)
  <1>1. PICK s \in SessionIds :
            sessions[s] = NoValue /\ sessions' = [sessions EXCEPT ![s] = row]
    BY DEF CreateSession
  <1>2. /\ InFlight(r) /\ req[r].pc = "create" /\ UNCHANGED tokens
        /\ req[r] \in RequestRecords /\ RequestOK(r)
        /\ n \in Nonces \cup {NoValue}
    BY DEF CreateSession, NonceInv, TypeInv, TypeOK, RequestsOK, RequestRecords
  <1>3. h \in Users \cup Addresses
    BY <1>2 DEF Holder, RequestOK, RequestRecords, Kinds, MachineInv
  <1>4. row \in SessionRows
    BY <1>2, <1>3 DEF SessionRows, RequestRecords
  <1>5. row # NoValue /\ row.nonce = n /\ row.holder = h
    BY <1>4
  <1> HIDE DEF row
  <1>6. \A t \in SessionIds : sessions'[t] = IF t = s THEN row ELSE sessions[t]
    BY <1>1 DEF NonceInv, TypeInv, TypeOK
  <1>7. UNCHANGED BoundOf
    BY <1>2 DEF BoundOf
  <1>8. \A m \in Nonces : m # n => GrantedOf'[m] = GrantedOf[m]
    <2> SUFFICES ASSUME NEW m \in Nonces, m # n PROVE GrantedOf'[m] = GrantedOf[m] OBVIOUS
    <2>1. \A t \in SessionIds :
            /\ sessions'[t] # NoValue /\ sessions'[t].nonce = m
               <=> sessions[t] # NoValue /\ sessions[t].nonce = m
            /\ sessions[t] # NoValue /\ sessions[t].nonce = m =>
                  sessions'[t] = sessions[t]
      BY <1>1, <1>5, <1>6
    <2> HIDE DEF n, h
    <2> QED BY <2>1 DEF GrantedOf
  <1>9. CASE n = NoValue
    <2>1. \A m \in Nonces : GrantedOf'[m] = GrantedOf[m]
      BY <1>8, <1>9
    <2>2. UNCHANGED GrantedOf
      BY <2>1 DEF GrantedOf
    <2> QED BY <1>7, <2>2
  <1>10. CASE n \in Nonces
    <2>1. tokens[n] # NoValue
      BY <1>2, <1>10 DEF NonceInv, CarriesValid
    <2>2. Holds(r, n)
      BY <1>2 DEF Holds
    <2>3. \A t \in SessionIds : ~(sessions[t] # NoValue /\ sessions[t].nonce = n)
      BY <1>10, <2>2 DEF NonceInv, OneHolder, SessionOf
    <2>4. tokens[n].target \in {h, NoValue}
      <3>1. CASE req[r].kind = "siwe"
        BY <1>2, <2>1, <3>1 DEF OwnerInv, BoundTo, Holder
      <3>2. CASE req[r].kind \in MachineTypes
        BY <1>2, <1>10, <2>1, <3>2 DEF MachineInv
      <3>3. req[r].kind \in {"siwe"} \cup MachineTypes
        BY <1>2, <1>10 DEF RequestOK, RequestRecords, Kinds, MachineInv
      <3> QED BY <3>1, <3>2, <3>3
    <2>5. BoundOf[n].issued /\ BoundOf[n].to \in {h, NoValue}
      BY <1>10, <2>1, <2>4 DEF BoundOf
    <2>6. GrantedOf[n] = {}
      BY <1>10, <2>3 DEF GrantedOf
    <2>7. GrantedOf'[n] = {<<s, h>>}
      <3>1. {t \in SessionIds : sessions'[t] # NoValue /\ sessions'[t].nonce = n} = {s}
        BY <1>5, <1>6, <2>3
      <3>2. sessions'[s].holder = h
        BY <1>5, <1>6
      <3> HIDE DEF n, h
      <3> QED BY <1>2, <1>10, <3>1, <3>2 DEF GrantedOf
    <2>8. GrantedOf' = [GrantedOf EXCEPT ![n] = {<<s, h>>}]
      <3>1. \A m \in Nonces : GrantedOf'[m] = IF m = n THEN {<<s, h>>} ELSE GrantedOf[m]
        BY <1>8, <2>7
      <3> HIDE DEF n, h
      <3>2. GrantedOf' = [m \in Nonces |-> GrantedOf'[m]]
        BY DEF GrantedOf
      <3>3. [GrantedOf EXCEPT ![n] = {<<s, h>>}] =
               [m \in Nonces |-> IF m = n THEN {<<s, h>>} ELSE GrantedOf[m]]
        BY DEF GrantedOf
      <3> QED BY <3>1, <3>2, <3>3
    <2>9. Promise!Grant(n, s, h)
      BY <1>7, <2>5, <2>6, <2>8 DEF Promise!Grant
    <2> QED BY <1>3, <1>10, <2>9 DEF Promise!Next
  <1> QED BY <1>2, <1>9, <1>10

\* Every step of the login routes is a step of the promise, or none.
LEMMA PromiseStep ==
    NonceInv /\ OwnerInv /\ MachineInv /\ [Next]_vars
        => [Promise!Next]_<<BoundOf, GrantedOf>>
  <1> SUFFICES ASSUME NonceInv, OwnerInv, MachineInv, [Next]_vars
               PROVE  Promise!Next \/ UNCHANGED <<BoundOf, GrantedOf>>
    OBVIOUS
  <1> USE PromiseStutter DEF accounts
  <1>t. TypeInv BY DEF NonceInv
  <1>1. ASSUME NEW a \in Addresses, IssueLogin(a) PROVE Promise!Next
    BY <1>1, <1>t, PromiseIssue DEF IssueLogin, TypeInv, TypeOK, TargetTypes
  <1>2. ASSUME NEW u \in Users, NEW a \in Addresses, IssueAssociation(u, a) PROVE Promise!Next
    BY <1>2, <1>t, PromiseIssue DEF IssueAssociation, TargetTypes
  <1>3. ASSUME NEW t \in MachineTypes, NEW a \in Addresses, IssueMachine(t, a) PROVE Promise!Next
    BY <1>3, <1>t, PromiseIssue DEF IssueMachine, TargetTypes
  <1>4. ASSUME NEW r \in Requests, EnsureAdminWalletUser(r) PROVE Promise!Next
    BY <1>4, <1>t, PromiseIssue
    DEF EnsureAdminWalletUser, WinnerUser, TypeInv, TypeOK, TargetTypes, RequestsOK, RequestOK
  <1>5. ASSUME NEW r \in Requests, CreateSession(r)
        PROVE  Promise!Next \/ UNCHANGED <<BoundOf, GrantedOf>>
    BY <1>5, PromiseGrant
  <1>6. ASSUME NEW r \in Requests,
               \/ FindUser(r) \/ MfaNotEnrolled(r) \/ MfaChallenge(r) \/ MfaAssertion(r)
               \/ ReadChallenge(r) \/ MarkChallenge(r) \/ ConsumeNonce(r)
               \/ LinkWallet(r) \/ Abort(r)
        PROVE  UNCHANGED <<BoundOf, GrantedOf>>
    BY <1>6 DEF FindUser, MfaNotEnrolled, MfaChallenge, MfaAssertion, ReadChallenge, MarkChallenge,
                ConsumeNonce, LinkWallet, Abort
  <1>7. ASSUME \/ \E r \in Requests, a \in Addresses : IssueAdminLogin(r, a)
               \/ \E r \in Requests, n \in Nonces, c \in MaybeChallenge : StartSiwe(r, n, c)
               \/ \E r \in Requests, u \in Users, c \in MaybeChallenge : StartOidc(r, u, c)
               \/ \E r \in Requests, t \in MachineTypes, n \in Nonces : StartMachine(r, t, n)
               \/ \E r \in Requests, u \in Users, n \in Nonces : StartAssociate(r, u, n)
        PROVE  UNCHANGED <<BoundOf, GrantedOf>>
    BY <1>7 DEF IssueAdminLogin, StartSiwe, StartOidc, StartMachine, StartAssociate
  <1>8. ASSUME \/ \E a \in Addresses : UnlinkWallet(a) \/ \E u \in Users : GiveWallet(a, u)
               \/ \E u \in Users : ChangeRole(u) \/ ChangePasskeys(u)
               \/ CleanupNonces
               \/ Tick
               \/ UNCHANGED vars
        PROVE  UNCHANGED <<BoundOf, GrantedOf>>
    BY <1>8 DEF UnlinkWallet, GiveWallet, ChangeRole, ChangePasskeys, CleanupNonces, Tick, vars
  <1> QED BY <1>1, <1>2, <1>3, <1>4, <1>5, <1>6, <1>7, <1>8 DEF Next, RequestStep

\* The login routes implement SingleUseLogin: seen through the challenges and
\* the sessions alone, every request, race, purge and failure is an issue, a
\* grant to the right holder, or nothing.
THEOREM LoginIsSingleUse == Spec => SingleUse
  <1>1. Init => TypeInv /\ NonceInv /\ OwnerInv /\ MachineInv
    BY InitType, NonceInit, OwnerInit, MachineInit
  <1>2. NonceInv /\ OwnerInv /\ MachineInv /\ [Next]_vars
           => NonceInv' /\ OwnerInv' /\ MachineInv'
    BY NonceStep, OwnerStep, MachineStep DEF NonceInv
  <1> QED BY <1>1, <1>2, PromiseInit, PromiseStep, PTL DEF Spec, SingleUse, Promise!Spec
=============================================================================
