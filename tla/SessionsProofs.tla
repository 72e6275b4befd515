---------------------------- MODULE SessionsProofs ----------------------------
(* Theorems about Sessions, for any sets of users, members, machines, tokens *)
(* and requests, any duration, and with or without an idle timeout.          *)
EXTENDS Sessions, TLAPS

\* A row is that of its token's only session: its deadline is within the cap
\* fixed when it was created, and, for a user session, at most Idle after it
\* was last written.
RowOK(t) ==
    /\ created[t] = NoValue => rows[t] = NoValue
    /\ created[t] # NoValue => created[t] <= now
    /\ rows[t] # NoValue =>
         /\ created[t] # NoValue /\ touched[t] # NoValue
         /\ rows[t].renewableUntil = created[t] + Duration
         /\ rows[t].expiresAt <= created[t] + Duration
         /\ IsUser(rows[t].owner) /\ rows[t].scope = "full" /\ Idle # NoValue =>
              rows[t].expiresAt <= touched[t] + Idle

\* An authenticated request holds a token that was issued, and the deadline it
\* is about to write is within the cap and not too far ahead.
RequestOK(r) ==
    /\ At(r, "user") \/ At(r, "handler") \/ At(r, "write") =>
         req[r].token \in Tokens /\ created[req[r].token] # NoValue
    /\ At(r, "write") /\ Doing(r, "extend") =>
         /\ Idle # NoValue
         /\ req[r].deadline \in Deadlines
         /\ req[r].deadline <= created[req[r].token] + Duration
         /\ req[r].deadline <= now + Idle

TypeInv ==
    /\ TypeOK
    /\ \A t \in Tokens : RowOK(t)
    /\ \A r \in Requests : RequestOK(r)

LEMMA TypeInit == Init => TypeInv
  <1> SUFFICES ASSUME Init PROVE TypeInv
    OBVIOUS
  <1>1. TypeOK
    <2>1. 0 \in Times
      BY SessionAssumption DEF Times
    <2> QED BY <2>1 DEF Init, TypeOK
  <1>2. ASSUME NEW t \in Tokens PROVE RowOK(t)
    BY DEF Init, RowOK
  <1>3. ASSUME NEW r \in Requests PROVE RequestOK(r)
    BY DEF Init, RequestOK, At, InFlight
  <1> QED BY <1>1, <1>2, <1>3 DEF TypeInv

\* What a step leaves of a row it does not write a deadline to.
Keeps(t) ==
    rows'[t] # NoValue =>
        /\ rows[t] # NoValue
        /\ rows'[t].owner = rows[t].owner
        /\ rows'[t].scope = rows[t].scope
        /\ rows'[t].expiresAt = rows[t].expiresAt
        /\ rows'[t].renewableUntil = rows[t].renewableUntil
        /\ rows[t].revoked => rows'[t].revoked

\* A step that writes no deadline: rows are left alone, revoked or deleted.
Shrinks ==
    /\ rows' \in [Tokens -> Rows \cup {NoValue}]
    /\ \A t \in Tokens : Keeps(t)
    /\ UNCHANGED <<created, touched>>

LEMMA RevokedRow ==
  ASSUME NEW row \in Rows
  PROVE  LET f == [row EXCEPT !.revoked = TRUE]
         IN  /\ f \in Rows
             /\ f.owner = row.owner /\ f.scope = row.scope /\ f.expiresAt = row.expiresAt
             /\ f.renewableUntil = row.renewableUntil /\ f.revoked = TRUE
  BY DEF Rows

LEMMA RevokeShrinks ==
  ASSUME TypeOK, NEW ts \in SUBSET Tokens, \A t \in ts : rows[t] # NoValue,
         Revoke(ts), UNCHANGED <<created, touched>>
  PROVE  Shrinks
  <1>1. ASSUME NEW t \in Tokens
        PROVE  rows'[t] \in Rows \cup {NoValue} /\ Keeps(t)
    <2>1. CASE t \in ts
      <3>1. rows[t] \in Rows
        BY <2>1 DEF TypeOK
      <3>2. rows'[t] = [rows[t] EXCEPT !.revoked = TRUE]
        BY <2>1 DEF Revoke
      <3> QED BY <2>1, <3>1, <3>2, RevokedRow DEF Keeps
    <2>2. CASE t \notin ts
      BY <2>2 DEF Revoke, Keeps, TypeOK
    <2> QED BY <2>1, <2>2
  <1>2. DOMAIN rows' = Tokens /\ rows' = [t \in Tokens |-> rows'[t]]
    BY DEF Revoke
  <1> QED BY <1>1, <1>2 DEF Shrinks

LEMMA SameShrinks ==
  ASSUME TypeOK, UNCHANGED <<rows, created, touched>>
  PROVE  Shrinks
  BY DEF TypeOK, Shrinks, Keeps

\* Rows stay right when no deadline is written.
LEMMA RowsStay ==
  ASSUME TypeInv, Shrinks, now' \in {now, now + 1}
  PROVE  \A t \in Tokens : RowOK(t)'
  <1> SUFFICES ASSUME NEW t \in Tokens PROVE RowOK(t)'
    OBVIOUS
  <1>1. created[t] # NoValue => created[t] \in Nat
    BY DEF TypeInv, TypeOK, Times
  <1> QED BY <1>1 DEF TypeInv, TypeOK, RowOK, Shrinks, Keeps, Times, IsUser

\* A request that another step leaves alone stays right.
LEMMA RequestStays ==
  ASSUME TypeInv, NEW r \in Requests, req'[r] = req[r], created' = created,
         now' \in {now, now + 1}
  PROVE  RequestOK(r)'
  <1>1. Idle # NoValue => Idle \in Nat
    BY SessionAssumption
  <1>2. now \in Nat
    BY DEF TypeInv, TypeOK, Times
  <1>3. At(r, "write") /\ Doing(r, "extend") => req[r].deadline \in Nat
    BY SessionAssumption DEF TypeInv, RequestOK, Deadlines
  <1> QED BY <1>1, <1>2, <1>3 DEF TypeInv, RequestOK, At, Doing, InFlight

LEMMA IdleRequest ==
  ASSUME NEW r \in Requests, req'[r] = Waiting
  PROVE  RequestOK(r)'
  BY DEF RequestOK, At, InFlight, Doing

\* What every step that writes no deadline comes down to.
LEMMA ShrinkStep ==
  ASSUME TypeInv, Shrinks, now' \in {now, now + 1}, now' \in Times, orgDeleted' \in BOOLEAN,
         late' \subseteq Requests, req' \in [Requests -> RequestRecords \cup {Waiting}],
         NEW r, \A q \in Requests \ {r} : req'[q] = req[q],
         r \in Requests => RequestOK(r)'
  PROVE  TypeInv'
  <1>1. TypeOK'
    BY DEF TypeInv, TypeOK, Shrinks
  <1>2. \A t \in Tokens : RowOK(t)'
    BY RowsStay
  <1>3. ASSUME NEW q \in Requests PROVE RequestOK(q)'
    BY <1>3, RequestStays DEF Shrinks
  <1> QED BY <1>1, <1>2, <1>3 DEF TypeInv

LEMMA StartStep ==
  ASSUME TypeInv, NEW r \in Requests, NEW pc \in {"user", "create"}, NEW op \in Ops \cup {"login", "docs"},
         NEW p \in Principals, NEW t \in Tokens \cup {NoValue}, NEW target \in Tokens \cup {NoValue},
         Start(r, pc, op, p, t, target), pc = "user" => t \in Tokens /\ created[t] # NoValue,
         UNCHANGED <<now, rows, orgDeleted, created, touched>>
  PROVE  TypeInv' /\ Shrinks
  <1> DEFINE new == [pc |-> pc, op |-> op, owner |-> p, token |-> t, target |-> target, deadline |-> NoValue]
  <1>1. new \in RequestRecords
    BY DEF RequestRecords
  <1>2. /\ req' \in [Requests -> RequestRecords \cup {Waiting}]
        /\ req'[r] = new
        /\ \A q \in Requests \ {r} : req'[q] = req[q]
        /\ late' \subseteq Requests
    BY <1>1 DEF Start, TypeInv, TypeOK
  <1>3. RequestOK(r)'
    BY <1>2 DEF RequestOK, At, Doing, InFlight
  <1>4. Shrinks
    BY SameShrinks DEF TypeInv
  <1> QED BY <1>2, <1>3, <1>4, ShrinkStep DEF TypeInv, TypeOK

\* An active row is one of a token that was issued.
LEMMA ActiveRow ==
  ASSUME TypeInv, NEW t \in Tokens, Active(t)
  PROVE  rows[t] \in Rows /\ rows[t].owner \in Principals /\ created[t] # NoValue
  BY DEF TypeInv, TypeOK, RowOK, Active, Rows

LEMMA NewRow ==
  ASSUME TypeInv, NEW p \in Principals, NEW scope \in {"full", "docs"}
  PROVE  LET row == [owner |-> p, scope |-> scope, expiresAt |-> FirstDeadline(p, scope),
                     renewableUntil |-> now + Duration, revoked |-> FALSE]
         IN  /\ row \in Rows
             /\ now < FirstDeadline(p, scope) /\ FirstDeadline(p, scope) <= now + Duration
             /\ IsUser(p) /\ scope = "full" /\ Idle # NoValue => FirstDeadline(p, scope) = now + Idle
  <1>1. now \in Nat /\ now <= MaxTime /\ Duration \in Nat \ {0} /\ MaxTime \in Nat
    BY SessionAssumption DEF TypeInv, TypeOK, Times
  <1>2. Idle # NoValue => Idle \in Nat \ {0} /\ Idle <= Duration
    BY SessionAssumption
  <1>3. /\ FirstDeadline(p, scope) \in Deadlines /\ now + Duration \in Deadlines
        /\ now < FirstDeadline(p, scope) /\ FirstDeadline(p, scope) <= now + Duration
    BY <1>1, <1>2 DEF FirstDeadline, Deadlines
  <1> QED BY <1>3 DEF Rows, FirstDeadline

\* A step that issues one token, and leaves the others alone.
Issues ==
    /\ now' = now
    /\ \E t \in Tokens :
          /\ created[t] = NoValue
          /\ created' = [created EXCEPT ![t] = now]
          /\ \A s \in Tokens \ {t} : rows'[s] = rows[s]
          /\ Active(t)'

LEMMA CreateStep ==
  ASSUME TypeInv, NEW r \in Requests, CreateSession(r)
  PROVE  TypeInv' /\ Issues
  <1> DEFINE scope == IF Doing(r, "docs") THEN "docs" ELSE "full"
             p == req[r].owner
             row == [owner |-> p, scope |-> scope, expiresAt |-> FirstDeadline(p, scope),
                     renewableUntil |-> now + Duration, revoked |-> FALSE]
  <1>1. PICK t \in Tokens : /\ created[t] = NoValue
                            /\ rows' = [rows EXCEPT ![t] = row]
                            /\ created' = [created EXCEPT ![t] = now]
                            /\ touched' = [touched EXCEPT ![t] = now]
    BY DEF CreateSession
  <1>2. p \in Principals
    BY DEF CreateSession, At, InFlight, TypeInv, TypeOK, RequestRecords
  <1>3. /\ row \in Rows
        /\ now < FirstDeadline(p, scope) /\ FirstDeadline(p, scope) <= now + Duration
        /\ IsUser(p) /\ scope = "full" /\ Idle # NoValue => FirstDeadline(p, scope) = now + Idle
    <2> HIDE DEF p
    <2>1. scope \in {"full", "docs"}
      OBVIOUS
    <2> HIDE DEF scope
    <2> QED BY <1>2, <2>1, NewRow
  <1>4. UNCHANGED <<now, orgDeleted, late>> /\ Finish(r)
    BY DEF CreateSession
  <1>5. row # NoValue
    BY <1>3, NullAssumption
  <1>6. /\ rows'[t] = row /\ created'[t] = now /\ touched'[t] = now
        /\ \A s \in Tokens \ {t} : rows'[s] = rows[s] /\ created'[s] = created[s] /\ touched'[s] = touched[s]
    BY <1>1 DEF TypeInv, TypeOK
  <1>7. /\ row.owner = p /\ row.scope = scope /\ row.expiresAt = FirstDeadline(p, scope)
        /\ row.renewableUntil = now + Duration /\ row.revoked = FALSE
    OBVIOUS
  <1>8. now \in Nat /\ now \in Times /\ now # NoValue
    BY SessionAssumption DEF TypeInv, TypeOK, Times
  <1> HIDE DEF row, p, scope
  <1>9. TypeOK'
    BY <1>1, <1>3, <1>4, <1>8 DEF TypeInv, TypeOK, Finish
  <1>10. ASSUME NEW s \in Tokens PROVE RowOK(s)'
    <2>1. CASE s = t
      <3>1. created'[s] = now /\ touched'[s] = now /\ rows'[s] = row /\ now' = now
        BY <2>1, <1>4, <1>6
      <3>2. /\ rows'[s].renewableUntil = created'[s] + Duration
            /\ rows'[s].expiresAt <= created'[s] + Duration
        BY <3>1, <1>3, <1>7
      <3>3. ASSUME IsUser(rows'[s].owner), rows'[s].scope = "full", Idle # NoValue
            PROVE  rows'[s].expiresAt <= touched'[s] + Idle
        <4>1. FirstDeadline(p, scope) = now + Idle
          BY <3>1, <3>3, <1>3, <1>7
        <4>2. Idle \in Nat
          BY <3>3, SessionAssumption
        <4>3. rows'[s].expiresAt = now + Idle
          BY <3>1, <1>7, <4>1
        <4> QED BY <3>1, <4>2, <4>3, <1>8
      <3>4. created'[s] # NoValue /\ touched'[s] # NoValue /\ created'[s] <= now'
        BY <3>1, <1>8
      <3> QED BY <3>2, <3>3, <3>4 DEF RowOK, IsUser
    <2>2. CASE s # t
      BY <2>2, <1>4, <1>6 DEF TypeInv, RowOK, IsUser
    <2> QED BY <2>1, <2>2
  <1>11. ASSUME NEW q \in Requests PROVE RequestOK(q)'
    <2>1. CASE q = r
      BY <2>1, <1>4, IdleRequest DEF Finish, TypeInv, TypeOK
    <2>2. CASE q # r
      <3>1. req'[q] = req[q]
        BY <2>2, <1>4 DEF Finish, TypeInv, TypeOK
      <3>2. RequestOK(q)
        BY DEF TypeInv
      <3>3. At(q, "user") \/ At(q, "handler") \/ At(q, "write") =>
               req[q].token # t /\ created'[req[q].token] = created[req[q].token]
        BY <1>1, <1>6, <3>2 DEF RequestOK
      <3> QED BY <1>4, <3>1, <3>2, <3>3 DEF RequestOK, At, Doing, InFlight
    <2> QED BY <2>1, <2>2
  <1>12. Active(t)'
    BY <1>3, <1>4, <1>5, <1>6, <1>7 DEF Active
  <1>13. Issues
    BY <1>1, <1>4, <1>6, <1>12 DEF Issues
  <1> QED BY <1>9, <1>10, <1>11, <1>13 DEF TypeInv

\* A step in which nothing that had ended, or was never issued, becomes active.
Monotone ==
    /\ now' \in {now, now + 1}
    /\ created' = created
    /\ \A t \in Tokens : Active(t)' => Active(t)

LEMMA ShrinkMonotone ==
  ASSUME TypeInv, Shrinks, now' \in {now, now + 1}
  PROVE  Monotone
  <1> SUFFICES ASSUME NEW t \in Tokens, Active(t)' PROVE Active(t)
    BY DEF Monotone, Shrinks
  <1>1. rows'[t] \in Rows /\ rows[t] \in Rows
    BY DEF Active, Shrinks, Keeps, TypeInv, TypeOK
  <1>2. rows[t].revoked => rows'[t].revoked
    BY DEF Active, Shrinks, Keeps
  <1>3. rows'[t].expiresAt = rows[t].expiresAt /\ rows[t] # NoValue
    BY DEF Active, Shrinks, Keeps
  <1>4. rows[t].expiresAt \in Nat /\ now \in Nat
    BY <1>1, SessionAssumption DEF Rows, Deadlines, TypeInv, TypeOK, Times
  <1> QED BY <1>1, <1>2, <1>3, <1>4 DEF Active

LEMMA FinishStep ==
  ASSUME TypeInv, NEW r \in Requests, Finish(r), Shrinks, UNCHANGED <<now, orgDeleted, late>>
  PROVE  TypeInv' /\ Monotone
  <1>1. /\ req' \in [Requests -> RequestRecords \cup {Waiting}]
        /\ req'[r] = Waiting
        /\ \A q \in Requests \ {r} : req'[q] = req[q]
    BY DEF Finish, TypeInv, TypeOK
  <1> QED BY <1>1, IdleRequest, ShrinkStep, ShrinkMonotone DEF TypeInv, TypeOK

LEMMA QuietStep ==
  ASSUME TypeInv, Shrinks, UNCHANGED <<req, late>>, now' \in {now, now + 1}, now' \in Times,
         orgDeleted' \in BOOLEAN
  PROVE  TypeInv' /\ Monotone
  <1>1. Waiting \in Requests => RequestOK(Waiting)'
    BY RequestStays DEF Shrinks
  <1> QED BY <1>1, ShrinkStep, ShrinkMonotone DEF TypeInv, TypeOK

LEMMA LoadStep ==
  ASSUME TypeInv, NEW r \in Requests, LoadPrincipal(r)
  PROVE  TypeInv' /\ Monotone
  <1>1. Shrinks
    BY SameShrinks DEF LoadPrincipal, TypeInv
  <1>2. req[r] \in RequestRecords /\ req[r].pc = "user"
    BY DEF LoadPrincipal, At, InFlight, TypeInv, TypeOK
  <1>3. CASE MembershipLives(req[r].owner)
    <2> DEFINE new == [req[r] EXCEPT !.pc = "handler"]
    <2>1. new \in RequestRecords /\ new.token = req[r].token /\ new.pc = "handler"
      BY <1>2 DEF RequestRecords
    <2>2. /\ req' \in [Requests -> RequestRecords \cup {Waiting}]
          /\ req'[r] = new
          /\ \A q \in Requests \ {r} : req'[q] = req[q]
      BY <1>3, <2>1 DEF LoadPrincipal, TypeInv, TypeOK
    <2>3. req[r].token \in Tokens /\ created[req[r].token] # NoValue
      BY DEF LoadPrincipal, TypeInv, RequestOK
    <2>4. created' = created
      BY DEF LoadPrincipal
    <2> HIDE DEF new
    <2>5. RequestOK(r)'
      BY <2>1, <2>2, <2>3, <2>4 DEF RequestOK, At, InFlight, Doing
    <2> QED BY <1>1, <2>2, <2>5, ShrinkStep, ShrinkMonotone DEF LoadPrincipal, TypeInv, TypeOK
  <1>4. CASE ~MembershipLives(req[r].owner)
    BY <1>1, <1>4, FinishStep DEF LoadPrincipal, Finish
  <1> QED BY <1>3, <1>4

LEMMA ExtendReadStep ==
  ASSUME TypeInv, NEW r \in Requests, ExtendRead(r)
  PROVE  TypeInv' /\ Monotone
  <1> DEFINE t == req[r].token
  <1>1. Shrinks
    BY SameShrinks DEF ExtendRead, TypeInv
  <1>2. /\ req[r] \in RequestRecords /\ t \in Tokens /\ created[t] # NoValue
        /\ UNCHANGED <<now, orgDeleted, late, created>>
    BY DEF ExtendRead, At, InFlight, TypeInv, TypeOK, RequestOK
  <1>3. CASE Active(t) /\ Idle # NoValue /\ Slide(t) # rows[t].expiresAt
    <2> DEFINE new == [req[r] EXCEPT !.pc = "write", !.deadline = Slide(t)]
    <2>1. /\ now \in Nat /\ now <= MaxTime /\ MaxTime \in Nat /\ Duration \in Nat
          /\ Idle \in Nat /\ Idle <= Duration
      BY <1>3, SessionAssumption DEF TypeInv, TypeOK, Times
    <2>2. rows[t] \in Rows /\ rows[t].renewableUntil = created[t] + Duration
      BY <1>2, <1>3 DEF Active, TypeInv, TypeOK, RowOK
    <2>3. rows[t].renewableUntil \in Nat /\ rows[t].renewableUntil <= MaxTime + Duration
      BY <2>1, <2>2 DEF Rows, Deadlines
    <2>4. /\ Slide(t) \in Deadlines
          /\ Slide(t) <= created[t] + Duration
          /\ Slide(t) <= now + Idle
      BY <2>1, <2>2, <2>3 DEF Slide, Earlier, Deadlines
    <2> HIDE DEF t
    <2>5. new \in RequestRecords /\ new.token = req[r].token /\ new.pc = "write" /\ new.deadline = Slide(t)
      BY <1>2, <2>4 DEF RequestRecords
    <2>6. /\ req' \in [Requests -> RequestRecords \cup {Waiting}]
          /\ req'[r] = new
          /\ \A q \in Requests \ {r} : req'[q] = req[q]
      BY <1>2, <1>3, <2>5 DEF ExtendRead, TypeInv, TypeOK, t
    <2> HIDE DEF new
    <2>7. RequestOK(r)'
      BY <1>2, <1>3, <2>4, <2>5, <2>6 DEF RequestOK, At, InFlight, Doing, t
    <2> QED BY <1>1, <1>2, <2>6, <2>7, ShrinkStep, ShrinkMonotone DEF TypeInv, TypeOK
  <1>4. CASE ~(Active(t) /\ Idle # NoValue /\ Slide(t) # rows[t].expiresAt)
    BY <1>1, <1>2, <1>4, FinishStep DEF ExtendRead
  <1> QED BY <1>3, <1>4

LEMMA ExtendWriteStep ==
  ASSUME TypeInv, NEW r \in Requests, ExtendWrite(r)
  PROVE  TypeInv' /\ Monotone
  <1> DEFINE t == req[r].token
             row == [rows[t] EXCEPT !.expiresAt = req[r].deadline]
  <1>1. /\ t \in Tokens /\ created[t] # NoValue /\ Idle # NoValue
        /\ req[r].deadline \in Deadlines
        /\ req[r].deadline <= created[t] + Duration /\ req[r].deadline <= now + Idle
        /\ UNCHANGED <<now, orgDeleted, late, created>> /\ Finish(r)
    BY DEF ExtendWrite, TypeInv, RequestOK
  <1>2. CASE ~Extendable(t)
    <2>1. Shrinks
      BY <1>1, <1>2, SameShrinks DEF ExtendWrite, TypeInv
    <2> QED BY <1>1, <2>1, FinishStep
  <1>3. CASE Extendable(t)
    <2>1. rows[t] \in Rows /\ rows[t] # NoValue /\ Active(t)
      BY <1>1, <1>3 DEF Extendable, Active, TypeInv, TypeOK
    <2>2. /\ row \in Rows /\ row.owner = rows[t].owner /\ row.scope = rows[t].scope
          /\ row.renewableUntil = rows[t].renewableUntil /\ row.expiresAt = req[r].deadline
      BY <1>1, <2>1 DEF Rows
    <2>3. /\ rows' = [rows EXCEPT ![t] = row] /\ touched' = [touched EXCEPT ![t] = now]
      BY <1>3 DEF ExtendWrite
    <2>4. /\ rows'[t] = row /\ touched'[t] = now
          /\ \A s \in Tokens \ {t} : rows'[s] = rows[s] /\ touched'[s] = touched[s]
      BY <1>1, <2>3 DEF TypeInv, TypeOK
    <2>5. now \in Times /\ now \in Nat /\ now # NoValue
      BY SessionAssumption DEF TypeInv, TypeOK, Times
    <2>6. RowOK(t)
      BY <1>1 DEF TypeInv
    <2> HIDE DEF row, t
    <2>7. TypeOK'
      BY <1>1, <2>2, <2>3, <2>5 DEF TypeInv, TypeOK, Finish
    <2>8. ASSUME NEW s \in Tokens PROVE RowOK(s)'
      <3>1. CASE s = t
        BY <3>1, <1>1, <2>1, <2>2, <2>4, <2>5, <2>6 DEF RowOK, IsUser
      <3>2. CASE s # t
        BY <3>2, <1>1, <2>4 DEF TypeInv, RowOK, IsUser
      <3> QED BY <3>1, <3>2
    <2>9. ASSUME NEW q \in Requests PROVE RequestOK(q)'
      <3>1. CASE q = r
        BY <3>1, <1>1, IdleRequest DEF Finish, TypeInv, TypeOK
      <3>2. CASE q # r
        BY <3>2, <1>1, RequestStays DEF Finish, TypeInv, TypeOK
      <3> QED BY <3>1, <3>2
    <2>10. \A s \in Tokens : Active(s)' => Active(s)
      BY <1>1, <2>1, <2>4 DEF Active
    <2> QED BY <1>1, <2>7, <2>8, <2>9, <2>10 DEF TypeInv, Monotone
  <1> QED BY <1>2, <1>3

LEMMA LogoutStep ==
  ASSUME TypeInv, NEW r \in Requests, Logout(r)
  PROVE  TypeInv' /\ Monotone
  <1>1. Shrinks
    BY DEF Logout, Shrinks, Keeps, TypeInv, TypeOK
  <1> QED BY <1>1, FinishStep DEF Logout

LEMMA RevokeReadStep ==
  ASSUME TypeInv, NEW r \in Requests, RevokeRead(r)
  PROVE  TypeInv' /\ Monotone
  <1> DEFINE mine == Active(req[r].target) /\ rows[req[r].target].owner = req[r].owner
  <1>1. Shrinks
    BY SameShrinks DEF RevokeRead, TypeInv
  <1>2. CASE mine
    <2> DEFINE new == [req[r] EXCEPT !.pc = "write"]
    <2>1. /\ req[r] \in RequestRecords /\ req[r].op = "revoke"
          /\ req[r].token \in Tokens /\ created[req[r].token] # NoValue
          /\ created' = created
      BY DEF RevokeRead, At, Doing, InFlight, TypeInv, TypeOK, RequestOK
    <2>2. new \in RequestRecords /\ new.token = req[r].token /\ new.op = "revoke"
      BY <2>1 DEF RequestRecords
    <2>3. /\ req' \in [Requests -> RequestRecords \cup {Waiting}]
          /\ req'[r] = new
          /\ \A q \in Requests \ {r} : req'[q] = req[q]
      BY <1>2, <2>2 DEF RevokeRead, TypeInv, TypeOK
    <2> HIDE DEF new
    <2>4. RequestOK(r)'
      BY <2>1, <2>2, <2>3 DEF RequestOK, At, InFlight, Doing
    <2> QED BY <1>1, <2>3, <2>4, ShrinkStep, ShrinkMonotone DEF RevokeRead, TypeInv, TypeOK
  <1>3. CASE ~mine
    BY <1>1, <1>3, FinishStep DEF RevokeRead, Finish
  <1> QED BY <1>2, <1>3

\* The revocations of rows that are there.
LEMMA RevokeSome ==
  ASSUME TypeInv, NEW ps, NEW more, NEW ts, ts = RowsOf(ps) \cap more \/ ts = Unrevoked(RowsOf(ps) \ more)
                  \/ ts = Unrevoked(RowsOf(ps)),
         Revoke(ts), UNCHANGED <<created, touched>>
  PROVE  Shrinks
  <1>1. ts \in SUBSET Tokens /\ \A t \in ts : rows[t] # NoValue
    BY DEF RowsOf, Unrevoked
  <1> QED BY <1>1, RevokeShrinks DEF TypeInv

LEMMA CleanupStep ==
  ASSUME TypeInv, Cleanup
  PROVE  TypeInv' /\ Monotone
  <1>1. Shrinks
    BY DEF Cleanup, Shrinks, Keeps, TypeInv, TypeOK
  <1> QED BY <1>1, QuietStep DEF Cleanup, TypeInv, TypeOK

LEMMA TickStep ==
  ASSUME TypeInv, Tick
  PROVE  TypeInv' /\ Monotone
  <1>1. Shrinks
    BY SameShrinks DEF Tick, TypeInv
  <1>2. now' \in Times
    BY SessionAssumption DEF Tick, TypeInv, TypeOK, Times
  <1> QED BY <1>1, <1>2, QuietStep DEF Tick, TypeInv, TypeOK

LEMMA HandlerStep ==
  ASSUME TypeInv, NEW r \in Requests, Handler(r)
  PROVE  TypeInv' /\ (Monotone \/ Issues)
  <1>1. CASE CreateSession(r)
    BY <1>1, CreateStep
  <1>2. CASE LoadPrincipal(r)
    BY <1>2, LoadStep
  <1>3. CASE Act(r) \/ Abort(r)
    <2>1. Shrinks
      BY <1>3, SameShrinks DEF Act, Abort, TypeInv
    <2> QED BY <1>3, <2>1, FinishStep DEF Act, Abort
  <1>4. CASE ExtendRead(r)
    BY <1>4, ExtendReadStep
  <1>5. CASE ExtendWrite(r)
    BY <1>5, ExtendWriteStep
  <1>6. CASE Logout(r)
    BY <1>6, LogoutStep
  <1>7. CASE RevokeRead(r)
    BY <1>7, RevokeReadStep
  <1>8. CASE RevokeWrite(r) \/ RevokeOthers(r)
    <2>1. Shrinks
      BY <1>8, RevokeSome DEF RevokeWrite, RevokeOthers
    <2> QED BY <1>8, <2>1, FinishStep DEF RevokeWrite, RevokeOthers
  <1> QED BY <1>1, <1>2, <1>3, <1>4, <1>5, <1>6, <1>7, <1>8 DEF Handler

LEMMA StartSteps ==
  ASSUME TypeInv, NEW r \in Requests,
         \/ \E p \in Principals : Login(r, p)
         \/ \E t \in Tokens : DocsRead(r, t)
         \/ \E t \in Tokens, op \in Ops \ {"revoke"} : Authenticate(r, t, op, NoValue)
         \/ \E t, target \in Tokens : Authenticate(r, t, "revoke", target)
  PROVE  TypeInv' /\ Monotone
  <1>1. /\ TypeInv' /\ Shrinks
        /\ now' = now
    <2>1. CASE \E p \in Principals : Login(r, p)
      BY <2>1, StartStep DEF Login
    <2>2. CASE \E t \in Tokens : DocsRead(r, t)
      BY <2>2, ActiveRow, StartStep DEF DocsRead
    <2>3. CASE \E t \in Tokens, op \in Ops \ {"revoke"} : Authenticate(r, t, op, NoValue)
      BY <2>3, ActiveRow, StartStep DEF Authenticate
    <2>4. CASE \E t, target \in Tokens : Authenticate(r, t, "revoke", target)
      BY <2>4, ActiveRow, StartStep DEF Authenticate, Ops
    <2> QED BY <2>1, <2>2, <2>3, <2>4
  <1> QED BY <1>1, ShrinkMonotone

LEMMA NextStep ==
  ASSUME TypeInv, [Next]_vars
  PROVE  TypeInv' /\ (Monotone \/ Issues)
  <1>1. ASSUME NEW r \in Requests, Handler(r)
        PROVE  TypeInv' /\ (Monotone \/ Issues)
    BY <1>1, HandlerStep
  <1>2. ASSUME NEW t \in Tokens, AdminRevoke(t)
        PROVE  TypeInv' /\ Monotone
    <2>1. Shrinks
      BY <1>2, RevokeShrinks DEF AdminRevoke, TypeInv
    <2> QED BY <1>2, <2>1, QuietStep DEF AdminRevoke, TypeInv, TypeOK
  <1>3. ASSUME NEW u \in Users, AdminRevokeAll(u)
        PROVE  TypeInv' /\ Monotone
    <2>1. Shrinks
      BY <1>3, RevokeSome DEF AdminRevokeAll
    <2> QED BY <1>3, <2>1, QuietStep DEF AdminRevokeAll, TypeInv, TypeOK
  <1>4. ASSUME OrgRevoke \/ DeleteOrg
        PROVE  TypeInv' /\ Monotone
    <2>1. Shrinks
      BY <1>4, RevokeSome DEF OrgRevoke, DeleteOrg
    <2> QED BY <1>4, <2>1, QuietStep DEF OrgRevoke, DeleteOrg, TypeInv, TypeOK
  <1>5. ASSUME UNCHANGED vars
        PROVE  TypeInv' /\ Monotone
    <2>1. Shrinks
      BY <1>5, SameShrinks DEF vars, TypeInv
    <2> QED BY <1>5, <2>1, QuietStep DEF vars, TypeInv, TypeOK
  <1> QED BY <1>1, <1>2, <1>3, <1>4, <1>5, StartSteps, CleanupStep, TickStep DEF Next

\* Every reachable state is well typed, and every row, request and token as
\* RowOK and RequestOK say.
THEOREM TypeInvariant == Spec => []TypeInv
  <1>1. Init => TypeInv
    BY TypeInit
  <1>2. TypeInv /\ [Next]_vars => TypeInv'
    BY NextStep
  <1> QED BY <1>1, <1>2, PTL DEF Spec

\* Every reachable state of the sessions is well typed.
THEOREM TypeCorrect == Spec => []TypeOK
  BY TypeInvariant, PTL DEF TypeInv

\* No interleaving of extensions, revocations and collections lets a session
\* live past its cap, or a user session past its idle timeout
\* (SessionService.extendSession).
THEOREM LimitsKept == Spec => []IdleAndCap
  <1>1. TypeInv => IdleAndCap
    <2> SUFFICES ASSUME TypeInv, NEW t \in Tokens, Active(t)
                 PROVE  /\ now < created[t] + Duration
                        /\ IsUser(rows[t].owner) /\ rows[t].scope = "full" /\ Idle # NoValue =>
                              now < touched[t] + Idle
      BY DEF IdleAndCap
    <2>1. rows[t] \in Rows /\ created[t] \in Nat /\ touched[t] \in Nat /\ now \in Nat
      BY DEF Active, TypeInv, TypeOK, RowOK, Times
    <2>2. rows[t].expiresAt \in Nat /\ Duration \in Nat /\ (Idle # NoValue => Idle \in Nat)
      BY <2>1, SessionAssumption DEF Rows, Deadlines
    <2> QED BY <2>1, <2>2 DEF Active, TypeInv, RowOK
  <1> QED BY <1>1, TypeInvariant, PTL

\* The sessions implement Lease, for any sets of users, tokens and requests: a
\* token is issued once, is good for at most Duration, and once it has ended
\* no extension that was in flight makes it good again.
THEOREM EndedSessionsStayEnded == Spec => EndedForGood
  <1>1. Init => Promise!Init
    BY DEF Init, Promise!Init, LeaseState
  <1>2. ASSUME TypeInv, TypeInv', Monotone
        PROVE  [Promise!Next]_<<now, LeaseState>>
    <2> DEFINE ending == {t \in Tokens : Active(t) /\ ~Active(t)'}
    <2>1. \A t \in Tokens : Active(t) => created[t] # NoValue
      BY <1>2, ActiveRow
    <2>2. \A t \in ending : LeaseState[t].is = "good"
      BY <2>1 DEF LeaseState
    <2>3. ASSUME NEW t \in Tokens \ ending, LeaseState[t].is = "good"
          PROVE  now' < LeaseState[t].since + Duration
      <3>1. Active(t) /\ Active(t)' /\ created'[t] = created[t]
        BY <1>2, <2>3 DEF LeaseState, Monotone
      <3>2. now' < created'[t] + Duration
        <4>1. /\ rows'[t] # NoValue /\ rows'[t] \in Rows /\ now' \in Nat
              /\ rows'[t].expiresAt > now'
          BY <1>2, <3>1 DEF Active, TypeInv, TypeOK, Times
        <4>2. rows'[t].expiresAt <= created'[t] + Duration /\ created'[t] \in Nat
          BY <1>2, <4>1 DEF TypeInv, TypeOK, RowOK, Times
        <4>3. rows'[t].expiresAt \in Nat /\ Duration \in Nat
          BY <4>1, SessionAssumption DEF Rows, Deadlines
        <4> QED BY <4>1, <4>2, <4>3
      <3> QED BY <2>1, <3>1, <3>2 DEF LeaseState
    <2>4. LeaseState' = [t \in Tokens |->
                          IF t \in ending THEN [LeaseState[t] EXCEPT !.is = "ended"] ELSE LeaseState[t]]
      <3>1. ASSUME NEW t \in Tokens
            PROVE  LeaseState'[t] = IF t \in ending THEN [LeaseState[t] EXCEPT !.is = "ended"] ELSE LeaseState[t]
        <4>1. created'[t] = created[t] /\ (Active(t)' => Active(t)) /\ (Active(t) => created[t] # NoValue)
          BY <1>2, <2>1 DEF Monotone
        <4> QED BY <4>1 DEF LeaseState
      <3> QED BY <3>1 DEF LeaseState
    <2>5. ending \in SUBSET Tokens /\ now' \in {now, now + 1}
      BY <1>2 DEF Monotone
    <2> HIDE DEF ending
    <2>6. Promise!End(ending, now')
      BY <2>2, <2>3, <2>4 DEF Promise!End
    <2> QED BY <2>5, <2>6 DEF Promise!Next
  <1>3. ASSUME TypeInv, TypeInv', Issues
        PROVE  [Promise!Next]_<<now, LeaseState>>
    <2>1. PICK t \in Tokens : /\ created[t] = NoValue
                              /\ created' = [created EXCEPT ![t] = now]
                              /\ \A s \in Tokens \ {t} : rows'[s] = rows[s]
                              /\ Active(t)'
      BY <1>3 DEF Issues
    <2>2. now \in Nat /\ now # NoValue /\ now' = now
      BY <1>3, SessionAssumption DEF TypeInv, TypeOK, Times, Issues
    <2>3. /\ created'[t] = now
          /\ \A s \in Tokens \ {t} : created'[s] = created[s] /\ (Active(s)' <=> Active(s))
      BY <1>3, <2>1, <2>2 DEF TypeInv, TypeOK, Active
    <2>4. LeaseState[t].is = "unissued"
      BY <2>1 DEF LeaseState
    <2>5. LeaseState' = [LeaseState EXCEPT ![t] = [is |-> "good", since |-> now]]
      <3>1. LeaseState'[t] = [is |-> "good", since |-> now]
        BY <2>1, <2>2, <2>3 DEF LeaseState
      <3>2. \A s \in Tokens \ {t} : LeaseState'[s] = LeaseState[s]
        BY <2>3 DEF LeaseState
      <3> QED BY <3>1, <3>2 DEF LeaseState
    <2>6. Promise!Issue(t)
      BY <2>2, <2>4, <2>5 DEF Promise!Issue
    <2> QED BY <2>6 DEF Promise!Next
  <1>4. TypeInv /\ TypeInv' /\ [Next]_vars => [Promise!Next]_<<now, LeaseState>>
    BY <1>2, <1>3, NextStep
  <1> QED BY <1>1, <1>4, TypeInvariant, PTL DEF Spec, EndedForGood, Promise!Spec

\* Requests that began after the deletion of the organization know it.
LateInv ==
    /\ late # {} => orgDeleted
    /\ DeletedOrgLockedOut

\* Once the organization is deleted no request of a member that begins
\* afterwards passes the authentication hook, whatever sessions the logins in
\* flight still create.
THEOREM MembersLockedOut == Spec => []DeletedOrgLockedOut
  <1>1. Init => LateInv
    BY DEF Init, LateInv, DeletedOrgLockedOut
  <1>2. ASSUME TypeInv, LateInv, [Next]_vars
        PROVE  LateInv'
    <2> DEFINE OK(r) == At(r, "handler") \/ At(r, "write") => req[r].owner \notin Members
    <2>1. ASSUME NEW r \in Requests, NEW pc \in {"user", "create"}, NEW op, NEW p, NEW t, NEW target,
                 Start(r, pc, op, p, t, target), UNCHANGED orgDeleted
          PROVE  LateInv'
      <3>1. ASSUME NEW q \in late' PROVE OK(q)'
        <4>1. CASE q = r
          <5>1. req'[q].pc = pc
            BY <1>2, <2>1, <4>1 DEF Start, TypeInv, TypeOK
          <5> QED BY <5>1 DEF At
        <4>2. CASE q # r
          <5>1. q \in late /\ q \in Requests /\ req'[q] = req[q]
            BY <1>2, <2>1, <3>1, <4>2 DEF Start, TypeInv, TypeOK
          <5> QED BY <1>2, <5>1 DEF LateInv, DeletedOrgLockedOut, At, InFlight
        <4> QED BY <4>1, <4>2
      <3>2. late' # {} => orgDeleted'
        BY <1>2, <2>1 DEF Start, LateInv
      <3> QED BY <3>1, <3>2 DEF LateInv, DeletedOrgLockedOut
    <2>2. ASSUME NEW r \in Requests, late' = late, orgDeleted \/ late = {} => orgDeleted' \/ late' = {},
                 \A q \in Requests \ {r} : req'[q] = req[q],
                 r \in late => OK(r)'
          PROVE  LateInv'
      <3>1. ASSUME NEW q \in late' PROVE OK(q)'
        <4>1. CASE q = r
          BY <2>2, <3>1, <4>1
        <4>2. CASE q # r
          <5>1. q \in late /\ q \in Requests /\ req'[q] = req[q]
            BY <1>2, <2>2, <3>1, <4>2 DEF TypeInv, TypeOK
          <5> QED BY <1>2, <5>1 DEF LateInv, DeletedOrgLockedOut, At, InFlight
        <4> QED BY <4>1, <4>2
      <3>2. late' # {} => orgDeleted'
        BY <1>2, <2>2 DEF LateInv
      <3> QED BY <3>1, <3>2 DEF LateInv, DeletedOrgLockedOut
    <2>3. ASSUME NEW r \in Requests, Finish(r), UNCHANGED <<orgDeleted, late>>
          PROVE  LateInv'
      <3>1. req'[r] = Waiting /\ \A q \in Requests \ {r} : req'[q] = req[q]
        BY <1>2, <2>3 DEF Finish, TypeInv, TypeOK
      <3>2. OK(r)'
        BY <3>1 DEF At, InFlight
      <3> QED BY <2>2, <2>3, <3>1, <3>2
    <2>4. ASSUME UNCHANGED <<req, late>>, orgDeleted => orgDeleted'
          PROVE  LateInv'
      BY <1>2, <2>4 DEF LateInv, DeletedOrgLockedOut, At, InFlight
    <2>5. ASSUME NEW r \in Requests, Handler(r)
          PROVE  LateInv'
      <3>1. CASE CreateSession(r) \/ Act(r) \/ ExtendWrite(r) \/ Logout(r) \/ RevokeWrite(r)
                   \/ RevokeOthers(r) \/ Abort(r)
        BY <2>3, <3>1 DEF CreateSession, Act, ExtendWrite, Logout, RevokeWrite, RevokeOthers, Abort
      <3>2. CASE LoadPrincipal(r)
        <4>1. /\ UNCHANGED <<orgDeleted, late>>
              /\ \A q \in Requests \ {r} : req'[q] = req[q]
              /\ req'[r] = IF MembershipLives(req[r].owner) THEN [req[r] EXCEPT !.pc = "handler"] ELSE Waiting
              /\ req[r] \in RequestRecords
          BY <1>2, <3>2 DEF LoadPrincipal, At, InFlight, TypeInv, TypeOK
        <4>2. [req[r] EXCEPT !.pc = "handler"].owner = req[r].owner
          BY <4>1 DEF RequestRecords
        <4>3. r \in late => OK(r)'
          BY <1>2, <4>1, <4>2 DEF LateInv, MembershipLives, At, InFlight
        <4> QED BY <2>2, <4>1, <4>3
      <3>3. CASE ExtendRead(r) \/ RevokeRead(r)
        <4>1. /\ UNCHANGED <<orgDeleted, late>> /\ At(r, "handler")
              /\ \A q \in Requests \ {r} : req'[q] = req[q]
              /\ req[r] \in RequestRecords
          BY <1>2, <3>3 DEF ExtendRead, RevokeRead, Finish, At, InFlight, TypeInv, TypeOK
        <4>2. req'[r] = Waiting \/ req'[r].owner = req[r].owner
          BY <1>2, <3>3, <4>1 DEF ExtendRead, RevokeRead, Finish, TypeInv, TypeOK, RequestRecords
        <4>3. r \in late => OK(r)'
          BY <1>2, <4>1, <4>2 DEF LateInv, DeletedOrgLockedOut, At, InFlight
        <4> QED BY <2>2, <4>1, <4>3
      <3> QED BY <2>5, <3>1, <3>2, <3>3 DEF Handler
    <2>6. CASE \/ \E r \in Requests, p \in Principals : Login(r, p)
               \/ \E r \in Requests, t \in Tokens : DocsRead(r, t)
               \/ \E r \in Requests, t \in Tokens, op \in Ops \ {"revoke"} : Authenticate(r, t, op, NoValue)
               \/ \E r \in Requests, t, target \in Tokens : Authenticate(r, t, "revoke", target)
      BY <2>1, <2>6 DEF Login, DocsRead, Authenticate
    <2>7. CASE \/ \E t \in Tokens : AdminRevoke(t)
               \/ \E u \in Users : AdminRevokeAll(u)
               \/ OrgRevoke \/ DeleteOrg \/ Cleanup \/ Tick \/ UNCHANGED vars
      BY <2>4, <2>7 DEF AdminRevoke, AdminRevokeAll, OrgRevoke, DeleteOrg, Cleanup, Tick, vars
    <2> QED BY <1>2, <2>5, <2>6, <2>7 DEF Next
  <1>3. LateInv => DeletedOrgLockedOut
    BY DEF LateInv
  <1> QED BY <1>1, <1>2, <1>3, TypeInvariant, PTL DEF Spec
===============================================================================
