----------------------------- MODULE FaucetProofs -----------------------------
(* Theorems about Faucet, for any sets of users, claims and requests and any *)
(* setting of the times in which a reservation outlives its request.         *)
EXTENDS Faucet, FiniteSetTheorems, TLAPS

Holding(r) == InFlight(r) /\ req[r].pc # "reserve"

\* What a request knows stays true: it is younger than MaxLatency, the rows it
\* recovers are stale, and its own reservation is pending and as old as it is.
RequestOK(r) ==
    /\ InFlight(r) => req[r].started <= now /\ now <= req[r].started + MaxLatency
    /\ At(r, "reserve") => /\ req[r].claim = NoValue
                           /\ \A c \in req[r].recovered : Stale(c)
    /\ Holding(r) => /\ req[r].claim \in Claims
                     /\ req[r].recovered = {}
                     /\ Status(req[r].claim, "pending")
                     /\ claims[req[r].claim].created = req[r].started

RequestsOK == \A r \in Requests : RequestOK(r)

\* No two requests recover, or hold, the same row.
DisjointOK ==
    \A r, q \in Requests :
        r # q => /\ At(r, "reserve") /\ At(q, "reserve")
                       => req[r].recovered \cap req[q].recovered = {}
                 /\ Holding(r) /\ Holding(q) => req[r].claim # req[q].claim

TypeInv == TypeOK /\ RequestsOK /\ DisjointOK

LEMMA TypeInit == Init => TypeInv
  BY FaucetAssumption DEF Init, TypeInv, TypeOK, RequestsOK, RequestOK, DisjointOK, Times, InFlight,
                          At, Holding, Idle, Of

\* A reservation is not stale while its request lives.
LEMMA HeldNotStale ==
  ASSUME TypeInv, NEW r \in Requests, Holding(r)
  PROVE  ~Stale(req[r].claim)
  <1> DEFINE c == req[r].claim
  <1>1. /\ c \in Claims /\ claims[c] # NoValue
        /\ claims[c].created = req[r].started /\ claims[c].created \in Nat
        /\ now <= req[r].started + MaxLatency /\ now \in Nat
    BY FaucetAssumption DEF TypeInv, TypeOK, RequestsOK, RequestOK, Holding, Status, Rows, Times
  <1> QED BY <1>1, FaucetAssumption, StaleAssumption DEF Stale

LEMMA FailedRow ==
  ASSUME NEW row \in Rows
  PROVE  LET f == [row EXCEPT !.status = "failed"]
         IN  f \in Rows /\ f # NoValue /\ f.status = "failed" /\ f.user = row.user
  <1>1. [row EXCEPT !.status = "failed"] \in Rows
    BY DEF Rows
  <1> QED BY <1>1, NullAssumption DEF Rows

\* What becomes of the rows when stale ones are failed.
LEMMA FailStep ==
  ASSUME TypeInv, NEW cs \in SUBSET Claims, \A c \in cs : Stale(c), claims' = Failed(cs)
  PROVE  /\ claims' \in [Claims -> Rows \cup {NoValue}]
         /\ \A c \in Claims \ cs : claims'[c] = claims[c]
         /\ \A c \in cs : /\ claims'[c].status = "failed" /\ claims'[c] # NoValue
                          /\ claims[c] # NoValue
                          /\ claims'[c].user = claims[c].user
         /\ \A r \in Requests : Holding(r) => claims'[req[r].claim] = claims[req[r].claim]
  <1>1. \A c \in cs : claims[c] \in Rows /\ claims[c] # NoValue
    BY DEF TypeInv, TypeOK, Stale, Status
  <1>4. \A c \in cs : claims'[c] = [claims[c] EXCEPT !.status = "failed"]
    BY DEF Failed
  <1>5. /\ claims' \in [Claims -> Rows \cup {NoValue}]
        /\ \A c \in Claims \ cs : claims'[c] = claims[c]
    BY <1>1, FailedRow DEF Failed, TypeInv, TypeOK
  <1>6. \A c \in cs : /\ claims'[c].status = "failed" /\ claims'[c] # NoValue
                      /\ claims[c] # NoValue
                      /\ claims'[c].user = claims[c].user
    <2> SUFFICES ASSUME NEW c \in cs
                 PROVE  /\ claims'[c].status = "failed" /\ claims'[c] # NoValue
                        /\ claims[c] # NoValue /\ claims'[c].user = claims[c].user
      OBVIOUS
    <2>1. claims[c] \in Rows /\ claims[c] # NoValue
      BY <1>1
    <2>2. claims'[c] = [claims[c] EXCEPT !.status = "failed"]
      BY <1>4
    <2>3. claims'[c] \in Rows /\ claims'[c].status = "failed" /\ claims'[c].user = claims[c].user
      BY <2>1, <2>2 DEF Rows
    <2> QED BY <2>1, <2>3, NullAssumption
  <1>7. \A r \in Requests : Holding(r) => req[r].claim \in Claims \ cs
    BY HeldNotStale DEF TypeInv, RequestsOK, RequestOK
  <1> QED BY <1>5, <1>6, <1>7

\* A reservation begins, or finds the user blocked.
LEMMA ClaimStep ==
  ASSUME TypeInv, NEW r \in Requests, NEW u \in Users, Claim(r, u)
  PROVE  TypeInv'
  <1> USE FaucetAssumption
  <1>1. /\ Recovered(u) \in SUBSET Claims
        /\ \A c \in Recovered(u) : Stale(c) /\ ~Locked(c) /\ c \in Of(u)
    BY DEF Claim, Recovered, Of
  <1>2. CASE \E c \in Of(u) : Blocking(c)
    <2>1. /\ claims' = Failed(Recovered(u))
          /\ UNCHANGED <<now, transfers, req, raced, lost>>
      BY <1>2 DEF Claim
    <2>2. /\ claims' \in [Claims -> Rows \cup {NoValue}]
          /\ \A c \in Claims \ Recovered(u) : claims'[c] = claims[c]
          /\ \A c \in Recovered(u) : claims'[c].status = "failed" /\ claims'[c] # NoValue
          /\ \A c \in Recovered(u) : claims[c] # NoValue /\ claims'[c].user = claims[c].user
          /\ \A q \in Requests : Holding(q) => claims'[req[q].claim] = claims[req[q].claim]
      BY <1>1, <2>1, FailStep
    <2>3. \A q \in Requests : At(q, "reserve") =>
             \A c \in req[q].recovered : c \in Claims \ Recovered(u)
      BY <1>1 DEF Locked, At, InFlight, TypeInv, TypeOK, RequestRecords, Idle
    <2>4. TypeOK'
      BY <2>1, <2>2 DEF TypeInv, TypeOK, Of, Status
    <2>5. RequestsOK'
      BY <2>1, <2>2, <2>3 DEF TypeInv, RequestsOK, RequestOK, At, InFlight, Holding, Status, Stale
    <2>6. DisjointOK'
      BY <2>1 DEF TypeInv, DisjointOK, At, InFlight, Holding
    <2> QED BY <2>4, <2>5, <2>6 DEF TypeInv
  <1>3. CASE ~\E c \in Of(u) : Blocking(c)
    <2> DEFINE q0 == [pc |-> "reserve", user |-> u, claim |-> NoValue,
                      recovered |-> Recovered(u), started |-> now]
    <2>1. /\ ~InFlight(r)
          /\ req' = [req EXCEPT ![r] = q0]
          /\ raced' \in {raced, raced \cup {u}}
          /\ UNCHANGED <<now, claims, transfers, lost>>
      BY <1>3 DEF Claim
    <2>2. q0 \in RequestRecords /\ now \in Nat
      BY <1>1 DEF RequestRecords, TypeInv, TypeOK, Times
    <2>3. TypeOK'
      BY <2>1, <2>2 DEF TypeInv, TypeOK, Of, Status
    <2>4. /\ req'[r] = q0 /\ q0.pc = "reserve" /\ q0 # Idle
          /\ \A q \in Requests \ {r} : req'[q] = req[q]
      BY <2>1 DEF TypeInv, TypeOK, Idle
    <2>5. RequestsOK'
      BY <1>1, <2>1, <2>2, <2>4 DEF TypeInv, RequestsOK, RequestOK, At, InFlight, Holding, Status, Stale
    <2>6. DisjointOK'
      BY <1>1, <2>1, <2>4 DEF TypeInv, DisjointOK, At, InFlight, Holding, Locked
    <2> QED BY <2>3, <2>5, <2>6 DEF TypeInv
  <1> QED BY <1>2, <1>3

\* A reservation ends, with a claim or without.
LEMMA ReserveStep ==
  ASSUME TypeInv, NEW r \in Requests, Reserve(r)
  PROVE  TypeInv'
  <1> USE FaucetAssumption
  <1> DEFINE cs == req[r].recovered
  <1>1. /\ req[r] \in RequestRecords /\ req[r].pc = "reserve" /\ cs \in SUBSET Claims
        /\ \A c \in cs : Stale(c)
        /\ UNCHANGED <<now, transfers, raced, lost>>
        /\ At(r, "reserve")
    BY DEF Reserve, At, InFlight, TypeInv, TypeOK, RequestsOK, RequestOK, RequestRecords
  <1>2. \A q \in Requests \ {r} : At(q, "reserve") => req[q].recovered \cap cs = {}
    BY <1>1 DEF TypeInv, DisjointOK
  <1>3. ASSUME claims' = Failed(cs) \/ claims' = claims, Finish(r) PROVE TypeInv'
    <2>1. /\ claims' \in [Claims -> Rows \cup {NoValue}]
          /\ \A c \in Claims \ cs : claims'[c] = claims[c]
          /\ \A c \in cs : claims'[c] = claims[c] \/ claims'[c].status = "failed"
          /\ \A c \in cs : /\ claims'[c] # NoValue /\ claims[c] # NoValue
                           /\ claims'[c].user = claims[c].user
          /\ \A q \in Requests : Holding(q) => claims'[req[q].claim] = claims[req[q].claim]
      BY <1>1, <1>3, FailStep DEF TypeInv, TypeOK, Stale, Status
    <2>2. req' = [req EXCEPT ![r] = Idle]
      BY <1>3 DEF Finish
    <2>3. \A q \in Requests : InFlight(q)' => q # r /\ req'[q] = req[q]
      BY <2>2 DEF InFlight, TypeInv, TypeOK
    <2>4. TypeOK'
      BY <1>1, <2>1, <2>2 DEF TypeInv, TypeOK, Of, Status
    <2>5. RequestsOK'
      <3> SUFFICES ASSUME NEW q \in Requests, InFlight(q)'
                   PROVE  /\ InFlight(q) /\ req'[q] = req[q]
                          /\ At(q, "reserve") => \A c \in req[q].recovered :
                                                    claims'[c] = claims[c]
                          /\ Holding(q) => claims'[req[q].claim] = claims[req[q].claim]
        BY <1>1 DEF TypeInv, RequestsOK, RequestOK, At, InFlight, Holding, Status, Stale
      <3>1. InFlight(q) /\ req'[q] = req[q] /\ q # r
        BY <2>3 DEF InFlight
      <3>2. req[q] \in RequestRecords
        BY <3>1 DEF InFlight, TypeInv, TypeOK
      <3> QED BY <1>2, <2>1, <3>1, <3>2 DEF RequestRecords
    <2>6. DisjointOK'
      BY <2>3 DEF TypeInv, DisjointOK, At, InFlight, Holding
    <2> QED BY <2>4, <2>5, <2>6 DEF TypeInv
  <1>4. ASSUME ~Conflicts(r), NEW c \in Claims, claims[c] = NoValue,
               claims' = [Failed(cs) EXCEPT ![c] =
                   [user |-> req[r].user, status |-> "pending", created |-> req[r].started]],
               req' = [req EXCEPT ![r] =
                   [pc |-> "send", user |-> req[r].user, claim |-> c, recovered |-> {},
                    started |-> req[r].started]]
        PROVE  TypeInv'
    <2> DEFINE row == [user |-> req[r].user, status |-> "pending",
                       created |-> req[r].started]
               q0 == [pc |-> "send", user |-> req[r].user, claim |-> c, recovered |-> {},
                      started |-> req[r].started]
    <2>1. row \in Rows /\ q0 \in RequestRecords /\ row # NoValue
      BY <1>1, NullAssumption DEF Rows, RequestRecords
    <2>2. c \notin cs
      BY <1>1, <1>4 DEF Stale, Status
    <2>3. /\ \A d \in Claims \ {c} : claims'[d] = Failed(cs)[d]
          /\ claims'[c] = row
          /\ claims' \in [Claims -> Rows \cup {NoValue}]
      <3>1. Failed(cs) \in [Claims -> Rows \cup {NoValue}]
        <4>1. \A d \in cs : claims[d] \in Rows
          BY <1>1 DEF Stale, Status, TypeInv, TypeOK
        <4> QED BY <4>1, FailedRow DEF Failed, TypeInv, TypeOK
      <3> QED BY <1>4, <2>1, <3>1
    <2>4. /\ \A d \in Claims \ cs : d # c => claims'[d] = claims[d]
          /\ \A d \in cs : /\ claims'[d] = [claims[d] EXCEPT !.status = "failed"]
                           /\ claims[d] \in Rows /\ claims[d] # NoValue
      BY <1>1, <2>2, <2>3 DEF Failed, Stale, Status, TypeInv, TypeOK
    <2>5. \A d \in cs : /\ claims'[d] # NoValue /\ claims'[d].status = "failed"
                        /\ claims'[d].user = claims[d].user
      <3> SUFFICES ASSUME NEW d \in cs
                   PROVE  /\ claims'[d] # NoValue /\ claims'[d].status = "failed"
                          /\ claims'[d].user = claims[d].user
        OBVIOUS
      <3>1. claims[d] \in Rows /\ claims'[d] = [claims[d] EXCEPT !.status = "failed"]
        BY <2>4
      <3>2. claims'[d] \in Rows /\ claims'[d].status = "failed" /\ claims'[d].user = claims[d].user
        BY <3>1 DEF Rows
      <3> QED BY <3>2, NullAssumption
    <2>6. \A d \in Claims : Status(d, "pending")' => d = c \/ (d \notin cs /\ Status(d, "pending"))
      BY <2>4, <2>5 DEF Status
    <2>7. \A d \in Of(req[r].user) \ cs : ~Status(d, "pending")
      BY <1>4 DEF Conflicts
    <2>8. /\ req' = [req EXCEPT ![r] = q0] /\ req'[r] = q0
          /\ \A q \in Requests \ {r} : req'[q] = req[q]
      BY <1>1, <1>4 DEF RequestRecords, TypeInv, TypeOK
    <2>9. TypeOK'
      <3>1. ASSUME NEW v \in Users, NEW d \in Of(v)', NEW e \in Of(v)',
                   Status(d, "pending")', Status(e, "pending")'
            PROVE  d = e
        <4>1. \A x \in {d, e} : x = c \/ (x \notin cs /\ x # c /\ Status(x, "pending") /\ x \in Of(v))
          BY <2>4, <2>6, <3>1 DEF Of
        <4>2. d = c \/ e = c => v = req[r].user
          BY <2>3, <3>1 DEF Of
        <4> QED BY <2>7, <4>1, <4>2 DEF TypeInv, TypeOK
      <3>2. \A d \in Claims : transfers'[d] # "none" => claims'[d] # NoValue
        BY <1>1, <2>1, <2>3, <2>4, <2>5 DEF TypeInv, TypeOK
      <3> QED BY <1>1, <2>1, <2>3, <2>8, <3>1, <3>2 DEF TypeInv, TypeOK
    <2>10. \A q \in Requests : Holding(q) => req[q].claim \in Claims \ cs /\ req[q].claim # c
      BY <1>1, <1>4, HeldNotStale DEF TypeInv, RequestsOK, RequestOK, Status
    <2>11. \A q \in Requests \ {r} : At(q, "reserve") => req[q].recovered \subseteq Claims \ (cs \cup {c})
      <3>1. \A q \in Requests : At(q, "reserve") => req[q].recovered \subseteq Claims \ {c}
        BY <1>4 DEF TypeInv, TypeOK, RequestsOK, RequestOK, RequestRecords, At, InFlight, Stale, Status
      <3> QED BY <1>2, <3>1
    <2>12. RequestsOK'
      <3>1. ASSUME NEW q \in Requests, q # r
            PROVE  RequestOK(q)'
        <4>1. CASE InFlight(q)'
          <5>1. /\ InFlight(q) /\ req'[q] = req[q] /\ now' = now
                /\ At(q, "reserve") => \A d \in req[q].recovered : claims'[d] = claims[d]
                /\ Holding(q) => claims'[req[q].claim] = claims[req[q].claim]
            BY <1>1, <2>4, <2>8, <2>10, <2>11, <3>1, <4>1 DEF InFlight
          <5>2. RequestOK(q)
            BY DEF TypeInv, RequestsOK
          <5> QED BY <5>1, <5>2 DEF RequestOK, At, Holding, InFlight, Stale, Status
        <4>2. CASE ~InFlight(q)'
          BY <4>2 DEF RequestOK, At, Holding
        <4> QED BY <4>1, <4>2
      <3>2. RequestOK(r)'
        <4>1. /\ req'[r] = q0 /\ claims'[c] = row /\ row # NoValue /\ now' = now
              /\ req[r].started <= now /\ now <= req[r].started + MaxLatency
          BY <1>1, <2>1, <2>3, <2>8 DEF TypeInv, RequestsOK, RequestOK, At
        <4> QED BY <4>1 DEF RequestOK, At, Holding, InFlight, Status
      <3> QED BY <3>1, <3>2 DEF RequestsOK
    <2>13. DisjointOK'
      BY <2>8, <2>10 DEF TypeInv, DisjointOK, At, InFlight, Holding
    <2> QED BY <2>9, <2>12, <2>13 DEF TypeInv
  <1> QED BY <1>3, <1>4 DEF Reserve

\* A request that holds a claim goes on, or any request ends; no row changes.
LEMMA MoveStep ==
  ASSUME TypeInv, NEW r \in Requests, NEW x, req' = [req EXCEPT ![r] = x],
         \/ x = Idle
         \/ /\ Holding(r) /\ x \in RequestRecords /\ x.pc # "reserve"
            /\ x.claim = req[r].claim /\ x.recovered = {} /\ x.started = req[r].started,
         UNCHANGED <<now, claims, raced>>,
         transfers' \in [Claims -> {"none", "pooled", "mined", "reverted"}],
         \A c \in Claims : transfers'[c] # "none" => claims[c] # NoValue,
         lost' \in SUBSET Claims
  PROVE  TypeInv'
  <1> USE FaucetAssumption
  <1>1. req'[r] = x /\ \A q \in Requests \ {r} : req'[q] = req[q]
    BY DEF TypeInv, TypeOK
  <1>2. TypeOK'
    BY DEF TypeInv, TypeOK, Of, Status
  <1>3. RequestsOK'
    <2>1. ASSUME NEW q \in Requests, q # r PROVE RequestOK(q)'
      BY <1>1, <2>1 DEF TypeInv, RequestsOK, RequestOK, At, Holding, InFlight, Stale, Status
    <2>2. RequestOK(r)'
      BY <1>1 DEF TypeInv, RequestsOK, RequestOK, At, Holding, InFlight, Status
    <2> QED BY <2>1, <2>2 DEF RequestsOK
  <1>4. DisjointOK'
    BY <1>1 DEF TypeInv, DisjointOK, At, Holding, InFlight
  <1> QED BY <1>2, <1>3, <1>4 DEF TypeInv

LEMMA GotoStep ==
  ASSUME TypeInv, NEW r \in Requests, Holding(r),
         NEW pc \in {"receipt", "success", "fail"}, Goto(r, pc)
  PROVE  \E x \in RequestRecords :
            /\ req' = [req EXCEPT ![r] = x] /\ x.pc = pc /\ x.pc # "reserve"
            /\ x.claim = req[r].claim /\ x.recovered = {} /\ x.started = req[r].started
  <1>1. req[r] \in RequestRecords /\ req[r].recovered = {}
    BY DEF TypeInv, TypeOK, Holding, InFlight, RequestsOK, RequestOK
  <1>2. [req[r] EXCEPT !.pc = pc] \in RequestRecords
    BY <1>1 DEF RequestRecords
  <1>3. req' = [req EXCEPT ![r] = [req[r] EXCEPT !.pc = pc]]
    BY DEF Goto
  <1> WITNESS [req[r] EXCEPT !.pc = pc] \in RequestRecords
  <1> QED BY <1>1, <1>3 DEF RequestRecords

LEMMA GotoShape ==
  ASSUME TypeInv, NEW r \in Requests, Holding(r),
         NEW pc \in {"receipt", "success", "fail"}, Goto(r, pc)
  PROVE  /\ \A q \in Requests \ {r} : req'[q] = req[q]
         /\ req'[r].pc = pc /\ req'[r].claim = req[r].claim /\ Holding(r)'
  <1>1. PICK x \in RequestRecords :
            /\ req' = [req EXCEPT ![r] = x] /\ x.pc = pc /\ x.pc # "reserve"
            /\ x.claim = req[r].claim
    BY GotoStep
  <1>2. req'[r] = x /\ \A q \in Requests \ {r} : req'[q] = req[q]
    BY <1>1 DEF TypeInv, TypeOK
  <1>3. x # Idle
    BY <1>1 DEF RequestRecords, Idle
  <1> QED BY <1>1, <1>2, <1>3 DEF Holding, InFlight

LEMMA SendStep ==
  ASSUME TypeInv, NEW r \in Requests, Send(r)
  PROVE  TypeInv'
  <1>1. /\ Holding(r) /\ req[r].claim \in Claims /\ claims[req[r].claim] # NoValue
        /\ UNCHANGED <<now, claims, raced>>
        /\ \E pc \in {"receipt", "success", "fail"} : Goto(r, pc)
        /\ \/ transfers' = [transfers EXCEPT ![req[r].claim] = "pooled"]
           \/ transfers' = transfers
        /\ lost' = lost \/ lost' = lost \cup {req[r].claim}
    BY DEF Send, At, Holding, TypeInv, RequestsOK, RequestOK, Status
  <1>2. /\ transfers' \in [Claims -> {"none", "pooled", "mined", "reverted"}]
        /\ \A c \in Claims : transfers'[c] # "none" => claims[c] # NoValue
        /\ lost' \in SUBSET Claims
    BY <1>1 DEF TypeInv, TypeOK
  <1>3. PICK x \in RequestRecords :
            /\ req' = [req EXCEPT ![r] = x] /\ x.pc # "reserve"
            /\ x.claim = req[r].claim /\ x.recovered = {} /\ x.started = req[r].started
    BY <1>1, GotoStep
  <1> QED BY <1>1, <1>2, <1>3, MoveStep

LEMMA ReceiptStep ==
  ASSUME TypeInv, NEW r \in Requests, Receipt(r)
  PROVE  TypeInv'
  <1>1. /\ Holding(r) /\ req[r].claim \in Claims
        /\ UNCHANGED <<now, claims, transfers, raced>>
        /\ \E pc \in {"receipt", "success", "fail"} : Goto(r, pc)
        /\ lost' = lost \/ lost' = lost \cup {req[r].claim}
    BY DEF Receipt, At, Holding, TypeInv, RequestsOK, RequestOK
  <1>2. /\ transfers' \in [Claims -> {"none", "pooled", "mined", "reverted"}]
        /\ \A c \in Claims : transfers'[c] # "none" => claims[c] # NoValue
        /\ lost' \in SUBSET Claims
    BY <1>1 DEF TypeInv, TypeOK
  <1>3. PICK x \in RequestRecords :
            /\ req' = [req EXCEPT ![r] = x] /\ x.pc # "reserve"
            /\ x.claim = req[r].claim /\ x.recovered = {} /\ x.started = req[r].started
    BY <1>1, GotoStep
  <1> QED BY <1>1, <1>2, <1>3, MoveStep

LEMMA AbortStep ==
  ASSUME TypeInv, NEW r \in Requests, Abort(r)
  PROVE  TypeInv'
  <1>1. /\ req' = [req EXCEPT ![r] = Idle]
        /\ UNCHANGED <<now, claims, transfers, raced>>
        /\ req[r] \in RequestRecords
        /\ lost' = IF req[r].claim # NoValue THEN lost \cup {req[r].claim} ELSE lost
    BY DEF Abort, Finish, InFlight, TypeInv, TypeOK
  <1>2. lost' \in SUBSET Claims
    BY <1>1 DEF TypeInv, TypeOK, RequestRecords
  <1>3. /\ transfers' \in [Claims -> {"none", "pooled", "mined", "reverted"}]
        /\ \A c \in Claims : transfers'[c] # "none" => claims[c] # NoValue
    BY <1>1 DEF TypeInv, TypeOK
  <1> QED BY <1>1, <1>2, <1>3, MoveStep

\* What recording the outcome changes: one row, which no other request knows.
LEMMA RecordRow ==
  ASSUME TypeInv, NEW r \in Requests, Record(r)
  PROVE  /\ Holding(r) /\ req[r].claim \in Claims /\ Status(req[r].claim, "pending")
         /\ claims'[req[r].claim] \in Rows /\ claims'[req[r].claim] # NoValue
         /\ claims'[req[r].claim].user = claims[req[r].claim].user
         /\ claims'[req[r].claim].created = claims[req[r].claim].created
         /\ claims'[req[r].claim].status
                = IF req[r].pc = "success" THEN "success" ELSE "failed"
         /\ claims' \in [Claims -> Rows \cup {NoValue}]
         /\ \A c \in Claims \ {req[r].claim} : claims'[c] = claims[c]
         /\ req' = [req EXCEPT ![r] = Idle]
         /\ \A q \in Requests \ {r} :
               /\ At(q, "reserve") => req[r].claim \notin req[q].recovered
               /\ Holding(q) => req[q].claim # req[r].claim
  <1> DEFINE c == req[r].claim
  <1>1. Holding(r) /\ c \in Claims /\ Status(c, "pending")
    BY DEF Record, At, Holding, TypeInv, RequestsOK, RequestOK
  <1>2. claims[c] \in Rows
    BY <1>1 DEF Status, TypeInv, TypeOK
  <1> DEFINE s == IF req[r].pc = "success" THEN "success" ELSE "failed"
  <1>3. claims' = [claims EXCEPT ![c] = [claims[c] EXCEPT !.status = s]]
    BY DEF Record
  <1>4. /\ [claims[c] EXCEPT !.status = s] \in Rows
        /\ [claims[c] EXCEPT !.status = s].user = claims[c].user
        /\ [claims[c] EXCEPT !.status = s].created = claims[c].created
        /\ [claims[c] EXCEPT !.status = s].status = s
    BY <1>2 DEF Rows
  <1>5. /\ claims'[c] = [claims[c] EXCEPT !.status = s]
        /\ claims' \in [Claims -> Rows \cup {NoValue}]
        /\ \A d \in Claims \ {c} : claims'[d] = claims[d]
    BY <1>1, <1>3, <1>4 DEF TypeInv, TypeOK
  <1>6. req' = [req EXCEPT ![r] = Idle] /\ ~Locked(c)
    BY DEF Record, Finish
  <1>7. \A q \in Requests \ {r} : /\ At(q, "reserve") => c \notin req[q].recovered
                                  /\ Holding(q) => req[q].claim # c
    BY <1>1, <1>6 DEF Locked, TypeInv, DisjointOK
  <1> HIDE DEF s
  <1> QED BY <1>1, <1>4, <1>5, <1>6, <1>7, NullAssumption DEF s

LEMMA RecordStep ==
  ASSUME TypeInv, NEW r \in Requests, Record(r)
  PROVE  TypeInv'
  <1> USE FaucetAssumption
  <1> DEFINE c == req[r].claim
  <1>1. UNCHANGED <<now, transfers, raced, lost>>
    BY DEF Record
  <1>2. /\ c \in Claims /\ claims[c] # NoValue
        /\ claims'[c] # NoValue /\ claims'[c].status # "pending"
        /\ claims'[c].user = claims[c].user
        /\ claims' \in [Claims -> Rows \cup {NoValue}]
        /\ \A d \in Claims \ {c} : claims'[d] = claims[d]
        /\ req' = [req EXCEPT ![r] = Idle]
    BY RecordRow DEF Status
  <1>3. req'[r] = Idle /\ \A q \in Requests \ {r} : req'[q] = req[q]
    BY <1>2 DEF TypeInv, TypeOK
  <1>4. TypeOK'
    <2>1. \A d \in Claims : Status(d, "pending")' => d # c /\ Status(d, "pending")
      BY <1>2 DEF Status
    <2>2. \A u \in Users : Of(u)' = Of(u)
      BY <1>2 DEF Of
    <2>3. \A u \in Users : \A d, e \in Of(u)' :
             Status(d, "pending")' /\ Status(e, "pending")' => d = e
      BY <2>1, <2>2 DEF TypeInv, TypeOK, Of
    <2>4. \A d \in Claims : transfers'[d] # "none" => claims'[d] # NoValue
      BY <1>1, <1>2 DEF TypeInv, TypeOK
    <2>5. req' \in [Requests -> RequestRecords \cup {Idle}]
      BY <1>2 DEF TypeInv, TypeOK
    <2> QED BY <1>1, <1>2, <2>3, <2>4, <2>5 DEF TypeInv, TypeOK
  <1>5. RequestsOK'
    <2>1. ASSUME NEW q \in Requests, q # r PROVE RequestOK(q)'
      <3>1. req'[q] = req[q] /\ now' = now /\ RequestOK(q)
        BY <1>1, <1>3, <2>1 DEF TypeInv, RequestsOK
      <3>2. At(q, "reserve") => \A d \in req[q].recovered : claims'[d] = claims[d]
        BY <1>2, <2>1, RecordRow
           DEF At, InFlight, TypeInv, TypeOK, RequestRecords
      <3>3. Holding(q) => claims'[req[q].claim] = claims[req[q].claim]
        BY <1>2, <2>1, <3>1, RecordRow DEF RequestOK
      <3> QED BY <3>1, <3>2, <3>3 DEF RequestOK, At, Holding, InFlight, Stale, Status
    <2>2. RequestOK(r)'
      BY <1>3 DEF RequestOK, At, Holding, InFlight
    <2> QED BY <2>1, <2>2 DEF RequestsOK
  <1>6. DisjointOK'
    BY <1>3 DEF TypeInv, DisjointOK, At, Holding, InFlight
  <1> QED BY <1>4, <1>5, <1>6 DEF TypeInv

LEMMA SettleStep ==
  ASSUME TypeInv, NEW c \in Claims, Settle(c)
  PROVE  TypeInv'
  <1>1. TypeOK'
    BY DEF Settle, TypeInv, TypeOK, Of, Status
  <1>2. RequestsOK' /\ DisjointOK'
    BY DEF Settle, TypeInv, RequestsOK, RequestOK, DisjointOK, At, Holding, InFlight,
           Stale, Status
  <1> QED BY <1>1, <1>2 DEF TypeInv

LEMMA TickStep ==
  ASSUME TypeInv, Tick
  PROVE  TypeInv'
  <1> USE FaucetAssumption
  <1>1. /\ now \in Nat /\ now' = now + 1 /\ now' \in Times
        /\ UNCHANGED <<claims, transfers, req, raced, lost>>
    BY DEF Tick, TypeInv, TypeOK, Times
  <1>2. TypeOK' /\ DisjointOK'
    BY <1>1 DEF TypeInv, TypeOK, DisjointOK, Of, Status, At, Holding, InFlight
  <1>3. RequestsOK'
    <2> SUFFICES ASSUME NEW q \in Requests PROVE RequestOK(q)'
      BY DEF RequestsOK
    <2>1. RequestOK(q)
      BY DEF TypeInv, RequestsOK
    <2>2. InFlight(q) => req[q].started \in Nat /\ now + 1 <= req[q].started + MaxLatency
      BY <1>1 DEF Tick, TypeInv, TypeOK, InFlight, RequestRecords, Times
    <2>3. \A c \in Claims : Stale(c) => Stale(c)'
      BY <1>1 DEF Stale, Status, TypeInv, TypeOK, Rows, Times
    <2>4. At(q, "reserve") => req[q].recovered \in SUBSET Claims
      BY DEF At, InFlight, TypeInv, TypeOK, RequestRecords
    <2> QED BY <1>1, <2>1, <2>2, <2>3, <2>4 DEF RequestOK, At, Holding, InFlight, Status
  <1> QED BY <1>2, <1>3 DEF TypeInv

LEMMA TypeNext == TypeInv /\ [Next]_vars => TypeInv'
  <1> SUFFICES ASSUME TypeInv, [Next]_vars PROVE TypeInv'
    OBVIOUS
  <1>1. CASE UNCHANGED vars
    BY <1>1 DEF vars, TypeInv, TypeOK, RequestsOK, RequestOK, DisjointOK, Of, Status, At,
                Holding, InFlight, Stale
  <1>2. CASE \E r \in Requests, u \in Users : Claim(r, u)
    BY <1>2, ClaimStep
  <1>3. CASE \E r \in Requests : Reserve(r) \/ Send(r) \/ Receipt(r) \/ Record(r) \/ Abort(r)
    BY <1>3, ReserveStep, SendStep, ReceiptStep, RecordStep, AbortStep
  <1>4. CASE \E c \in Claims : Settle(c)
    BY <1>4, SettleStep
  <1>5. CASE Tick
    BY <1>5, TickStep
  <1> QED BY <1>1, <1>2, <1>3, <1>4, <1>5 DEF Next

LEMMA TypeInvariant == Spec => []TypeInv
  BY TypeInit, TypeNext, PTL DEF Spec

\* Every state is well typed, and a user has at most one pending claim
\* (reserveClaim, the unique index on pending claims).
THEOREM TypeCorrect == Spec => []TypeOK
  <1>1. TypeInv => TypeOK
    BY DEF TypeInv
  <1> QED BY <1>1, TypeInvariant, PTL

-----------------------------------------------------------------------------
(* A row is resolved once                                                  *)

\* A step leaves every row that is not pending as it is.
LEMMA ResolvedStep ==
  ASSUME TypeInv, [Next]_vars, NEW c \in Claims,
         Status(c, "success") \/ Status(c, "failed")
  PROVE  claims'[c] = claims[c]
  <1>1. claims[c] # NoValue /\ ~Status(c, "pending") /\ ~Stale(c)
    BY DEF Status, Stale
  <1>2. ASSUME NEW cs \in SUBSET Claims, \A d \in cs : Stale(d), claims' = Failed(cs)
        PROVE  claims'[c] = claims[c]
    BY <1>1, <1>2 DEF Failed
  <1>3. CASE UNCHANGED vars
    BY <1>3 DEF vars
  <1>4. ASSUME NEW r \in Requests, NEW u \in Users, Claim(r, u) PROVE claims'[c] = claims[c]
    <2>1. Recovered(u) \in SUBSET Claims /\ \A d \in Recovered(u) : Stale(d)
      BY DEF Recovered, Of
    <2>2. claims' = Failed(Recovered(u)) \/ claims' = claims
      BY <1>4 DEF Claim
    <2> QED BY <1>2, <2>1, <2>2
  <1>5. ASSUME NEW r \in Requests, Reserve(r) PROVE claims'[c] = claims[c]
    <2> DEFINE cs == req[r].recovered
    <2>1. cs \in SUBSET Claims /\ \A d \in cs : Stale(d)
      BY <1>5 DEF Reserve, At, InFlight, TypeInv, TypeOK, RequestsOK, RequestOK, RequestRecords
    <2>2. CASE claims' = Failed(cs) \/ claims' = claims
      BY <1>2, <2>1, <2>2
    <2>3. ASSUME NEW d \in Claims, NEW row, claims[d] = NoValue,
                 claims' = [Failed(cs) EXCEPT ![d] = row]
          PROVE  claims'[c] = claims[c]
      BY <1>1, <2>1, <2>3 DEF Failed
    <2> QED BY <1>5, <2>2, <2>3 DEF Reserve
  <1>6. ASSUME NEW r \in Requests, Send(r) \/ Receipt(r) \/ Abort(r)
        PROVE  claims'[c] = claims[c]
    BY <1>6 DEF Send, Receipt, Abort
  <1>7. ASSUME NEW r \in Requests, Record(r) PROVE claims'[c] = claims[c]
    BY <1>1, <1>7, RecordRow
  <1>8. CASE (\E d \in Claims : Settle(d)) \/ Tick
    BY <1>8 DEF Settle, Tick
  <1> QED BY <1>3, <1>4, <1>5, <1>6, <1>7, <1>8 DEF Next

\* Neither the recovery of stale rows nor the request itself changes a row that is
\* resolved: they never both decide (reserveClaim against markSuccess, markFailed).
THEOREM ResolvedForGood == Spec => ResolvedOnce
  <1>1. TypeInv /\ [Next]_vars =>
          [\A c \in Claims : Status(c, "success") \/ Status(c, "failed")
                                => claims'[c] = claims[c]]_vars
    BY ResolvedStep
  <1> QED BY <1>1, TypeInvariant, PTL DEF Spec, ResolvedOnce

-----------------------------------------------------------------------------
(* The cap                                                                 *)

Spent == {c \in Claims : Counted(c)}

\* A step that keeps the rows it does not fail adds nothing to what is spent.
LEMMA SpentShrinks ==
  ASSUME \A c \in Claims : Counted(c)' => Counted(c), CapKept
  PROVE  CapKept'
  <1> SUFFICES ASSUME Cap # NoValue PROVE Cardinality(Spent') <= Cap
    BY DEF CapKept, Spent
  <1>1. Spent' \subseteq Spent /\ Spent \subseteq Claims
    BY DEF Spent
  <1>2. /\ IsFiniteSet(Spent) /\ IsFiniteSet(Spent')
        /\ Cardinality(Spent') <= Cardinality(Spent)
        /\ Cardinality(Spent') \in Nat /\ Cardinality(Spent) \in Nat
    BY <1>1, FaucetAssumption, FS_Subset, FS_CardinalityType
  <1>3. Cardinality(Spent) <= Cap /\ Cap \in Nat
    BY FaucetAssumption DEF CapKept, Spent
  <1> QED BY <1>2, <1>3

\* Failing rows, or leaving them, counts no row that was not counted.
LEMMA FailCounts ==
  ASSUME TypeInv, NEW cs \in SUBSET Claims, \A c \in cs : Stale(c),
         claims' = Failed(cs) \/ claims' = claims, now' = now
  PROVE  \A c \in Claims : Counted(c)' => Counted(c)
  <1>1. CASE claims' = claims
    BY <1>1 DEF Counted, Status
  <1>2. CASE claims' = Failed(cs)
    <2>1. /\ \A c \in Claims \ cs : claims'[c] = claims[c]
          /\ \A c \in cs : claims'[c].status = "failed"
      BY <1>2, FailStep
    <2> QED BY <2>1 DEF Counted, Status
  <1> QED BY <1>1, <1>2

\* The one step that adds to what is spent has just compared it with the cap.
LEMMA ReserveCap ==
  ASSUME TypeInv, CapKept, NEW r \in Requests, Reserve(r)
  PROVE  CapKept'
  <1> DEFINE cs == req[r].recovered
             S == {c \in Claims : Counted(c) /\ c \notin cs}
  <1>1. /\ cs \in SUBSET Claims /\ \A d \in cs : Stale(d)
        /\ now' = now
    BY DEF Reserve, At, InFlight, TypeInv, TypeOK, RequestsOK, RequestOK, RequestRecords
  <1>2. CASE claims' = Failed(cs) \/ claims' = claims
    BY <1>1, <1>2, FailCounts, SpentShrinks
  <1>3. ASSUME ~CapReached(r), NEW c \in Claims, NEW row,
               claims' = [Failed(cs) EXCEPT ![c] = row]
        PROVE  CapKept'
    <2> SUFFICES ASSUME Cap # NoValue PROVE Cardinality(Spent') <= Cap
      BY DEF CapKept, Spent
    <2>1. \A d \in cs : claims[d] \in Rows
      BY <1>1 DEF Stale, Status, TypeInv, TypeOK
    <2>2. \A d \in Claims \ cs : d # c => claims'[d] = claims[d]
      BY <1>3 DEF Failed
    <2>3. \A d \in cs : d # c => claims'[d].status = "failed"
      <3> SUFFICES ASSUME NEW d \in cs, d # c PROVE claims'[d].status = "failed"
        OBVIOUS
      <3>1. claims'[d] = [claims[d] EXCEPT !.status = "failed"] /\ claims[d] \in Rows
        BY <1>1, <1>3, <2>1 DEF Failed
      <3> QED BY <3>1 DEF Rows
    <2>4. Spent' \subseteq S \cup {c} /\ S \subseteq Claims
      BY <1>1, <2>2, <2>3 DEF Spent, Counted, Status
    <2>5. /\ IsFiniteSet(S) /\ IsFiniteSet(S \cup {c}) /\ Cardinality(S) \in Nat
          /\ Cardinality(S \cup {c}) <= Cardinality(S) + 1
      <3> HIDE DEF S
      <3>1. IsFiniteSet(S) /\ Cardinality(S) \in Nat
        BY <2>4, FaucetAssumption, FS_Subset, FS_CardinalityType
      <3>2. /\ IsFiniteSet(S \cup {c})
            /\ \/ Cardinality(S \cup {c}) = Cardinality(S)
               \/ Cardinality(S \cup {c}) = Cardinality(S) + 1
        BY <3>1, FS_AddElement
      <3> QED BY <3>1, <3>2
    <2>6. /\ Cardinality(Spent') <= Cardinality(S \cup {c})
          /\ Cardinality(Spent') \in Nat /\ Cardinality(S \cup {c}) \in Nat
      BY <2>4, <2>5, FS_Subset, FS_CardinalityType
    <2>7. Cardinality(S) + 1 <= Cap /\ Cap \in Nat
      BY <1>3, <2>5, FaucetAssumption DEF CapReached
    <2> HIDE DEF S
    <2> QED BY <2>5, <2>6, <2>7
  <1> QED BY <1>2, <1>3 DEF Reserve

LEMMA CapNext ==
  ASSUME TypeInv, CapKept, [Next]_vars
  PROVE  CapKept'
  <1>1. CASE UNCHANGED vars
    BY <1>1, SpentShrinks DEF vars, Counted, Status
  <1>2. ASSUME NEW r \in Requests, NEW u \in Users, Claim(r, u) PROVE CapKept'
    <2>1. Recovered(u) \in SUBSET Claims /\ \A d \in Recovered(u) : Stale(d)
      BY DEF Recovered, Of
    <2>2. (claims' = Failed(Recovered(u)) \/ claims' = claims) /\ now' = now
      BY <1>2 DEF Claim
    <2> QED BY <2>1, <2>2, FailCounts, SpentShrinks
  <1>3. ASSUME NEW r \in Requests, Reserve(r) PROVE CapKept'
    BY <1>3, ReserveCap
  <1>4. ASSUME NEW r \in Requests, Send(r) \/ Receipt(r) \/ Abort(r) PROVE CapKept'
    BY <1>4, SpentShrinks DEF Send, Receipt, Abort, Counted, Status
  <1>5. ASSUME NEW r \in Requests, Record(r) PROVE CapKept'
    <2>1. \A c \in Claims : Counted(c)' => Counted(c)
      BY <1>5, RecordRow DEF Record, Counted, Status
    <2> QED BY <2>1, SpentShrinks
  <1>6. ASSUME NEW c \in Claims, Settle(c) PROVE CapKept'
    BY <1>6, SpentShrinks DEF Settle, Counted, Status
  <1>7. CASE Tick
    <2>1. \A c \in Claims : Counted(c)' => Counted(c)
      BY <1>7, FaucetAssumption
         DEF Tick, Counted, Status, TypeInv, TypeOK, Rows, Times
    <2> QED BY <2>1, SpentShrinks
  <1> QED BY <1>1, <1>2, <1>3, <1>4, <1>5, <1>6, <1>7 DEF Next

\* What is reserved or paid within the window never exceeds the cap, however many
\* users claim at once (faucet-claims-repository.ts, FAUCET_CAP_ADVISORY_LOCK_ID).
THEOREM CapIsKept == Spec => []CapKept
  <1>1. Init => CapKept
    <2> SUFFICES ASSUME Init, Cap # NoValue PROVE Cardinality(Spent) <= Cap
      BY DEF CapKept, Spent
    <2>1. Spent = {}
      BY DEF Init, Spent, Counted, Status
    <2>2. Cardinality(Spent) = 0 /\ Cap \in Nat
      BY <2>1, FS_EmptySet, FaucetAssumption
    <2> QED BY <2>2
  <1> QED BY <1>1, CapNext, TypeInvariant, PTL DEF Spec

-----------------------------------------------------------------------------
(* Payments and their records                                              *)

\* How far the payment of a held claim has come.
PayRequest(r) ==
    /\ At(r, "send") => transfers[req[r].claim] = "none"
    /\ At(r, "success") => transfers[req[r].claim] = "mined"
    /\ At(r, "fail") /\ transfers[req[r].claim] \in {"pooled", "mined"}
          => req[r].claim \in lost

\* What was paid and not lost sight of is held while its row is pending.
PaidClaim(c) ==
    /\ Status(c, "success") => transfers[c] = "mined"
    /\ transfers[c] \in {"pooled", "mined"} /\ c \notin lost =>
          /\ ~Status(c, "failed")
          /\ Status(c, "pending") => \E r \in Requests : Holding(r) /\ req[r].claim = c

RecordInv ==
    /\ \A r \in Requests : PayRequest(r)
    /\ \A c \in Claims : PaidClaim(c)

\* Rows fail that nothing was paid for, and requests begin or end that hold nothing.
LEMMA RowsRecord ==
  ASSUME TypeInv, RecordInv, UNCHANGED <<transfers, lost>>,
         \A c \in Claims :
            \/ claims'[c] = claims[c]
            \/ claims'[c].status = "failed" /\ (transfers[c] \in {"pooled", "mined"} => c \in lost)
            \/ claims'[c].status = "pending" /\ transfers[c] = "none",
         \A q \in Requests :
            \/ req'[q] = req[q]
            \/ /\ ~Holding(q)
               /\ \/ ~Holding(q)'
                  \/ req'[q].pc = "send" /\ transfers[req'[q].claim] = "none"
  PROVE  RecordInv'
  <1>1. ASSUME NEW q \in Requests PROVE PayRequest(q)'
    <2>1. PayRequest(q)
      BY DEF RecordInv
    <2> QED BY <2>1 DEF PayRequest, Holding, At, InFlight
  <1>2. ASSUME NEW c \in Claims PROVE PaidClaim(c)'
    <2>1. PaidClaim(c)
      BY DEF RecordInv
    <2>2. \A q \in Requests : Holding(q) => Holding(q)' /\ req'[q] = req[q]
      BY DEF Holding, InFlight
    <2>3. (\E r \in Requests : Holding(r) /\ req[r].claim = c)
             => (\E r \in Requests : Holding(r)' /\ req'[r].claim = c)
      BY <2>2
    <2>4. CASE claims'[c] = claims[c]
      BY <2>1, <2>3, <2>4 DEF PaidClaim, Status
    <2>5. CASE claims'[c] # claims[c]
      BY <2>5 DEF PaidClaim, Status
    <2> QED BY <2>4, <2>5
  <1> QED BY <1>1, <1>2 DEF RecordInv

\* A stale row is not held, so its payment, if any, was lost sight of.
LEMMA StaleLost ==
  ASSUME TypeInv, RecordInv, NEW c \in Claims, Stale(c), transfers[c] \in {"pooled", "mined"}
  PROVE  c \in lost
  BY HeldNotStale DEF RecordInv, PaidClaim, Stale

LEMMA ClaimRecord ==
  ASSUME TypeInv, RecordInv, NEW r \in Requests, NEW u \in Users, Claim(r, u)
  PROVE  RecordInv'
  <1>1. Recovered(u) \in SUBSET Claims /\ \A c \in Recovered(u) : Stale(c)
    BY DEF Recovered, Of
  <1>2. UNCHANGED <<transfers, lost>> /\ ~InFlight(r)
    BY DEF Claim
  <1>3. CASE claims' = Failed(Recovered(u)) /\ UNCHANGED req
    <2>1. \A c \in Claims : \/ claims'[c] = claims[c]
                            \/ claims'[c].status = "failed" /\ Stale(c)
      BY <1>1, <1>3, FailStep
    <2> QED BY <1>2, <1>3, <2>1, StaleLost, RowsRecord
  <1>4. CASE /\ claims' = claims
             /\ req' = [req EXCEPT ![r] = [pc |-> "reserve", user |-> u, claim |-> NoValue,
                                          recovered |-> Recovered(u), started |-> now]]
    <2>1. /\ \A q \in Requests \ {r} : req'[q] = req[q]
          /\ ~Holding(r) /\ ~Holding(r)'
      BY <1>2, <1>4 DEF Holding, TypeInv, TypeOK
    <2> QED BY <1>2, <1>4, <2>1, RowsRecord
  <1> QED BY <1>3, <1>4 DEF Claim

LEMMA ReserveRecord ==
  ASSUME TypeInv, RecordInv, NEW r \in Requests, Reserve(r)
  PROVE  RecordInv'
  <1> DEFINE cs == req[r].recovered
  <1>1. /\ cs \in SUBSET Claims /\ \A c \in cs : Stale(c)
        /\ UNCHANGED <<transfers, lost>> /\ ~Holding(r)
    BY DEF Reserve, At, InFlight, Holding, TypeInv, TypeOK, RequestsOK, RequestOK,
           RequestRecords
  <1>2. CASE (claims' = Failed(cs) \/ claims' = claims) /\ Finish(r)
    <2>1. \A c \in Claims : \/ claims'[c] = claims[c]
                            \/ claims'[c].status = "failed" /\ Stale(c)
      BY <1>1, <1>2, FailStep
    <2>2. (\A q \in Requests \ {r} : req'[q] = req[q]) /\ ~Holding(r)'
      BY <1>2 DEF Finish, Holding, InFlight, TypeInv, TypeOK
    <2> QED BY <1>1, <2>1, <2>2, StaleLost, RowsRecord
  <1>3. ASSUME NEW c \in Claims, claims[c] = NoValue,
               claims' = [Failed(cs) EXCEPT ![c] =
                   [user |-> req[r].user, status |-> "pending", created |-> req[r].started]],
               req' = [req EXCEPT ![r] =
                   [pc |-> "send", user |-> req[r].user, claim |-> c, recovered |-> {},
                    started |-> req[r].started]]
        PROVE  RecordInv'
    <2>1. transfers[c] = "none" /\ claims'[c].status = "pending"
      BY <1>3 DEF Failed, TypeInv, TypeOK
    <2>2. ASSUME NEW d \in Claims, d # c
          PROVE  claims'[d] = claims[d] \/ (claims'[d].status = "failed" /\ Stale(d))
      <3>1. CASE d \notin cs
        BY <1>3, <2>2, <3>1 DEF Failed
      <3>2. CASE d \in cs
        <4>1. claims'[d] = [claims[d] EXCEPT !.status = "failed"] /\ claims[d] \in Rows
          BY <1>1, <1>3, <2>2, <3>2 DEF Failed, Stale, Status, TypeInv, TypeOK
        <4>2. claims'[d].status = "failed"
          BY <4>1 DEF Rows
        <4> QED BY <1>1, <3>2, <4>2
      <3> QED BY <3>1, <3>2
    <2>3. /\ \A q \in Requests \ {r} : req'[q] = req[q]
          /\ req'[r].pc = "send" /\ req'[r].claim = c
      BY <1>3 DEF TypeInv, TypeOK
    <2> QED BY <1>1, <2>1, <2>2, <2>3, StaleLost, RowsRecord
  <1> QED BY <1>2, <1>3 DEF Reserve

\* A request that holds a claim changes what is known of that claim alone.
LEMMA HolderRecord ==
  ASSUME TypeInv, RecordInv, NEW r \in Requests, Holding(r),
         NEW c \in Claims, c = req[r].claim,
         \A d \in Claims \ {c} : transfers'[d] = transfers[d] /\ claims'[d] = claims[d],
         lost \subseteq lost',
         \A q \in Requests \ {r} : req'[q] = req[q],
         PayRequest(r)', PaidClaim(c)'
  PROVE  RecordInv'
  <1>1. ASSUME NEW q \in Requests, q # r PROVE PayRequest(q)'
    <2>1. PayRequest(q) /\ req'[q] = req[q]
      BY <1>1 DEF RecordInv
    <2>2. Holding(q) => req[q].claim \in Claims \ {c}
      BY <1>1 DEF TypeInv, DisjointOK, RequestsOK, RequestOK
    <2>3. Holding(q) => transfers'[req'[q].claim] = transfers[req[q].claim]
      BY <2>1, <2>2
    <2> QED BY <2>1, <2>3 DEF PayRequest, Holding, At, InFlight
  <1>2. ASSUME NEW d \in Claims, d # c PROVE PaidClaim(d)'
    <2>1. PaidClaim(d)
      BY DEF RecordInv
    <2>2. (\E q \in Requests : Holding(q) /\ req[q].claim = d)
             => (\E q \in Requests : Holding(q)' /\ req'[q].claim = d)
      BY <1>2 DEF Holding, InFlight
    <2> QED BY <1>2, <2>1, <2>2 DEF PaidClaim, Status
  <1> QED BY <1>1, <1>2 DEF RecordInv

LEMMA SendRecord ==
  ASSUME TypeInv, RecordInv, NEW r \in Requests, Send(r)
  PROVE  RecordInv'
  <1>1. PICK c \in Claims : c = req[r].claim
    BY DEF Send, At, TypeInv, RequestsOK, RequestOK, Holding
  <1>2. /\ Holding(r) /\ claims' = claims /\ transfers[c] = "none"
        /\ Status(c, "pending") /\ req[r] \in RequestRecords
    BY <1>1 DEF Send, At, Holding, InFlight, TypeInv, TypeOK, RequestsOK, RequestOK,
                RecordInv, PayRequest
  <1>3. PICK pc \in {"receipt", "success", "fail"} :
          /\ Goto(r, pc)
          /\ \/ /\ transfers' = [transfers EXCEPT ![c] = "pooled"]
                /\ \/ pc = "receipt" /\ lost' = lost
                   \/ pc = "fail" /\ lost' = lost \cup {c}
             \/ pc = "fail" /\ transfers' = transfers /\ lost' = lost
    BY <1>1 DEF Send
  <1>4. /\ \A q \in Requests \ {r} : req'[q] = req[q]
        /\ req'[r].pc = pc /\ req'[r].claim = c /\ Holding(r)'
    BY <1>1, <1>2, <1>3, GotoShape
  <1>5. PayRequest(r)'
    BY <1>2, <1>3, <1>4 DEF PayRequest, At, TypeInv, TypeOK
  <1>6. PaidClaim(c)'
    BY <1>2, <1>3, <1>4 DEF PaidClaim, Status, TypeInv, TypeOK
  <1> QED BY <1>1, <1>2, <1>3, <1>4, <1>5, <1>6, HolderRecord DEF TypeInv, TypeOK

LEMMA ReceiptRecord ==
  ASSUME TypeInv, RecordInv, NEW r \in Requests, Receipt(r)
  PROVE  RecordInv'
  <1>1. PICK c \in Claims : c = req[r].claim
    BY DEF Receipt, At, TypeInv, RequestsOK, RequestOK, Holding
  <1>2. /\ Holding(r) /\ UNCHANGED <<claims, transfers>>
        /\ Status(c, "pending") /\ req[r] \in RequestRecords
    BY <1>1 DEF Receipt, At, Holding, InFlight, TypeInv, TypeOK, RequestsOK, RequestOK
  <1>3. PICK pc \in {"receipt", "success", "fail"} :
          /\ Goto(r, pc)
          /\ \/ pc = "success" /\ transfers[c] = "mined" /\ lost' = lost
             \/ /\ pc = "fail"
                /\ lost' = IF transfers[c] \in {"pooled", "mined"} THEN lost \cup {c} ELSE lost
    BY <1>1 DEF Receipt, PaidReceipt
  <1>4. /\ \A q \in Requests \ {r} : req'[q] = req[q]
        /\ req'[r].pc = pc /\ req'[r].claim = c /\ Holding(r)'
    BY <1>1, <1>2, <1>3, GotoShape
  <1>5. PayRequest(r)'
    BY <1>2, <1>3, <1>4 DEF PayRequest, At
  <1>6. PaidClaim(c)'
    BY <1>2, <1>3, <1>4 DEF PaidClaim, Status
  <1> QED BY <1>1, <1>2, <1>3, <1>4, <1>5, <1>6, HolderRecord

LEMMA RecordRecord ==
  ASSUME TypeInv, RecordInv, NEW r \in Requests, Record(r)
  PROVE  RecordInv'
  <1>1. PICK c \in Claims : c = req[r].claim
    BY RecordRow
  <1>2. /\ Holding(r) /\ transfers' = transfers /\ lost' = lost
        /\ claims'[c].status = IF req[r].pc = "success" THEN "success" ELSE "failed"
        /\ \A d \in Claims \ {c} : claims'[d] = claims[d]
        /\ At(r, "success") \/ At(r, "fail")
    BY <1>1, RecordRow DEF Record
  <1>3. (\A q \in Requests \ {r} : req'[q] = req[q]) /\ ~InFlight(r)'
    BY RecordRow DEF TypeInv, TypeOK, InFlight
  <1>4. PayRequest(r)
    BY DEF RecordInv
  <1>5. PaidClaim(c)'
    BY <1>1, <1>2, <1>4 DEF PaidClaim, PayRequest, Status, At
  <1>6. PayRequest(r)'
    BY <1>3 DEF PayRequest, At
  <1> QED BY <1>1, <1>2, <1>3, <1>5, <1>6, HolderRecord

LEMMA AbortRecord ==
  ASSUME TypeInv, RecordInv, NEW r \in Requests, Abort(r)
  PROVE  RecordInv'
  <1>1. /\ UNCHANGED <<claims, transfers>>
        /\ lost' = IF req[r].claim # NoValue THEN lost \cup {req[r].claim} ELSE lost
        /\ \A q \in Requests \ {r} : req'[q] = req[q]
        /\ InFlight(r) /\ ~InFlight(r)'
    BY DEF Abort, Finish, InFlight, TypeInv, TypeOK
  <1>2. CASE ~Holding(r)
    <2>1. lost' = lost
      BY <1>1, <1>2 DEF Holding, At, TypeInv, RequestsOK, RequestOK
    <2>2. ~Holding(r)'
      BY <1>1 DEF Holding
    <2> QED BY <1>1, <1>2, <2>1, <2>2, RowsRecord
  <1>3. CASE Holding(r)
    <2>1. PICK c \in Claims : c = req[r].claim
      BY <1>3 DEF TypeInv, RequestsOK, RequestOK
    <2>2. lost' = lost \cup {c}
      BY <1>1, <2>1, FaucetAssumption
    <2>3. PayRequest(r)'
      BY <1>1 DEF PayRequest, At
    <2>4. PaidClaim(c)'
      BY <1>1, <2>2 DEF PaidClaim, RecordInv, Status
    <2> QED BY <1>1, <1>3, <2>1, <2>2, <2>3, <2>4, HolderRecord
  <1> QED BY <1>2, <1>3

LEMMA SettleRecord ==
  ASSUME TypeInv, RecordInv, NEW c \in Claims, Settle(c)
  PROVE  RecordInv'
  <1>1. PICK outcome \in {"mined", "reverted"} : transfers' = [transfers EXCEPT ![c] = outcome]
    BY DEF Settle
  <1>2. /\ UNCHANGED <<claims, req, lost>> /\ transfers[c] = "pooled"
        /\ transfers'[c] \in {"mined", "reverted"}
        /\ \A d \in Claims \ {c} : transfers'[d] = transfers[d]
    BY <1>1 DEF Settle, TypeInv, TypeOK
  <1>3. ASSUME NEW q \in Requests PROVE PayRequest(q)'
    <2>1. PayRequest(q) /\ (Holding(q) => req[q].claim \in Claims)
      BY DEF RecordInv, TypeInv, RequestsOK, RequestOK
    <2>2. CASE req[q].claim = c
      BY <1>2, <2>1, <2>2 DEF PayRequest, At, InFlight
    <2>3. CASE req[q].claim # c
      BY <1>2, <2>1, <2>3 DEF PayRequest, At, InFlight, Holding
    <2> QED BY <2>2, <2>3
  <1>4. ASSUME NEW d \in Claims PROVE PaidClaim(d)'
    <2>1. PaidClaim(d)
      BY DEF RecordInv
    <2> QED BY <1>2, <2>1 DEF PaidClaim, Status, Holding, InFlight
  <1> QED BY <1>3, <1>4 DEF RecordInv

LEMMA RecordNext == TypeInv /\ RecordInv /\ [Next]_vars => RecordInv'
  <1> SUFFICES ASSUME TypeInv, RecordInv, [Next]_vars PROVE RecordInv'
    OBVIOUS
  <1>1. CASE UNCHANGED vars \/ Tick
    BY <1>1 DEF vars, Tick, RecordInv, PayRequest, PaidClaim, Status, At, Holding, InFlight
  <1>2. CASE \E r \in Requests, u \in Users : Claim(r, u)
    BY <1>2, ClaimRecord
  <1>3. CASE \E r \in Requests : Reserve(r) \/ Send(r) \/ Receipt(r) \/ Record(r) \/ Abort(r)
    BY <1>3, ReserveRecord, SendRecord, ReceiptRecord, RecordRecord, AbortRecord
  <1>4. CASE \E c \in Claims : Settle(c)
    BY <1>4, SettleRecord
  <1> QED BY <1>1, <1>2, <1>3, <1>4 DEF Next

\* A success was paid, and what was paid is not on record as failed unless the
\* request lost sight of it (faucet-service.ts, claim).
THEOREM PaymentsRecorded == Spec => []PaidIsRecorded
  <1>1. Init => RecordInv
    BY DEF Init, RecordInv, PayRequest, PaidClaim, Status, At, InFlight
  <1>2. RecordInv => PaidIsRecorded
    BY DEF RecordInv, PaidClaim, PaidIsRecorded
  <1> QED BY <1>1, <1>2, RecordNext, TypeInvariant, PTL DEF Spec

-----------------------------------------------------------------------------
(* The cooldown.  The argument: a reservation is admitted when every       *)
(* payment of its user that may still count is old enough; as long as the  *)
(* user has one request at a time, no other payment comes in between.      *)

\* The claim was paid, or will be, and no request has lost sight of it.
Live(c) ==
    /\ claims[c] # NoValue
    /\ c \notin lost
    /\ \/ transfers[c] \in {"pooled", "mined"}
       \/ \E r \in Requests : At(r, "send") /\ req[r].claim = c

Apart(c, d) ==
    \/ claims[c].created >= claims[d].created + Cooldown
    \/ claims[d].created >= claims[c].created + Cooldown

\* A user with two requests in flight is on record for it.
AloneOK ==
    \A r, q \in Requests :
        InFlight(r) /\ InFlight(q) /\ r # q /\ req[r].user = req[q].user
            => req[r].user \in raced

\* A reservation in progress comes a cooldown after what its user was paid.
AdmittedOK ==
    \A r \in Requests, d \in Claims :
        At(r, "reserve") /\ req[r].user \notin raced /\ Live(d) /\ claims[d].user = req[r].user
            => claims[d].created + Cooldown <= req[r].started

CooldownInv ==
    /\ AloneOK
    /\ \A r \in Requests : Holding(r) => claims[req[r].claim].user = req[r].user
    /\ AdmittedOK
    /\ \A c, d \in Claims :
          Live(c) /\ Live(d) /\ c # d /\ claims[c].user = claims[d].user
            /\ claims[c].user \notin raced => Apart(c, d)

\* What most steps do: rows keep their user and their age, nothing becomes
\* live, and requests end or go on.
RowsAge ==
    \A c \in Claims :
        claims[c] # NoValue =>
            /\ claims'[c] # NoValue
            /\ claims'[c].user = claims[c].user
            /\ claims'[c].created = claims[c].created

RequestsGoOn ==
    \A r \in Requests :
        InFlight(r)' =>
            /\ InFlight(r)
            /\ req'[r].user = req[r].user
            /\ req'[r].started = req[r].started
            /\ At(r, "reserve")' => At(r, "reserve")
            /\ Holding(r)' => Holding(r) /\ req'[r].claim = req[r].claim

\* Such a step keeps the invariant.
LEMMA CooldownQuiet ==
  ASSUME TypeInv, CooldownInv, RowsAge, RequestsGoOn, raced' = raced,
         \A c \in Claims : Live(c)' => Live(c)
  PROVE  CooldownInv'
  <1>1. AloneOK'
    BY DEF CooldownInv, AloneOK, RequestsGoOn
  <1>2. ASSUME NEW r \in Requests, Holding(r)'
        PROVE  claims'[req'[r].claim].user = req'[r].user
    <2>1. Holding(r) /\ req'[r].claim = req[r].claim /\ req'[r].user = req[r].user
      BY <1>2 DEF RequestsGoOn, Holding
    <2>2. req[r].claim \in Claims /\ claims[req[r].claim] # NoValue
      BY <2>1 DEF TypeInv, RequestsOK, RequestOK, Status
    <2> QED BY <2>1, <2>2 DEF CooldownInv, RowsAge
  <1>3. AdmittedOK'
    <2> SUFFICES ASSUME NEW r \in Requests, NEW d \in Claims, At(r, "reserve")',
                        req'[r].user \notin raced, Live(d)', claims'[d].user = req'[r].user
                 PROVE  claims'[d].created + Cooldown <= req'[r].started
      BY DEF AdmittedOK
    <2>1. /\ At(r, "reserve") /\ req'[r].user = req[r].user /\ req'[r].started = req[r].started
          /\ Live(d)
      BY DEF RequestsGoOn, At
    <2>2. claims'[d].user = claims[d].user /\ claims'[d].created = claims[d].created
      BY <2>1 DEF RowsAge, Live
    <2> QED BY <2>1, <2>2 DEF CooldownInv, AdmittedOK
  <1>4. ASSUME NEW c \in Claims, NEW d \in Claims, Live(c)', Live(d)', c # d,
               claims'[c].user = claims'[d].user, claims'[c].user \notin raced
        PROVE  Apart(c, d)'
    <2>1. Live(c) /\ Live(d)
      BY <1>4
    <2>2. /\ claims'[c].user = claims[c].user /\ claims'[c].created = claims[c].created
          /\ claims'[d].user = claims[d].user /\ claims'[d].created = claims[d].created
      BY <2>1 DEF RowsAge, Live
    <2>3. Apart(c, d)
      BY <1>4, <2>1, <2>2 DEF CooldownInv
    <2> QED BY <2>2, <2>3 DEF Apart
  <1> QED BY <1>1, <1>2, <1>3, <1>4 DEF CooldownInv

\* Failing rows leaves their user and their age.
LEMMA FailAge ==
  ASSUME TypeInv, NEW cs \in SUBSET Claims, \A c \in cs : Stale(c), claims' = Failed(cs)
  PROVE  /\ RowsAge
         /\ \A c \in Claims : claims'[c] # NoValue => claims[c] # NoValue
  <1>1. ASSUME NEW c \in Claims, claims[c] # NoValue
        PROVE  /\ claims'[c] # NoValue
               /\ claims'[c].user = claims[c].user
               /\ claims'[c].created = claims[c].created
    <2>1. CASE c \in cs
      <3>1. claims[c] \in Rows
        BY <1>1 DEF TypeInv, TypeOK
      <3>2. claims'[c] = [claims[c] EXCEPT !.status = "failed"]
        BY <2>1 DEF Failed
      <3>3. claims'[c] \in Rows /\ claims'[c].user = claims[c].user
            /\ claims'[c].created = claims[c].created
        BY <3>1, <3>2 DEF Rows
      <3> QED BY <3>3, NullAssumption
    <2>2. CASE c \notin cs
      BY <1>1, <2>2 DEF Failed
    <2> QED BY <2>1, <2>2
  <1>2. ASSUME NEW c \in Claims, claims'[c] # NoValue PROVE claims[c] # NoValue
    BY <1>2 DEF Failed, Stale, Status
  <1> QED BY <1>1, <1>2 DEF RowsAge

\* A request ends.
LEMMA FinishGoesOn ==
  ASSUME TypeInv, NEW r \in Requests, req' = [req EXCEPT ![r] = Idle]
  PROVE  /\ RequestsGoOn
         /\ \A q \in Requests : At(q, "send")' => At(q, "send") /\ req'[q].claim = req[q].claim
  BY DEF RequestsGoOn, InFlight, At, Holding, TypeInv, TypeOK

\* A request that holds its claim goes on with it.
LEMMA GotoGoesOn ==
  ASSUME TypeInv, NEW r \in Requests, Holding(r), NEW pc \in {"receipt", "success", "fail"},
         Goto(r, pc)
  PROVE  /\ RequestsGoOn
         /\ \A q \in Requests : At(q, "send")' => At(q, "send") /\ req'[q].claim = req[q].claim
  <1>1. req[r] \in RequestRecords
    BY DEF Holding, InFlight, TypeInv, TypeOK
  <1>2. /\ req'[r] = [req[r] EXCEPT !.pc = pc]
        /\ \A q \in Requests : q # r => req'[q] = req[q]
    BY DEF Goto, TypeInv, TypeOK
  <1>3. /\ req'[r].pc = pc /\ req'[r].user = req[r].user /\ req'[r].claim = req[r].claim
        /\ req'[r].started = req[r].started
    BY <1>1, <1>2 DEF RequestRecords
  <1> QED BY <1>2, <1>3 DEF RequestsGoOn, At, Holding, InFlight

\* A claim of the faucet is admitted.
LEMMA ClaimCooldown ==
  ASSUME TypeInv, RecordInv, CooldownInv, NEW r \in Requests, NEW u \in Users, Claim(r, u)
  PROVE  CooldownInv'
  <1> USE FaucetAssumption
  <1>1. CASE \E c \in Of(u) : Blocking(c)
    <2>1. /\ claims' = Failed(Recovered(u)) /\ UNCHANGED <<transfers, req, raced, lost>>
          /\ Recovered(u) \in SUBSET Claims /\ \A c \in Recovered(u) : Stale(c)
      BY <1>1 DEF Claim, Recovered, Of
    <2>2. RowsAge /\ \A c \in Claims : claims'[c] # NoValue => claims[c] # NoValue
      BY <2>1, FailAge
    <2>3. RequestsGoOn /\ \A c \in Claims : Live(c)' => Live(c)
      BY <2>1, <2>2 DEF RequestsGoOn, Live, At, InFlight, Holding
    <2> QED BY <2>1, <2>2, <2>3, CooldownQuiet
  <1>2. CASE ~\E c \in Of(u) : Blocking(c)
    <2> DEFINE q0 == [pc |-> "reserve", user |-> u, claim |-> NoValue,
                      recovered |-> Recovered(u), started |-> now]
    <2>1. /\ ~InFlight(r)
          /\ req' = [req EXCEPT ![r] = q0]
          /\ raced' = IF \E q \in Requests : InFlight(q) /\ req[q].user = u
                      THEN raced \cup {u} ELSE raced
          /\ UNCHANGED <<now, claims, transfers, lost>>
      BY <1>2 DEF Claim
    <2>2. /\ req'[r] = q0 /\ q0.pc = "reserve" /\ q0.user = u /\ q0.started = now
          /\ \A q \in Requests : q # r => req'[q] = req[q]
      BY <2>1 DEF TypeInv, TypeOK
    <2> HIDE DEF q0
    <2>3. AloneOK'
      BY <2>1, <2>2 DEF CooldownInv, AloneOK, InFlight
    <2>4. \A q \in Requests : Holding(q)' => q # r /\ Holding(q) /\ req'[q] = req[q]
      BY <2>2 DEF Holding, InFlight
    <2>5. \A c \in Claims : Live(c)' => Live(c)
      BY <2>1, <2>2 DEF Live, At, InFlight
    <2>6. ASSUME NEW d \in Claims, u \notin raced', Live(d), claims[d].user = u
          PROVE  claims[d].created + Cooldown <= now
      <3>1. \A q \in Requests : ~(InFlight(q) /\ req[q].user = u)
        BY <2>1, <2>6
      <3>2. \A q \in Requests : ~(Holding(q) /\ req[q].claim = d)
        BY <2>6, <3>1 DEF CooldownInv, Holding
      <3>3. transfers[d] \in {"pooled", "mined"} /\ d \notin lost /\ claims[d] # NoValue
        BY <2>6, <3>2 DEF Live, At, Holding
      <3>4. Status(d, "success")
        <4>1. ~Status(d, "failed") /\ ~Status(d, "pending")
          BY <3>2, <3>3 DEF RecordInv, PaidClaim
        <4>2. claims[d] \in Rows
          BY <3>3 DEF TypeInv, TypeOK
        <4> QED BY <3>3, <4>1, <4>2 DEF Status, Rows
      <3>5. ~(claims[d].created + Cooldown > now)
        BY <1>2, <2>6, <3>3, <3>4 DEF Blocking, Of
      <3>6. claims[d].created \in Nat /\ now \in Nat
        BY <3>3 DEF TypeInv, TypeOK, Rows, Times
      <3> QED BY <3>5, <3>6
    <2>7. AdmittedOK'
      <3> SUFFICES ASSUME NEW q \in Requests, NEW d \in Claims, At(q, "reserve")',
                          req'[q].user \notin raced', Live(d)', claims'[d].user = req'[q].user
                   PROVE  claims'[d].created + Cooldown <= req'[q].started
        BY DEF AdmittedOK
      <3>1. CASE q = r
        BY <2>1, <2>2, <2>5, <2>6, <3>1
      <3>2. CASE q # r
        <4>1. At(q, "reserve") /\ req'[q] = req[q] /\ req[q].user \notin raced /\ Live(d)
          BY <2>1, <2>2, <2>5, <3>2 DEF At, InFlight
        <4> QED BY <2>1, <4>1 DEF CooldownInv, AdmittedOK
      <3> QED BY <3>1, <3>2
    <2>8. raced \subseteq raced'
      BY <2>1
    <2> QED BY <2>1, <2>3, <2>4, <2>5, <2>7, <2>8 DEF CooldownInv, Apart
  <1> QED BY <1>1, <1>2

\* A reservation is made, or given up.
LEMMA ReserveCooldown ==
  ASSUME TypeInv, CooldownInv, NEW r \in Requests, Reserve(r)
  PROVE  CooldownInv'
  <1> USE FaucetAssumption
  <1> DEFINE cs == req[r].recovered
  <1>1. /\ cs \in SUBSET Claims /\ \A c \in cs : Stale(c)
        /\ UNCHANGED <<now, transfers, raced, lost>> /\ At(r, "reserve")
        /\ req[r] \in RequestRecords
    BY DEF Reserve, At, InFlight, TypeInv, TypeOK, RequestsOK, RequestOK, RequestRecords
  <1>2. CASE (claims' = Failed(cs) \/ claims' = claims) /\ Finish(r)
    <2>1. RowsAge /\ \A c \in Claims : claims'[c] # NoValue => claims[c] # NoValue
      BY <1>1, <1>2, FailAge DEF RowsAge
    <2>2. /\ RequestsGoOn
          /\ \A q \in Requests : At(q, "send")' => At(q, "send") /\ req'[q].claim = req[q].claim
      BY <1>2, FinishGoesOn DEF Finish
    <2>3. \A c \in Claims : Live(c)' => Live(c)
      BY <1>1, <2>1, <2>2 DEF Live
    <2> QED BY <1>1, <2>1, <2>2, <2>3, CooldownQuiet
  <1>3. ASSUME NEW c \in Claims, claims[c] = NoValue,
               claims' = [Failed(cs) EXCEPT ![c] =
                   [user |-> req[r].user, status |-> "pending", created |-> req[r].started]],
               req' = [req EXCEPT ![r] =
                   [pc |-> "send", user |-> req[r].user, claim |-> c, recovered |-> {},
                    started |-> req[r].started]]
        PROVE  CooldownInv'
    <2> DEFINE u == req[r].user
    <2>1. /\ claims'[c].user = u /\ claims'[c].created = req[r].started /\ claims'[c] # NoValue
          /\ \A d \in Claims : d # c => claims'[d] = Failed(cs)[d]
      <3> DEFINE row == [user |-> req[r].user, status |-> "pending", created |-> req[r].started]
      <3>1. row \in Rows
        BY <1>1 DEF Rows, RequestRecords
      <3>2. claims'[c] = row /\ \A d \in Claims : d # c => claims'[d] = Failed(cs)[d]
        BY <1>3 DEF Failed
      <3> QED BY <3>1, <3>2, NullAssumption
    <2>2. \A d \in Claims : d # c =>
             /\ claims[d] # NoValue =>
                   claims'[d] # NoValue /\ claims'[d].user = claims[d].user
                   /\ claims'[d].created = claims[d].created
             /\ claims'[d] # NoValue => claims[d] # NoValue
      <3> SUFFICES ASSUME NEW d \in Claims, d # c
                   PROVE  /\ claims[d] # NoValue =>
                                claims'[d] # NoValue /\ claims'[d].user = claims[d].user
                                /\ claims'[d].created = claims[d].created
                          /\ claims'[d] # NoValue => claims[d] # NoValue
        OBVIOUS
      <3>1. CASE d \notin cs
        BY <2>1, <3>1 DEF Failed
      <3>2. CASE d \in cs
        <4>1. claims[d] \in Rows /\ claims'[d] = [claims[d] EXCEPT !.status = "failed"]
          BY <1>1, <2>1, <3>2 DEF Failed, Stale, Status, TypeInv, TypeOK
        <4>2. claims'[d] \in Rows /\ claims'[d].user = claims[d].user
              /\ claims'[d].created = claims[d].created
          BY <4>1 DEF Rows
        <4> QED BY <4>1, <4>2, NullAssumption
      <3> QED BY <3>1, <3>2
    <2>3. /\ req'[r].pc = "send" /\ req'[r].user = u /\ req'[r].claim = c /\ InFlight(r)
          /\ \A q \in Requests : q # r => req'[q] = req[q]
      BY <1>1, <1>3 DEF At, TypeInv, TypeOK
    <2>4. \A d \in Claims : Live(d)' => d = c \/ Live(d)
      <3> SUFFICES ASSUME NEW d \in Claims, Live(d)', d # c PROVE Live(d)
        OBVIOUS
      <3>1. claims[d] # NoValue /\ d \notin lost /\ transfers'[d] = transfers[d]
        BY <1>1, <2>2 DEF Live
      <3>2. \A q \in Requests : At(q, "send")' /\ req'[q].claim = d =>
               At(q, "send") /\ req[q].claim = d
        BY <2>3 DEF At, InFlight
      <3> QED BY <3>1, <3>2 DEF Live
    <2>5. u \notin raced => \A d \in Claims : Live(d) /\ claims[d].user = u =>
                               claims[d].created + Cooldown <= req[r].started
      BY <1>1 DEF CooldownInv, AdmittedOK
    <2>6. AloneOK'
      BY <1>1, <2>3 DEF CooldownInv, AloneOK, InFlight
    <2>7. ASSUME NEW q \in Requests, Holding(q)'
          PROVE  claims'[req'[q].claim].user = req'[q].user
      <3>1. CASE q = r
        BY <2>1, <2>3, <3>1
      <3>2. CASE q # r
        <4>1. Holding(q) /\ req'[q] = req[q]
          BY <2>3, <2>7, <3>2 DEF Holding, InFlight
        <4>2. req[q].claim \in Claims /\ claims[req[q].claim] # NoValue /\ req[q].claim # c
          BY <1>3, <4>1 DEF TypeInv, RequestsOK, RequestOK, Status
        <4> QED BY <2>2, <4>1, <4>2 DEF CooldownInv
      <3> QED BY <3>1, <3>2
    <2>8. AdmittedOK'
      <3> SUFFICES ASSUME NEW q \in Requests, NEW d \in Claims, At(q, "reserve")',
                          req'[q].user \notin raced', Live(d)', claims'[d].user = req'[q].user
                   PROVE  claims'[d].created + Cooldown <= req'[q].started
        BY DEF AdmittedOK
      <3>1. q # r /\ req'[q] = req[q] /\ At(q, "reserve")
        BY <2>3 DEF At, InFlight
      <3>2. CASE d = c
        <4>1. req[q].user = u /\ InFlight(q)
          BY <2>1, <3>1, <3>2 DEF At
        <4>2. u \in raced
          BY <2>3, <3>1, <4>1 DEF CooldownInv, AloneOK
        <4> QED BY <1>1, <3>1, <4>1, <4>2
      <3>3. CASE d # c
        <4>1. Live(d) /\ claims[d] # NoValue
          BY <2>4, <3>3 DEF Live
        <4> QED BY <1>1, <2>2, <3>1, <3>3, <4>1 DEF CooldownInv, AdmittedOK
      <3> QED BY <3>2, <3>3
    <2>9. ASSUME NEW x \in Claims, NEW y \in Claims, Live(x)', Live(y)', x # y,
                 claims'[x].user = claims'[y].user, claims'[x].user \notin raced'
          PROVE  Apart(x, y)'
      <3>1. ASSUME NEW d \in Claims, d # c, Live(d)', claims'[d].user = u, u \notin raced
            PROVE  claims'[d].created + Cooldown <= claims'[c].created
        <4>1. Live(d) /\ claims[d] # NoValue
          BY <2>4, <3>1 DEF Live
        <4>2. claims'[d].created = claims[d].created /\ claims[d].user = u
          BY <2>2, <3>1, <4>1
        <4> QED BY <2>1, <2>5, <3>1, <4>1, <4>2
      <3>a. u \in Users /\ claims'[x].user \notin raced
        BY <1>1, <2>9 DEF RequestRecords
      <3>2. CASE x = c
        <4>1. claims'[y].created + Cooldown <= claims'[x].created
          BY <2>1, <2>9, <3>1, <3>a, <3>2
        <4> QED BY <4>1 DEF Apart
      <3>3. CASE y = c
        <4>1. claims'[x].created + Cooldown <= claims'[y].created
          BY <2>1, <2>9, <3>1, <3>a, <3>3
        <4> QED BY <4>1 DEF Apart
      <3>4. CASE x # c /\ y # c
        <4>1. Live(x) /\ Live(y) /\ claims[x] # NoValue /\ claims[y] # NoValue
          BY <2>4, <2>9, <3>4 DEF Live
        <4>2. /\ claims'[x].user = claims[x].user /\ claims'[x].created = claims[x].created
              /\ claims'[y].user = claims[y].user /\ claims'[y].created = claims[y].created
          BY <2>2, <3>4, <4>1
        <4>3. Apart(x, y)
          BY <2>9, <3>a, <4>1, <4>2 DEF CooldownInv
        <4> QED BY <4>2, <4>3 DEF Apart
      <3> QED BY <3>2, <3>3, <3>4
    <2> QED BY <2>6, <2>7, <2>8, <2>9 DEF CooldownInv
  <1> QED BY <1>2, <1>3 DEF Reserve

\* The inductive step.
LEMMA CooldownNext == TypeInv /\ RecordInv /\ CooldownInv /\ [Next]_vars => CooldownInv'
  <1> SUFFICES ASSUME TypeInv, RecordInv, CooldownInv, [Next]_vars PROVE CooldownInv'
    OBVIOUS
  <1>s. ASSUME UNCHANGED claims PROVE RowsAge
    BY <1>s DEF RowsAge
  <1>g. ASSUME UNCHANGED req PROVE RequestsGoOn
    BY <1>g DEF RequestsGoOn, At, InFlight, Holding
  <1>1. CASE Tick \/ UNCHANGED vars
    <2>1. UNCHANGED <<claims, transfers, req, raced, lost>>
      BY <1>1 DEF Tick, vars
    <2>2. \A c \in Claims : Live(c)' => Live(c)
      BY <2>1 DEF Live, At, InFlight
    <2> QED BY <1>s, <1>g, <2>1, <2>2, CooldownQuiet
  <1>2. CASE \E r \in Requests, u \in Users : Claim(r, u)
    BY <1>2, ClaimCooldown
  <1>3. CASE \E r \in Requests : Reserve(r)
    BY <1>3, ReserveCooldown
  <1>4. ASSUME NEW r \in Requests, Send(r) PROVE CooldownInv'
    <2>1. PICK c \in Claims : c = req[r].claim
      BY <1>4 DEF Send, At, TypeInv, RequestsOK, RequestOK, Holding
    <2>2. /\ Holding(r) /\ At(r, "send") /\ UNCHANGED <<claims, raced>> /\ claims[c] # NoValue
          /\ lost \subseteq lost'
      BY <1>4, <2>1 DEF Send, At, Holding, TypeInv, RequestsOK, RequestOK, Status
    <2>3. PICK pc \in {"receipt", "fail"} : Goto(r, pc)
      BY <1>4 DEF Send
    <2>4. /\ RequestsGoOn
          /\ \A q \in Requests : At(q, "send")' => At(q, "send") /\ req'[q].claim = req[q].claim
      BY <2>2, <2>3, GotoGoesOn
    <2>5. \A d \in Claims : d # c => transfers'[d] = transfers[d]
      BY <1>4, <2>1 DEF Send, TypeInv, TypeOK
    <2>6. ASSUME NEW d \in Claims, Live(d)' PROVE Live(d)
      <3>1. CASE d = c
        BY <2>1, <2>2, <2>6, <3>1 DEF Live
      <3>2. CASE d # c
        BY <2>2, <2>4, <2>5, <2>6, <3>2 DEF Live
      <3> QED BY <3>1, <3>2
    <2> QED BY <1>s, <2>2, <2>4, <2>6, CooldownQuiet
  <1>5. ASSUME NEW r \in Requests, Receipt(r) PROVE CooldownInv'
    <2>1. Holding(r) /\ UNCHANGED <<claims, transfers, raced>> /\ lost \subseteq lost'
      BY <1>5 DEF Receipt, At, Holding
    <2>2. PICK pc \in {"success", "fail"} : Goto(r, pc)
      BY <1>5 DEF Receipt
    <2>3. /\ RequestsGoOn
          /\ \A q \in Requests : At(q, "send")' => At(q, "send") /\ req'[q].claim = req[q].claim
      BY <2>1, <2>2, GotoGoesOn
    <2>4. \A d \in Claims : Live(d)' => Live(d)
      BY <2>1, <2>3 DEF Live
    <2> QED BY <1>s, <2>1, <2>3, <2>4, CooldownQuiet
  <1>6. ASSUME NEW r \in Requests, Record(r) PROVE CooldownInv'
    <2>1. UNCHANGED <<transfers, raced, lost>>
      BY <1>6 DEF Record
    <2>2. RowsAge /\ \A d \in Claims : claims'[d] # NoValue => claims[d] # NoValue
      BY <1>6, RecordRow DEF RowsAge, Status
    <2>3. /\ RequestsGoOn
          /\ \A q \in Requests : At(q, "send")' => At(q, "send") /\ req'[q].claim = req[q].claim
      BY <1>6, RecordRow, FinishGoesOn
    <2>4. \A d \in Claims : Live(d)' => Live(d)
      BY <2>1, <2>2, <2>3 DEF Live
    <2> QED BY <2>1, <2>2, <2>3, <2>4, CooldownQuiet
  <1>7. ASSUME NEW r \in Requests, Abort(r) PROVE CooldownInv'
    <2>1. UNCHANGED <<claims, transfers, raced>> /\ lost \subseteq lost' /\ Finish(r)
      BY <1>7 DEF Abort
    <2>2. /\ RequestsGoOn
          /\ \A q \in Requests : At(q, "send")' => At(q, "send") /\ req'[q].claim = req[q].claim
      BY <2>1, FinishGoesOn DEF Finish
    <2>3. \A d \in Claims : Live(d)' => Live(d)
      BY <2>1, <2>2 DEF Live
    <2> QED BY <1>s, <2>1, <2>2, <2>3, CooldownQuiet
  <1>8. ASSUME NEW c \in Claims, Settle(c) PROVE CooldownInv'
    <2>1. UNCHANGED <<claims, req, raced, lost>>
      BY <1>8 DEF Settle
    <2>2. /\ transfers[c] = "pooled"
          /\ \A d \in Claims : d # c => transfers'[d] = transfers[d]
      BY <1>8 DEF Settle, TypeInv, TypeOK
    <2>3. \A d \in Claims : Live(d)' => Live(d)
      BY <2>1, <2>2 DEF Live, At, InFlight
    <2> QED BY <1>s, <1>g, <2>1, <2>3, CooldownQuiet
  <1> QED BY <1>1, <1>2, <1>3, <1>4, <1>5, <1>6, <1>7, <1>8 DEF Next

\* A user with one request at a time is paid once per cooldown, whichever crashes,
\* recoveries and retries come between, unless a payment was lost sight of
\* (faucet-service.ts, claim; faucet-claims-repository.ts, reserveClaim).
THEOREM CooldownHolds == Spec => []CooldownKept
  <1>1. Init => RecordInv
    BY DEF Init, RecordInv, PayRequest, PaidClaim, Status, At, InFlight
  <1>2. Init => CooldownInv
    BY DEF Init, CooldownInv, AloneOK, AdmittedOK, Live, Holding, At, InFlight
  <1>3. CooldownInv => CooldownKept
    BY DEF CooldownInv, CooldownKept, Live, Apart, Of
  <1> QED BY <1>1, <1>2, <1>3, RecordNext, CooldownNext, TypeInvariant, PTL DEF Spec
=============================================================================
