-------------------------------- MODULE Faucet --------------------------------
(***************************************************************************)
(* The faucet: a claim is reserved in the database, under a cooldown for   *)
(* each user and a cap for all of them, then paid on the chain, and then   *)
(* recorded.  A request may stop anywhere; its reservation is taken back   *)
(* by the next claim of the same user, once it is stale.                   *)
(***************************************************************************)
EXTENDS Naturals, FiniteSets

CONSTANTS
    Users,
    Claims,      \* ids of rows of faucet_claims, each drawn once
    Requests,    \* concurrent POST /faucet/claim
    NoValue,     \* an absent row or field; as a Cap: no cap
    Cap,         \* how many claims FAUCET_MAX_DAILY_SPEND_WEI pays for
    Window,      \* ROLLING_DAILY_CAP_WINDOW_SECONDS
    Cooldown,    \* FAUCET_COOLDOWN_SECONDS
    StaleAfter,  \* FAUCET_STALE_PENDING_SECONDS
    MaxLatency,  \* longest life of a request
    MaxTime      \* bound: last instant of a behaviour

ASSUME FaucetAssumption ==
    /\ NoValue \notin Users \cup Claims \cup Nat
    /\ Cap \in Nat \cup {NoValue}
    /\ Window \in Nat /\ Cooldown \in Nat /\ StaleAfter \in Nat
    /\ MaxLatency \in Nat /\ MaxTime \in Nat
    /\ IsFiniteSet(Claims)

\* A reservation is not taken back while its request may still pay.  The
\* examples are 3600 s against the receipt time-out of 30 s; env.ts does not
\* compare them.
ASSUME StaleAssumption == StaleAfter >= MaxLatency

VARIABLES
    now,        \* the clock
    claims,     \* faucet_claims
    transfers,  \* what the node knows of the payment of each claim
    req,        \* the requests in flight
    raced,      \* history: users who had two requests in flight at once
    lost        \* history: claims whose payment the requests lost sight of

vars == <<now, claims, transfers, req, raced, lost>>

Times == 0 .. MaxTime
Idle == [pc |-> "idle"]
Rows == [user : Users, status : {"pending", "success", "failed"}, created : Times]
RequestRecords ==
    [pc : {"reserve", "send", "receipt", "success", "fail"}, user : Users,
     claim : Claims \cup {NoValue}, recovered : SUBSET Claims, started : Times]

ASSUME NullAssumption == NoValue \notin Rows

Status(c, s) == claims[c] # NoValue /\ claims[c].status = s
Of(u) == {c \in Claims : claims[c] # NoValue /\ claims[c].user = u}
InFlight(r) == req[r] # Idle
At(r, pc) == InFlight(r) /\ req[r].pc = pc

TypeOK ==
    /\ now \in Times
    /\ claims \in [Claims -> Rows \cup {NoValue}]
    /\ transfers \in [Claims -> {"none", "pooled", "mined", "reverted"}]
    /\ req \in [Requests -> RequestRecords \cup {Idle}]
    /\ raced \subseteq Users
    /\ lost \subseteq Claims
    /\ \A c \in Claims : transfers[c] # "none" => claims[c] # NoValue
    /\ \A u \in Users : \A c, d \in Of(u) :
          Status(c, "pending") /\ Status(d, "pending") => c = d

Init ==
    /\ now = 0
    /\ claims = [c \in Claims |-> NoValue]
    /\ transfers = [c \in Claims |-> "none"]
    /\ req = [r \in Requests |-> Idle]
    /\ raced = {}
    /\ lost = {}

Goto(r, pc) == req' = [req EXCEPT ![r].pc = pc]
Finish(r) == req' = [req EXCEPT ![r] = Idle]

-----------------------------------------------------------------------------
(* reserveClaim                                                            *)

\* Mutant of Stale: any pending row is taken for one that a crash left.
StaleAtOnce(c) == Status(c, "pending")

Stale(c) == Status(c, "pending") /\ claims[c].created + StaleAfter < now

\* The rows a reservation has updated and not committed yet.
Locked(c) == \E r \in Requests : At(r, "reserve") /\ c \in req[r].recovered

\* Mutant of Blocking: the cooldown ends with the payment.
BlockingPending(c) == Status(c, "pending") /\ claims[c].created + StaleAfter > now

\* findLatestBlockingByUser
Blocking(c) ==
    \/ Status(c, "success") /\ claims[c].created + Cooldown > now
    \/ Status(c, "pending") /\ claims[c].created + StaleAfter > now

Failed(cs) ==
    [c \in Claims |-> IF c \in cs THEN [claims[c] EXCEPT !.status = "failed"]
                                  ELSE claims[c]]

Recovered(u) == {c \in Of(u) : Stale(c)}

\* The stale rows are updated, waiting for another reservation that holds one of
\* them; then a blocking row ends the transaction.
Claim(r, u) ==
    /\ ~InFlight(r)
    /\ \A c \in Recovered(u) : ~Locked(c)
    /\ IF \E c \in Of(u) : Blocking(c)
       THEN claims' = Failed(Recovered(u)) /\ UNCHANGED <<req, raced>>
       ELSE /\ req' = [req EXCEPT ![r] = [pc |-> "reserve", user |-> u, claim |-> NoValue,
                                          recovered |-> Recovered(u), started |-> now]]
            /\ raced' = IF \E q \in Requests : InFlight(q) /\ req[q].user = u
                        THEN raced \cup {u} ELSE raced
            /\ claims' = claims
    /\ UNCHANGED <<now, transfers, lost>>

\* Mutant of Counted: what is in flight is not spent yet.
CountedSpent(c) == Status(c, "success") /\ claims[c].created + Window > now

\* The rows the cap is compared with.
Counted(c) ==
    /\ Status(c, "pending") \/ Status(c, "success")
    /\ claims[c].created + Window > now

\* The cap is read under an advisory lock which every reservation holds until
\* it commits, so that the sum and the insertion are one step.
CapReached(r) ==
    /\ Cap # NoValue
    /\ Cardinality({c \in Claims : Counted(c) /\ c \notin req[r].recovered}) + 1 > Cap

\* The unique index: another claim of the user is pending.
Conflicts(r) == \E c \in Of(req[r].user) \ req[r].recovered : Status(c, "pending")

\* The cap, the insertion and the commit.  A conflict with a row that blocks no
\* longer is an error, and rolls back.
Reserve(r) ==
    /\ At(r, "reserve")
    /\ \/ /\ CapReached(r)
          /\ claims' = Failed(req[r].recovered)
          /\ Finish(r)
       \/ /\ ~CapReached(r)
          /\ Conflicts(r)
          /\ claims' = IF \E c \in Of(req[r].user) : Blocking(c)
                       THEN Failed(req[r].recovered) ELSE claims
          /\ Finish(r)
       \/ /\ ~CapReached(r)
          /\ ~Conflicts(r)
          /\ \E c \in Claims :
                /\ claims[c] = NoValue
                /\ claims' = [Failed(req[r].recovered) EXCEPT ![c] =
                    [user |-> req[r].user, status |-> "pending", created |-> req[r].started]]
                /\ req' = [req EXCEPT ![r] =
                    [pc |-> "send", user |-> req[r].user, claim |-> c, recovered |-> {},
                     started |-> req[r].started]]
    /\ UNCHANGED <<now, transfers, raced, lost>>

-----------------------------------------------------------------------------
(* claim, after the reservation                                            *)

\* sendTransaction, whose answer may be lost.
Send(r) ==
    /\ At(r, "send")
    /\ \/ /\ transfers' = [transfers EXCEPT ![req[r].claim] = "pooled"]
          /\ \/ Goto(r, "receipt") /\ lost' = lost
             \/ Goto(r, "fail") /\ lost' = lost \cup {req[r].claim}
       \/ Goto(r, "fail") /\ UNCHANGED <<transfers, lost>>
    /\ UNCHANGED <<now, claims, raced>>

\* Mutant of PaidReceipt: any receipt will do.
PaidReceiptAny(c) == transfers[c] \in {"mined", "reverted"}

\* receipt.status = 'success'
PaidReceipt(c) == transfers[c] = "mined"

\* waitForTransactionReceipt: a receipt, or its time-out or an error.
Receipt(r) ==
    /\ At(r, "receipt")
    /\ LET c == req[r].claim IN
       \/ PaidReceipt(c) /\ Goto(r, "success") /\ lost' = lost
       \/ /\ Goto(r, "fail")
          /\ lost' = IF transfers[c] \in {"pooled", "mined"} THEN lost \cup {c} ELSE lost
    /\ UNCHANGED <<now, claims, transfers, raced>>

\* markSuccess, markFailed: by id, whatever the status of the row.  The update
\* waits for a reservation that holds the row.
Record(r) ==
    /\ At(r, "success") \/ At(r, "fail")
    /\ ~Locked(req[r].claim)
    /\ claims' = [claims EXCEPT ![req[r].claim].status =
                    IF req[r].pc = "success" THEN "success" ELSE "failed"]
    /\ Finish(r)
    /\ UNCHANGED <<now, transfers, raced, lost>>

\* The process stops or a statement fails; an open transaction is rolled back,
\* and a reservation stays pending.
Abort(r) ==
    /\ InFlight(r)
    /\ lost' = IF req[r].claim # NoValue THEN lost \cup {req[r].claim} ELSE lost
    /\ Finish(r)
    /\ UNCHANGED <<now, claims, transfers, raced>>

-----------------------------------------------------------------------------
(* The chain (external), and the clock                                     *)

\* The block that takes the payment; one the node drops stays pooled for ever.
Settle(c) ==
    /\ transfers[c] = "pooled"
    /\ \E outcome \in {"mined", "reverted"} :
          transfers' = [transfers EXCEPT ![c] = outcome]
    /\ UNCHANGED <<now, claims, req, raced, lost>>

\* Time passes; no request outlives MaxLatency.
Tick ==
    /\ now < MaxTime
    /\ \A r \in Requests : InFlight(r) => now < req[r].started + MaxLatency
    /\ now' = now + 1
    /\ UNCHANGED <<claims, transfers, req, raced, lost>>

Next ==
    \/ \E r \in Requests, u \in Users : Claim(r, u)
    \/ \E r \in Requests : Reserve(r) \/ Send(r) \/ Receipt(r) \/ Record(r) \/ Abort(r)
    \/ \E c \in Claims : Settle(c)
    \/ Tick

Spec == Init /\ [][Next]_vars

-----------------------------------------------------------------------------
(* Properties                                                              *)

\* "Rolling 24h cap on total in-flight + successful claims": concurrent claims
\* of different users do not overshoot it together
\* (faucet-claims-repository.ts, FAUCET_CAP_ADVISORY_LOCK_ID).
CapKept == Cap # NoValue => Cardinality({c \in Claims : Counted(c)}) <= Cap

\* A user is paid once per cooldown, unless two of its requests overlapped or a
\* payment was lost sight of: crashes, recoveries and retries do not pay twice.
CooldownKept ==
    \A u \in Users \ raced : \A c, d \in Of(u) \ lost :
        /\ c # d
        /\ transfers[c] = "mined" /\ transfers[d] = "mined"
        => \/ claims[c].created >= claims[d].created + Cooldown
           \/ claims[d].created >= claims[c].created + Cooldown

\* The record of a payment agrees with the chain: a success was paid, and what
\* was paid counts against the cap and the cooldown unless it was lost sight of
\* (faucet-service.ts, claim).
PaidIsRecorded ==
    \A c \in Claims :
        /\ Status(c, "success") => transfers[c] = "mined"
        /\ transfers[c] \in {"pooled", "mined"} /\ c \notin lost => ~Status(c, "failed")

\* A row is resolved once: the recovery of stale rows and the request that wrote
\* them never both decide (reserveClaim against markSuccess and markFailed).
ResolvedOnce ==
    [][\A c \in Claims : Status(c, "success") \/ Status(c, "failed")
                            => claims'[c] = claims[c]]_vars
=============================================================================
