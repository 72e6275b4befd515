-------------------------- MODULE UserWalletsProofs --------------------------
(* Theorems about UserWallets, for any users, members, addresses, requests   *)
(* and limit.                                                                *)
EXTENDS UserWallets, FiniteSetTheorems, TLAPS

\* The holder of a wallet is live and entitled to it.
HolderOK(a) ==
    wallets[a] # NoValue => Live(wallets[a]) /\ <<wallets[a], a>> \in entitled

\* What a request is about to write: addresses its user is entitled to, or will
\* be with the write; and the rows it has seen are still its user's.
RequestOK(r) ==
    InFlight(r) =>
        /\ req[r].seen \subseteq WalletsOf(req[r].user)
        /\ req[r].pc # "commit" => req[r].seen = {}
        /\ req[r].pc = "handler" => req[r].op \in {"associate", "disassociate"}
        /\ req[r].pc \in {"validate", "insert"} => req[r].op # "disassociate"
        /\ \A a \in req[r].list :
              \/ <<req[r].user, a>> \in entitled
              \/ a \in req[r].given /\ req[r].op # "disassociate"

\* A request that has its user for itself has counted what its write will leave.
AloneOK(r) ==
    InFlight(r) /\ req[r].user \notin overlapped =>
        /\ Cardinality(req[r].list) <= Limit
        /\ req[r].pc \in {"validate", "insert"} =>
              WalletsOf(req[r].user) \subseteq req[r].list /\ req[r].given \subseteq req[r].list
        /\ req[r].pc = "commit" => WalletsOf(req[r].user) \subseteq req[r].seen

UniqueOK ==
    \A r, q \in Requests :
        InFlight(r) /\ InFlight(q) /\ req[r].user = req[q].user /\ req[r].user \notin overlapped => r = q

LimitOK(u) == u \notin overlapped => Cardinality(WalletsOf(u)) <= Limit

Inv ==
    /\ TypeOK
    /\ \A a \in Addresses : HolderOK(a)
    /\ \A r \in Requests : RequestOK(r) /\ AloneOK(r)
    /\ UniqueOK
    /\ \A u \in Users : LimitOK(u)

LEMMA Counted ==
  ASSUME NEW S \in SUBSET Addresses, NEW T \in SUBSET S
  PROVE  /\ Cardinality(S) \in Nat /\ Cardinality(T) \in Nat
         /\ Cardinality(T) <= Cardinality(S)
  BY WalletAssumption, FS_Subset, FS_CardinalityType

LEMMA InitInv == Init => Inv
  <1> SUFFICES ASSUME Init PROVE Inv
    OBVIOUS
  <1>1. TypeOK
    BY DEF Init, TypeOK
  <1>2. UniqueOK /\ \A r \in Requests : RequestOK(r) /\ AloneOK(r)
    BY DEF Init, UniqueOK, RequestOK, AloneOK, InFlight
  <1>3. \A a \in Addresses : HolderOK(a)
    BY DEF Init, HolderOK
  <1>4. ASSUME NEW u \in Users PROVE LimitOK(u)
    <2>1. WalletsOf(u) = {}
      BY WalletAssumption DEF Init, WalletsOf
    <2>2. Cardinality({}) = 0
      BY FS_EmptySet
    <2> QED BY <2>1, <2>2, WalletAssumption DEF LimitOK
  <1> QED BY <1>1, <1>2, <1>3, <1>4 DEF Inv

\* A step in which one request moves on, and no row is written.
Moves(r) ==
    /\ req' \in [Requests -> Requested \cup {Waiting}]
    /\ \A q \in Requests \ {r} : req'[q] = req[q]
    /\ UNCHANGED <<account, wallets, history, orgDeleted, entitled>>

LEMMA MoveStep ==
  ASSUME Inv, NEW r \in Requests, Moves(r), overlapped' = overlapped,
         InFlight(r)' => InFlight(r) /\ req'[r].user = req[r].user,
         RequestOK(r)', AloneOK(r)'
  PROVE  Inv'
  <1>1. TypeOK'
    BY DEF Inv, TypeOK, Moves
  <1>2. ASSUME NEW q \in Requests PROVE RequestOK(q)' /\ AloneOK(q)'
    <2>1. CASE q = r
      BY <2>1
    <2>2. CASE q # r
      BY <2>2 DEF Inv, RequestOK, AloneOK, Moves, InFlight, WalletsOf
    <2> QED BY <2>1, <2>2
  <1>3. UniqueOK'
    BY DEF Inv, UniqueOK, Moves, InFlight
  <1>4. \A a \in Addresses : HolderOK(a)'
    BY DEF Inv, HolderOK, Moves, Live
  <1>5. \A u \in Users : LimitOK(u)'
    BY DEF Inv, LimitOK, Moves, WalletsOf
  <1> QED BY <1>1, <1>2, <1>3, <1>4, <1>5 DEF Inv

LEMMA FinishStep ==
  ASSUME Inv, NEW r \in Requests, Finish(r), overlapped' = overlapped,
         UNCHANGED <<account, wallets, history, orgDeleted, entitled>>
  PROVE  Inv'
  <1>1. req'[r] = Waiting /\ Moves(r)
    BY DEF Finish, Moves, Inv, TypeOK
  <1>2. ~InFlight(r)'
    BY <1>1 DEF InFlight
  <1>3. RequestOK(r)' /\ AloneOK(r)'
    BY <1>2 DEF RequestOK, AloneOK
  <1> QED BY <1>1, <1>2, <1>3, MoveStep

\* A request in flight is a record.
LEMMA Flying ==
  ASSUME Inv, NEW r \in Requests, InFlight(r)
  PROVE  req[r] \in Requested
  BY DEF Inv, TypeOK, InFlight

\* A request starts with a list it may write.
Ready(r, pc, op, u, given, list) ==
    /\ pc \in {"handler", "update", "validate", "insert"} /\ op \in Ops /\ u \in Users
    /\ given \in SUBSET Addresses /\ list \in SUBSET Addresses
    /\ Start(r, pc, op, u, given, list)
    /\ UNCHANGED <<account, wallets, history, orgDeleted, entitled>>
    /\ pc = "handler" => op \in {"associate", "disassociate"}
    /\ pc \in {"validate", "insert"} => op # "disassociate"
    /\ \A a \in list : <<u, a>> \in entitled \/ (a \in given /\ op # "disassociate")
    /\ u \notin overlapped' => Cardinality(list) <= Limit
    /\ pc \in {"validate", "insert"} => WalletsOf(u) \subseteq list /\ given \subseteq list

\* A request starts: its user is marked if another one is working on it.
LEMMA StartStep ==
  ASSUME Inv, NEW r \in Requests, NEW u, NEW pc, NEW op, NEW given, NEW list,
         Ready(r, pc, op, u, given, list)
  PROVE  Inv'
  <1> USE DEF Ready
  <1> DEFINE new == [pc |-> pc, op |-> op, user |-> u, given |-> given,
                     new |-> given \ WalletsOf(u), list |-> list, seen |-> {}]
  <1>1. new \in Requested
    BY DEF Requested
  <1>2. req'[r] = new /\ Moves(r)
    BY <1>1 DEF Start, Moves, Inv, TypeOK
  <1>3. /\ overlapped \subseteq overlapped' /\ overlapped' \subseteq Users
        /\ u \notin overlapped' => \A q \in Requests : InFlight(q) => req[q].user # u
    BY DEF Start, Inv, TypeOK
  <1>4. /\ req'[r].pc = pc /\ req'[r].op = op /\ req'[r].user = u /\ req'[r].given = given
        /\ req'[r].list = list /\ req'[r].seen = {}
    BY <1>2
  <1> HIDE DEF new
  <1>5. TypeOK'
    BY <1>2, <1>3 DEF Inv, TypeOK, Moves
  <1>6. ASSUME NEW q \in Requests PROVE RequestOK(q)' /\ AloneOK(q)'
    <2>1. CASE q = r
      BY <1>2, <1>4, <2>1 DEF RequestOK, AloneOK, Moves, WalletsOf
    <2>2. CASE q # r
      BY <1>2, <1>3, <2>2 DEF Inv, RequestOK, AloneOK, Moves, InFlight, WalletsOf
    <2> QED BY <2>1, <2>2
  <1>7. UniqueOK'
    BY <1>2, <1>3, <1>4 DEF Inv, UniqueOK, Moves, InFlight
  <1>8. \A a \in Addresses : HolderOK(a)'
    BY <1>2 DEF Inv, HolderOK, Moves, Live
  <1>9. \A v \in Users : LimitOK(v)'
    BY <1>2, <1>3 DEF Inv, LimitOK, Moves, WalletsOf
  <1> QED BY <1>5, <1>6, <1>7, <1>8, <1>9 DEF Inv

\* What a live user holds, it is entitled to; what nobody created holds nothing.
LEMMA Holdings ==
  ASSUME Inv, NEW u \in Users
  PROVE  /\ WalletsOf(u) \in SUBSET Addresses
         /\ \A a \in WalletsOf(u) : <<u, a>> \in entitled
         /\ ~Live(u) => WalletsOf(u) = {}
         /\ u \notin overlapped => Cardinality(WalletsOf(u)) <= Limit
  BY WalletAssumption DEF Inv, HolderOK, LimitOK, WalletsOf, Live

LEMMA ArrivalStep ==
  ASSUME Inv, NEW r \in Requests, NEW u \in Users,
         \/ \E a \in Addresses, op \in {"associate", "disassociate"} : Authenticate(r, op, u, a)
         \/ \E as \in SUBSET Addresses :
               \/ Replace(r, u, as)
               \/ \E op \in {"m2m_add", "tenant_add"} : Add(r, op, u, as)
               \/ \E op \in {"create", "m2m_create"} : Create(r, op, u, as)
  PROVE  Inv'
  <1>0. overlapped \subseteq overlapped'
    BY DEF Authenticate, Replace, Add, Create, Start
  <1>1. ASSUME NEW a \in Addresses, NEW op \in {"associate", "disassociate"}, Authenticate(r, op, u, a)
        PROVE  Inv'
    <2>1. Ready(r, "handler", op, u, {a}, WalletsOf(u))
      BY <1>0, <1>1, Holdings DEF Authenticate, Ops, Ready
    <2> QED BY <2>1, StartStep
  <1>2. ASSUME NEW as \in SUBSET Addresses, Replace(r, u, as)
        PROVE  Inv'
    <2>1. Ready(r, "update", "replace", u, as, as)
      BY <1>2 DEF Replace, WithinLimitOf, Ops, Ready
    <2> QED BY <2>1, StartStep
  <1>3. ASSUME NEW as \in SUBSET Addresses, NEW op \in {"m2m_add", "tenant_add"}, Add(r, op, u, as)
        PROVE  Inv'
    <2>1. Ready(r, "validate", op, u, as, WalletsOf(u) \cup as)
      BY <1>3, Holdings DEF Add, WithinLimitOf, Ops, Ready
    <2> QED BY <2>1, StartStep
  <1>4. ASSUME NEW as \in SUBSET Addresses, NEW op \in {"create", "m2m_create"}, Create(r, op, u, as)
        PROVE  Inv'
    <2>1. WalletsOf(u) = {}
      BY <1>4, Holdings DEF Create, Live
    <2>2. PICK pc \in {"insert", "validate"} : Start(r, pc, op, u, as, as)
      BY <1>4 DEF Create
    <2>3. Ready(r, pc, op, u, as, as)
      BY <1>4, <2>1, <2>2 DEF Create, WithinLimitOf, Ops, Ready
    <2> QED BY <2>3, StartStep
  <1> QED BY <1>1, <1>2, <1>3, <1>4

\* A request goes on to pc with the list it has: nothing it knows changes.
LEMMA GotoStep ==
  ASSUME Inv, NEW r \in Requests, InFlight(r), NEW pc \in {"validate", "insert", "update", "snapshot"},
         Goto(r, pc), UNCHANGED <<account, wallets, history, orgDeleted, entitled, overlapped>>,
         req[r].pc # "commit",
         pc = "insert" => req[r].pc = "validate", pc # "validate"
  PROVE  Inv'
  <1>1. req[r] \in Requested
    BY Flying
  <1> DEFINE new == [req[r] EXCEPT !.pc = pc]
  <1>2. /\ new \in Requested /\ new.pc = pc /\ new.op = req[r].op /\ new.user = req[r].user
        /\ new.given = req[r].given /\ new.list = req[r].list /\ new.seen = req[r].seen
    BY <1>1 DEF Requested
  <1>3. req'[r] = new /\ Moves(r)
    BY <1>2 DEF Goto, Moves, Inv, TypeOK
  <1> HIDE DEF new
  <1>4. RequestOK(r) /\ AloneOK(r)
    BY DEF Inv
  <1>5. RequestOK(r)' /\ AloneOK(r)'
    BY <1>2, <1>3, <1>4 DEF RequestOK, AloneOK, Moves, WalletsOf
  <1> QED BY <1>2, <1>3, <1>5, MoveStep

LEMMA AssociateStep ==
  ASSUME Inv, NEW r \in Requests, Associate(r)
  PROVE  Inv'
  <1> DEFINE u == req[r].user
             list == WalletsOf(u) \cup req[r].given
             new == [req[r] EXCEPT !.pc = "update", !.list = list]
  <1>1. /\ InFlight(r) /\ req[r].pc = "handler" /\ req[r].op = "associate"
        /\ UNCHANGED <<account, wallets, history, orgDeleted, entitled, overlapped>>
    BY DEF Associate, At, Doing
  <1>2. req[r] \in Requested /\ u \in Users /\ req[r].given \in SUBSET Addresses
    BY <1>1, Flying DEF Requested
  <1>3. CASE Live(u) /\ list # WalletsOf(u) /\ WithinLimitOf(list)
    <2>1. \A a \in list : <<u, a>> \in entitled \/ a \in req[r].given
      BY <1>2, Holdings
    <2>2. list \in SUBSET Addresses /\ Cardinality(list) <= Limit
      BY <1>2, <1>3 DEF WalletsOf, WithinLimitOf
    <2> HIDE DEF list
    <2>3. /\ new \in Requested /\ new.pc = "update" /\ new.op = req[r].op /\ new.user = u
          /\ new.given = req[r].given /\ new.list = list /\ new.seen = req[r].seen
      BY <1>2, <2>2 DEF Requested
    <2>4. req'[r] = new
      BY <1>3 DEF Associate, Inv, TypeOK, list
    <2>5. Moves(r)
      BY <1>1, <1>3, <2>3 DEF Associate, Moves, Inv, TypeOK, list
    <2> HIDE DEF new
    <2>6. RequestOK(r) /\ AloneOK(r)
      BY DEF Inv
    <2>7. RequestOK(r)' /\ AloneOK(r)'
      BY <1>1, <2>1, <2>2, <2>3, <2>4, <2>6 DEF RequestOK, AloneOK, InFlight, WalletsOf
    <2> QED BY <1>1, <2>3, <2>4, <2>5, <2>7, MoveStep
  <1>4. CASE ~(Live(u) /\ list # WalletsOf(u) /\ WithinLimitOf(list))
    BY <1>1, <1>4, FinishStep DEF Associate
  <1> QED BY <1>3, <1>4

LEMMA DisassociateStep ==
  ASSUME Inv, NEW r \in Requests, Disassociate(r)
  PROVE  Inv'
  <1> DEFINE new == [req[r] EXCEPT !.pc = "update", !.list = @ \ req[r].given]
  <1>1. /\ InFlight(r) /\ req[r].pc = "handler"
        /\ UNCHANGED <<account, wallets, history, orgDeleted, entitled, overlapped>>
    BY DEF Disassociate, At
  <1>2. req[r] \in Requested /\ req[r].list \in SUBSET Addresses
    BY <1>1, Flying DEF Requested
  <1>3. CASE req[r].given \subseteq WalletsOf(req[r].user)
    <2>1. /\ new \in Requested /\ new.pc = "update" /\ new.op = req[r].op
          /\ new.user = req[r].user /\ new.given = req[r].given
          /\ new.list = req[r].list \ req[r].given /\ new.seen = req[r].seen
      BY <1>2 DEF Requested
    <2>2. req'[r] = new /\ Moves(r)
      BY <1>1, <1>3, <2>1 DEF Disassociate, Moves, Inv, TypeOK
    <2> HIDE DEF new
    <2>3. Cardinality(new.list) <= Cardinality(req[r].list) /\ new.list \subseteq req[r].list
          /\ Cardinality(new.list) \in Nat /\ Cardinality(req[r].list) \in Nat /\ Limit \in Nat
      BY <1>2, <2>1, Counted, WalletAssumption
    <2>4. RequestOK(r) /\ AloneOK(r)
      BY DEF Inv
    <2>5. RequestOK(r)' /\ AloneOK(r)'
      BY <1>1, <2>1, <2>2, <2>3, <2>4 DEF RequestOK, AloneOK, InFlight, WalletsOf
    <2> QED BY <1>1, <2>1, <2>2, <2>5, MoveStep
  <1>4. CASE ~(req[r].given \subseteq WalletsOf(req[r].user))
    BY <1>1, <1>4, FinishStep DEF Disassociate
  <1> QED BY <1>3, <1>4

LEMMA UpdateStartStep ==
  ASSUME Inv, NEW r \in Requests, UpdateStart(r)
  PROVE  Inv'
  <1> DEFINE s == WalletsOf(req[r].user)
             new == [req[r] EXCEPT !.pc = "commit", !.seen = s]
  <1>1. /\ InFlight(r) /\ req[r].pc = "snapshot"
        /\ UNCHANGED <<account, wallets, history, orgDeleted, entitled, overlapped>>
    BY DEF UpdateStart, At
  <1>2. req[r] \in Requested /\ s \in SUBSET Addresses
    BY <1>1, Flying DEF WalletsOf
  <1> HIDE DEF s
  <1>3. /\ new \in Requested /\ new.pc = "commit" /\ new.op = req[r].op
        /\ new.user = req[r].user /\ new.given = req[r].given
        /\ new.list = req[r].list /\ new.seen = s
    BY <1>2 DEF Requested
  <1>4. req'[r] = new /\ Moves(r)
    BY <1>1, <1>3 DEF UpdateStart, Moves, Inv, TypeOK, s
  <1> HIDE DEF new
  <1>5. RequestOK(r) /\ AloneOK(r)
    BY DEF Inv
  <1>6. RequestOK(r)' /\ AloneOK(r)'
    BY <1>1, <1>3, <1>4, <1>5 DEF RequestOK, AloneOK, InFlight, WalletsOf, s
  <1> QED BY <1>1, <1>3, <1>4, <1>6, MoveStep

\* The rows of some users are released.
Released(U) ==
    /\ \A a \in Addresses : wallets'[a] = IF wallets[a] \in U THEN NoValue ELSE wallets[a]
    /\ wallets' \in [Addresses -> Users \cup {NoValue}]
    /\ req' = Unseen(req, {a \in Addresses : wallets[a] \in U})
    /\ UNCHANGED <<entitled, overlapped>>

\* What the rows of other transactions become when rows change hands.
Forgets(q, as) ==
    /\ req'[q] \in Requested \cup {Waiting}
    /\ InFlight(q)' <=> InFlight(q)
    /\ InFlight(q) => /\ req'[q].seen = req[q].seen \ as /\ req'[q].pc = req[q].pc
                      /\ req'[q].op = req[q].op /\ req'[q].user = req[q].user
                      /\ req'[q].given = req[q].given /\ req'[q].list = req[q].list
                      /\ req[q].user \in Users /\ req[q].list \in SUBSET Addresses
                      /\ req[q].given \in SUBSET Addresses

LEMMA UnseenRequest ==
  ASSUME Inv, NEW reqs, NEW as, NEW q \in Requests, req' = Unseen(reqs, as), reqs[q] = req[q]
  PROVE  Forgets(q, as)
  <1> USE DEF Forgets
  <1>0. req'[q] = IF req[q] = Waiting THEN Waiting ELSE [req[q] EXCEPT !.seen = @ \ as]
    BY DEF Unseen
  <1>1. CASE InFlight(q)
    <2>1. req[q] \in Requested
      BY <1>1, Flying
    <2>2. req'[q] = [req[q] EXCEPT !.seen = @ \ as]
      BY <1>0, <1>1 DEF InFlight
    <2>3. /\ req'[q] \in Requested
          /\ req'[q].seen = req[q].seen \ as /\ req'[q].pc = req[q].pc
          /\ req'[q].op = req[q].op /\ req'[q].user = req[q].user
          /\ req'[q].given = req[q].given /\ req'[q].list = req[q].list
          /\ req[q].user \in Users /\ req[q].list \in SUBSET Addresses
          /\ req[q].given \in SUBSET Addresses
      BY <2>1, <2>2 DEF Requested
    <2>4. Waiting \notin Requested
      BY DEF Waiting, Requested
    <2> QED BY <1>1, <2>3, <2>4 DEF InFlight
  <1>2. CASE ~InFlight(q)
    BY <1>0, <1>2 DEF InFlight
  <1> QED BY <1>1, <1>2

LEMMA ReleaseStep ==
  ASSUME Inv, NEW U \in SUBSET Users, Released(U),
         account' \in [Users -> {"none", "live", "deleted"}], orgDeleted' \in BOOLEAN,
         history' \in [Addresses -> SUBSET Users],
         \A u \in Users \ U : account'[u] = account[u]
  PROVE  Inv'
  <1> DEFINE as == {a \in Addresses : wallets[a] \in U}
  <1>1. ASSUME NEW u \in Users
        PROVE  /\ WalletsOf(u)' = WalletsOf(u) \ as
               /\ WalletsOf(u) \in SUBSET Addresses /\ WalletsOf(u)' \in SUBSET WalletsOf(u)
    BY WalletAssumption DEF Released, WalletsOf
  <1>2. as \in SUBSET Addresses
    OBVIOUS
  <1>3. /\ req' = Unseen(req, as) /\ UNCHANGED <<entitled, overlapped>>
    BY DEF Released
  <1>4. \A a \in Addresses : HolderOK(a)'
    <2> SUFFICES ASSUME NEW a \in Addresses, wallets'[a] # NoValue
                 PROVE  Live(wallets[a])' /\ <<wallets[a], a>>' \in entitled'
      BY DEF HolderOK
    <2>1. wallets'[a] = wallets[a] /\ wallets[a] \in Users \ U
      BY DEF Released, Inv, TypeOK
    <2> QED BY <1>3, <2>1 DEF Inv, HolderOK, Live
  <1> HIDE DEF as
  <1>6. ASSUME NEW q \in Requests PROVE Forgets(q, as)
    BY <1>2, <1>3, UnseenRequest
  <1>7. TypeOK'
    <2>1. req' \in [Requests -> Requested \cup {Waiting}]
      BY <1>3, <1>6 DEF Unseen, Forgets
    <2> QED BY <2>1 DEF Inv, TypeOK, Released
  <1>8. ASSUME NEW q \in Requests PROVE RequestOK(q)' /\ AloneOK(q)'
    <2> SUFFICES ASSUME InFlight(q) PROVE RequestOK(q)' /\ AloneOK(q)'
      BY <1>6 DEF Forgets, RequestOK, AloneOK
    <2>1. RequestOK(q) /\ AloneOK(q) /\ Forgets(q, as)
      BY <1>6 DEF Inv
    <2>2. PICK v \in Users : v = req[q].user
      BY <2>1 DEF Forgets
    <2>3. WalletsOf(v)' = WalletsOf(v) \ as /\ req'[q].user = v
      BY <1>1, <2>1, <2>2 DEF Forgets
    <2>4. WalletsOf(req[q].user)' = WalletsOf(v) \ as
      BY <2>3 DEF WalletsOf
    <2>5. RequestOK(q)'
      BY <1>3, <2>1, <2>2, <2>4 DEF RequestOK, Forgets
    <2>6. AloneOK(q)'
      BY <1>3, <2>1, <2>2, <2>4 DEF AloneOK, Forgets
    <2> QED BY <2>5, <2>6
  <1>9. UniqueOK'
    BY <1>3, <1>6 DEF Inv, UniqueOK, Forgets
  <1>10. ASSUME NEW u \in Users PROVE LimitOK(u)'
    <2>1. PICK S \in SUBSET Addresses : S = WalletsOf(u)
      BY <1>1
    <2>2. PICK T \in SUBSET S : T = WalletsOf(u)'
      BY <1>1, <2>1
    <2>3. /\ Cardinality(S) \in Nat /\ Cardinality(T) \in Nat
          /\ Cardinality(T) <= Cardinality(S) /\ Limit \in Nat
      BY Counted, WalletAssumption
    <2>4. LimitOK(u)
      BY DEF Inv
    <2>5. u \notin overlapped => Cardinality(S) <= Limit
      BY <2>1, <2>4 DEF LimitOK
    <2>6. u \notin overlapped' => Cardinality(WalletsOf(u)') <= Limit
      BY <1>3, <2>2, <2>3, <2>5
    <2> QED BY <2>6 DEF LimitOK
  <1> QED BY <1>4, <1>7, <1>8, <1>9, <1>10 DEF Inv

\* A write that its user is, or becomes, entitled to, and that meets no row of
\* another user.
Writes(r, as) ==
    LET u == req[r].user IN
    /\ InFlight(r)
    /\ as \in SUBSET Addresses
    /\ SetWallets(r, as)
    /\ Conflicts(r, as) = {}
    /\ account' \in [Users -> {"none", "live", "deleted"}]
    /\ account'[u] = "live" /\ \A v \in Users \ {u} : account'[v] = account[v]
    /\ entitled \subseteq entitled' /\ entitled' \subseteq Users \X Addresses
    /\ \A a \in as : <<u, a>> \in entitled'
    /\ u \notin overlapped => as \cup (WalletsOf(u) \ req[r].seen) \subseteq req[r].list
    /\ UNCHANGED <<orgDeleted, overlapped>>

\* Where the rows are after a write for u.
RowsMove(r, as, u) ==
    /\ WalletsOf(u)' = as \cup (WalletsOf(u) \ req[r].seen)
    /\ \A v \in Users \ {u} : /\ WalletsOf(v)' = WalletsOf(v)
                              /\ (as \cup req[r].seen) \cap WalletsOf(v) = {}
    /\ \A a \in Addresses : \/ a \in as /\ wallets'[a] = u
                            \/ wallets'[a] = NoValue
                            \/ wallets'[a] = wallets[a]
    /\ \A a \in as : wallets[a] = NoValue \/ wallets[a] = u

LEMMA WrittenRows ==
  ASSUME Inv, NEW r \in Requests, NEW as, Writes(r, as), NEW u \in Users, u = req[r].user
  PROVE  RowsMove(r, as, u)
  <1>1. req[r].seen \subseteq WalletsOf(u)
    BY DEF Inv, RequestOK, Writes
  <1>2. \A a \in as : a \in req[r].seen \/ wallets[a] = NoValue
    BY DEF Writes, Conflicts
  <1>3. \A a \in Addresses : wallets'[a] = IF a \in as THEN u
                                            ELSE IF a \in req[r].seen THEN NoValue ELSE wallets[a]
    BY DEF Writes, SetWallets, Inserted
  <1>4. as \in SUBSET Addresses /\ NoValue \notin Users
    BY WalletAssumption DEF Writes
  <1>5. \A a \in as : wallets[a] = NoValue \/ wallets[a] = u
    BY <1>1, <1>2 DEF WalletsOf
  <1>6. WalletsOf(u)' = as \cup (WalletsOf(u) \ req[r].seen)
    BY <1>3, <1>4 DEF WalletsOf
  <1>7. ASSUME NEW v \in Users \ {u}
        PROVE  /\ WalletsOf(v)' = WalletsOf(v)
               /\ (as \cup req[r].seen) \cap WalletsOf(v) = {}
    <2>1. (as \cup req[r].seen) \cap WalletsOf(v) = {}
      BY <1>1, <1>4, <1>5 DEF WalletsOf
    <2> QED BY <1>3, <1>4, <2>1 DEF WalletsOf
  <1> QED BY <1>3, <1>5, <1>6, <1>7 DEF RowsMove

LEMMA WriteStep ==
  ASSUME Inv, NEW r \in Requests, NEW as, Writes(r, as)
  PROVE  Inv'
  <1>1. req[r] \in Requested /\ RequestOK(r) /\ AloneOK(r)
    BY Flying DEF Writes, Inv
  <1>2. PICK u \in Users : u = req[r].user
    BY <1>1 DEF Requested
  <1> DEFINE gone == as \cup req[r].seen
  <1>3. /\ WalletsOf(u)' = as \cup (WalletsOf(u) \ req[r].seen)
        /\ \A v \in Users \ {u} : WalletsOf(v)' = WalletsOf(v) /\ gone \cap WalletsOf(v) = {}
        /\ \A a \in Addresses : \/ a \in as /\ wallets'[a] = u
                                \/ wallets'[a] = NoValue
                                \/ wallets'[a] = wallets[a]
    <2>1. RowsMove(r, as, u)
      BY <1>2, WrittenRows
    <2> QED BY <2>1 DEF RowsMove
  <1>4. req' = Unseen([req EXCEPT ![r] = Waiting], gone)
    BY DEF Writes, SetWallets
  <1> HIDE DEF gone
  <1>5. ASSUME NEW q \in Requests \ {r} PROVE Forgets(q, gone)
    <2>1. [req EXCEPT ![r] = Waiting][q] = req[q]
      BY DEF Inv, TypeOK
    <2> QED BY <1>4, <2>1, UnseenRequest
  <1>6. req'[r] = Waiting /\ ~InFlight(r)'
    BY <1>4 DEF Unseen, InFlight, Inv, TypeOK
  <1>7. /\ UNCHANGED <<orgDeleted, overlapped>> /\ entitled \subseteq entitled'
        /\ entitled' \subseteq Users \X Addresses /\ account'[u] = "live"
        /\ \A v \in Users \ {u} : account'[v] = account[v]
        /\ \A a \in as : <<u, a>> \in entitled'
    BY <1>2 DEF Writes
  <1>8. TypeOK'
    <2>1. req' \in [Requests -> Requested \cup {Waiting}]
      BY <1>4, <1>5, <1>6 DEF Unseen, Forgets
    <2>2. wallets' \in [Addresses -> Users \cup {NoValue}]
      BY <1>1, <1>2 DEF Writes, SetWallets, Inserted, Inv, TypeOK
    <2>3. history' \in [Addresses -> SUBSET Users]
      BY <1>1, <1>2 DEF Writes, SetWallets, Inserted, Inv, TypeOK
    <2> QED BY <2>1, <2>2, <2>3 DEF Inv, TypeOK, Writes
  <1>9. ASSUME NEW a \in Addresses PROVE HolderOK(a)'
    <2> SUFFICES ASSUME wallets'[a] # NoValue
                 PROVE  Live(wallets[a])' /\ <<wallets[a], a>>' \in entitled'
      BY DEF HolderOK
    <2>1. CASE a \in as /\ wallets'[a] = u
      BY <1>7, <2>1 DEF Live
    <2>2. CASE wallets'[a] = wallets[a]
      <3>1. HolderOK(a) /\ wallets[a] \in Users
        BY <2>2 DEF Inv, TypeOK
      <3> QED BY <1>7, <2>2, <3>1 DEF HolderOK, Live
    <2> QED BY <1>3, <2>1, <2>2
  <1>10. ASSUME NEW q \in Requests PROVE RequestOK(q)' /\ AloneOK(q)'
    <2> SUFFICES ASSUME InFlight(q), q # r PROVE RequestOK(q)' /\ AloneOK(q)'
      BY <1>5, <1>6 DEF Forgets, RequestOK, AloneOK
    <2>1. RequestOK(q) /\ AloneOK(q) /\ Forgets(q, gone)
      BY <1>5 DEF Inv
    <2>2. PICK v \in Users : v = req[q].user
      BY <2>1 DEF Forgets
    <2>3. req'[q].user = v /\ req'[q].seen = req[q].seen \ gone /\ req[q].seen \subseteq WalletsOf(v)
      BY <2>1, <2>2 DEF Forgets, RequestOK
    <2>4. req'[q].seen \subseteq WalletsOf(v)'
      <3>1. CASE v = u
        <4>1. \A a \in WalletsOf(u) \ gone : a \in WalletsOf(u)'
          BY <1>3 DEF gone
        <4> QED BY <2>3, <3>1, <4>1
      <3>2. CASE v # u
        BY <1>3, <2>3, <3>2
      <3> QED BY <3>1, <3>2
    <2>5. v = u => v \in overlapped
      BY <1>2, <2>2 DEF Inv, UniqueOK, Writes
    <2>6. v \notin overlapped => WalletsOf(v)' = WalletsOf(v) /\ req'[q].seen = req[q].seen
      BY <1>3, <2>3, <2>5
    <2>7. WalletsOf(v)' = WalletsOf(req[q].user)'
      BY <2>3 DEF WalletsOf
    <2>8. RequestOK(q)'
      BY <1>7, <2>1, <2>2, <2>4, <2>7 DEF RequestOK, Forgets
    <2>9. AloneOK(q)'
      BY <1>7, <2>1, <2>2, <2>6, <2>7 DEF AloneOK, Forgets
    <2> QED BY <2>8, <2>9
  <1>11. UniqueOK'
    BY <1>5, <1>6, <1>7 DEF Inv, UniqueOK, Forgets
  <1>12. ASSUME NEW v \in Users PROVE LimitOK(v)'
    <2>1. CASE v # u
      BY <1>3, <1>7, <2>1 DEF Inv, LimitOK
    <2>2. CASE v = u /\ u \notin overlapped
      <3>1. PICK S \in SUBSET Addresses : S = req[r].list
        BY <1>1 DEF Requested
      <3>2. PICK T \in SUBSET S : T = WalletsOf(u)'
        BY <1>2, <1>3, <2>2, <3>1 DEF Writes
      <3>3. /\ Cardinality(S) \in Nat /\ Cardinality(T) \in Nat
            /\ Cardinality(T) <= Cardinality(S) /\ Limit \in Nat
        BY Counted, WalletAssumption
      <3>4. Cardinality(S) <= Limit
        BY <1>1, <1>2, <2>2, <3>1 DEF AloneOK, Writes
      <3>5. Cardinality(WalletsOf(u)') <= Limit
        BY <3>2, <3>3, <3>4
      <3> QED BY <2>2, <3>5 DEF LimitOK
    <2> QED BY <1>7, <2>1, <2>2 DEF LimitOK
  <1> QED BY <1>8, <1>9, <1>10, <1>11, <1>12 DEF Inv

LEMMA CommitStep ==
  ASSUME Inv, NEW r \in Requests, UpdateCommit(r)
  PROVE  Inv' /\ (Writes(r, req[r].list) \/ wallets' = wallets)
  <1>1. /\ InFlight(r) /\ req[r].pc = "commit"
        /\ UNCHANGED <<account, orgDeleted, overlapped>>
    BY DEF UpdateCommit, At
  <1>2. req[r] \in Requested /\ RequestOK(r) /\ AloneOK(r)
    BY <1>1, Flying DEF Inv
  <1>3. CASE Applies(r)
    <2>1. SetWallets(r, req[r].list) /\ Written(r, req[r].user)
      BY <1>3 DEF UpdateCommit
    <2>2. Live(req[r].user) /\ Conflicts(r, req[r].list) = {}
      BY <1>3 DEF Applies
    <2>3. /\ req[r].user \in Users /\ req[r].list \in SUBSET Addresses
          /\ req[r].given \in SUBSET Addresses
      BY <1>2 DEF Requested
    <2>4. entitled \subseteq entitled' /\ entitled' \subseteq Users \X Addresses
      BY <2>1, <2>3 DEF Written, Inv, TypeOK
    <2>5. \A a \in req[r].list : <<req[r].user, a>> \in entitled'
      BY <1>1, <1>2, <2>1 DEF Written, RequestOK, Doing
    <2>6. req[r].user \notin overlapped =>
             req[r].list \cup (WalletsOf(req[r].user) \ req[r].seen) \subseteq req[r].list
      BY <1>1, <1>2 DEF AloneOK
    <2>7. account' \in [Users -> {"none", "live", "deleted"}] /\ account' = account
      BY <1>1 DEF Inv, TypeOK
    <2>8. Writes(r, req[r].list)
      BY <1>1, <2>1, <2>2, <2>3, <2>4, <2>5, <2>6, <2>7 DEF Writes, Live
    <2> QED BY <2>8, WriteStep
  <1>4. CASE ~Applies(r)
    BY <1>1, <1>4, FinishStep DEF UpdateCommit
  <1> QED BY <1>3, <1>4

LEMMA InsertStep ==
  ASSUME Inv, NEW r \in Requests, Insert(r)
  PROVE  Inv' /\ ((\E as : Writes(r, as)) \/ wallets' = wallets)
  <1> DEFINE u == req[r].user
             new == req[r].given \ WalletsOf(u)
             ok == /\ account[u] = IF Doing(r, "tenant_add") THEN "live" ELSE "none"
                   /\ Conflicts(r, new) = {}
  <1>1. /\ InFlight(r) /\ req[r].pc = "insert" /\ UNCHANGED <<orgDeleted, overlapped>>
    BY DEF Insert, At
  <1>2. req[r] \in Requested /\ RequestOK(r) /\ AloneOK(r)
    BY <1>1, Flying DEF Inv
  <1>3. u \in Users /\ req[r].given \in SUBSET Addresses /\ new \in SUBSET Addresses
    BY <1>2 DEF Requested
  <1>4. CASE ok
    <2>1. /\ SetWallets(r, new) /\ Written(r, u) /\ Conflicts(r, new) = {}
          /\ account' = [account EXCEPT ![u] = "live"]
      BY <1>4 DEF Insert
    <2>2. entitled \subseteq entitled' /\ entitled' \subseteq Users \X Addresses
      BY <1>3, <2>1 DEF Written, Inv, TypeOK
    <2>3. \A a \in new : <<u, a>> \in entitled'
      BY <1>1, <1>2, <2>1 DEF Written, RequestOK, Doing
    <2>4. u \notin overlapped => new \cup (WalletsOf(u) \ req[r].seen) \subseteq req[r].list
      BY <1>1, <1>2 DEF AloneOK
    <2>5. /\ account' \in [Users -> {"none", "live", "deleted"}] /\ account'[u] = "live"
          /\ \A v \in Users \ {u} : account'[v] = account[v]
      BY <1>3, <2>1 DEF Inv, TypeOK
    <2> HIDE DEF new
    <2>6. Writes(r, new)
      BY <1>1, <1>3, <2>1, <2>2, <2>3, <2>4, <2>5 DEF Writes
    <2> QED BY <2>6, WriteStep
  <1>5. CASE ~ok
    <2>1. Finish(r) /\ UNCHANGED <<account, wallets, history, entitled>>
      BY <1>5 DEF Insert
    <2> QED BY <1>1, <2>1, FinishStep
  <1> QED BY <1>4, <1>5

LEMMA DeletionStep ==
  ASSUME Inv, (\E u \in Users : DeleteUser(u)) \/ DeleteOrg
  PROVE  Inv' /\ \E U \in SUBSET Users : Released(U)
  <1>1. ASSUME NEW u \in Users, DeleteUser(u)
        PROVE  Inv' /\ \E U \in SUBSET Users : Released(U)
    <2>1. WalletsOf(u) = {a \in Addresses : wallets[a] \in {u}}
      BY DEF WalletsOf
    <2>2. Released({u})
      BY <1>1, <2>1 DEF DeleteUser, Release, Released, Inv, TypeOK
    <2>3. /\ account' \in [Users -> {"none", "live", "deleted"}]
          /\ \A v \in Users \ {u} : account'[v] = account[v]
          /\ history' \in [Addresses -> SUBSET Users] /\ orgDeleted' \in BOOLEAN
      BY <1>1 DEF DeleteUser, Inv, TypeOK
    <2> QED BY <2>2, <2>3, ReleaseStep
  <1>2. ASSUME DeleteOrg
        PROVE  Inv' /\ \E U \in SUBSET Users : Released(U)
    <2>1. UNION {WalletsOf(u) : u \in Members} = {a \in Addresses : wallets[a] \in Members}
      BY DEF WalletsOf
    <2>2. Released(Members) /\ Members \in SUBSET Users
      BY <1>2, <2>1, WalletAssumption DEF DeleteOrg, Release, Released, Inv, TypeOK
    <2>3. UNCHANGED <<account, history>> /\ orgDeleted' \in BOOLEAN
      BY <1>2 DEF DeleteOrg
    <2> QED BY <2>2, <2>3, ReleaseStep DEF Inv, TypeOK
  <1> QED BY <1>1, <1>2

\* What a step does to the rows.
Rewrites ==
    \/ wallets' = wallets
    \/ \E r \in Requests : \E as : Writes(r, as)
    \/ \E U \in SUBSET Users : Released(U)

LEMMA Step ==
  ASSUME Inv, [Next]_vars
  PROVE  Inv' /\ Rewrites
  <1>1. ASSUME NEW r \in Requests, NEW u \in Users,
               \/ \E a \in Addresses, op \in {"associate", "disassociate"} : Authenticate(r, op, u, a)
               \/ \E as \in SUBSET Addresses :
                     \/ Replace(r, u, as)
                     \/ \E op \in {"m2m_add", "tenant_add"} : Add(r, op, u, as)
                     \/ \E op \in {"create", "m2m_create"} : Create(r, op, u, as)
        PROVE  Inv' /\ Rewrites
    BY <1>1, ArrivalStep DEF Rewrites, Authenticate, Replace, Add, Create
  <1>2. ASSUME NEW r \in Requests, RequestStep(r)
        PROVE  Inv' /\ Rewrites
    <2>1. CASE Associate(r)
      BY <2>1, AssociateStep DEF Rewrites, Associate
    <2>2. CASE Disassociate(r)
      BY <2>2, DisassociateStep DEF Rewrites, Disassociate
    <2>3. CASE Validate(r)
      <3>1. /\ InFlight(r) /\ req[r].pc = "validate"
            /\ UNCHANGED <<account, wallets, history, orgDeleted, entitled, overlapped>>
        BY <2>3 DEF Validate, At
      <3>2. CASE Goto(r, "update") \/ Goto(r, "insert")
        BY <3>1, <3>2, GotoStep DEF Rewrites
      <3>3. CASE Finish(r)
        BY <3>1, <3>3, FinishStep DEF Rewrites
      <3> QED BY <2>3, <3>2, <3>3 DEF Validate
    <2>4. CASE UpdateRead(r)
      <3>1. /\ InFlight(r) /\ req[r].pc = "update"
            /\ UNCHANGED <<account, wallets, history, orgDeleted, entitled, overlapped>>
        BY <2>4 DEF UpdateRead, At
      <3>2. CASE Goto(r, "snapshot")
        BY <3>1, <3>2, GotoStep DEF Rewrites
      <3>3. CASE Finish(r)
        BY <3>1, <3>3, FinishStep DEF Rewrites
      <3> QED BY <2>4, <3>2, <3>3 DEF UpdateRead
    <2>5. CASE UpdateStart(r)
      BY <2>5, UpdateStartStep DEF Rewrites, UpdateStart
    <2>6. CASE UpdateCommit(r)
      BY <2>6, CommitStep DEF Rewrites
    <2>7. CASE Insert(r)
      BY <2>7, InsertStep DEF Rewrites
    <2>8. CASE Abort(r)
      BY <2>8, FinishStep DEF Rewrites, Abort
    <2> QED BY <1>2, <2>1, <2>2, <2>3, <2>4, <2>5, <2>6, <2>7, <2>8 DEF RequestStep
  <1>3. CASE (\E u \in Users : DeleteUser(u)) \/ DeleteOrg
    BY <1>3, DeletionStep DEF Rewrites
  <1>4. CASE UNCHANGED vars
    <2>1. TypeOK' /\ UniqueOK' /\ \A u \in Users : LimitOK(u)'
      BY <1>4 DEF vars, Inv, TypeOK, UniqueOK, LimitOK, WalletsOf, InFlight
    <2>2. \A r \in Requests : RequestOK(r)' /\ AloneOK(r)'
      BY <1>4 DEF vars, Inv, RequestOK, AloneOK, WalletsOf, InFlight
    <2>3. \A a \in Addresses : HolderOK(a)'
      BY <1>4 DEF vars, Inv, HolderOK, Live
    <2> QED BY <1>4, <2>1, <2>2, <2>3 DEF Inv, vars, Rewrites
  <1> QED BY <1>1, <1>2, <1>3, <1>4 DEF Next

LEMMA Invariant == Spec => []Inv
  <1>1. Inv /\ [Next]_vars => Inv'
    BY Step
  <1> QED BY InitInv, <1>1, PTL DEF Spec

\* The tables, the requests and the histories are well typed.
THEOREM TypeCorrect == Spec => []TypeOK
  <1>1. Inv => TypeOK
    BY DEF Inv
  <1> QED BY <1>1, Invariant, PTL

\* Whatever stale lists the writes carry, a wallet belongs to a live user who
\* is entitled to it, and only overlapping requests exceed the limit.
THEOREM WalletsEntitled == Spec => []EntitledOwner
  <1>1. Inv => EntitledOwner
    BY DEF Inv, HolderOK, LimitOK, EntitledOwner
  <1> QED BY <1>1, Invariant, PTL

\* No transaction takes a wallet that another user holds.
THEOREM WalletsNotTaken == Spec => NoTakeover
  <1> DEFINE Kept == \A a \in Addresses :
                       wallets[a] # NoValue /\ wallets'[a] # NoValue => wallets'[a] = wallets[a]
  <1>1. ASSUME Inv, [Next]_vars PROVE Kept
    <2> SUFFICES ASSUME NEW a \in Addresses, wallets[a] # NoValue, wallets'[a] # NoValue
                 PROVE  wallets'[a] = wallets[a]
      OBVIOUS
    <2>1. Rewrites
      BY <1>1, Step
    <2>2. ASSUME NEW r \in Requests, NEW as, Writes(r, as)
          PROVE  wallets'[a] = wallets[a]
      <3>1. req[r] \in Requested
        BY <1>1, <2>2, Flying DEF Writes
      <3>2. PICK u \in Users : u = req[r].user
        BY <3>1 DEF Requested
      <3>3. RowsMove(r, as, u)
        BY <1>1, <2>2, <3>2, WrittenRows
      <3> QED BY <3>3 DEF RowsMove
    <2>3. ASSUME NEW U \in SUBSET Users, Released(U)
          PROVE  wallets'[a] = wallets[a]
      BY <2>3 DEF Released
    <2> QED BY <2>1, <2>2, <2>3 DEF Rewrites
  <1>2. Inv /\ [Next]_vars => [Kept]_vars
    BY <1>1
  <1> QED BY <1>2, Invariant, PTL DEF Spec, NoTakeover
=============================================================================
