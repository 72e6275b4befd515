------------------------------ MODULE ProxyProofs ------------------------------
(* Theorems about the JSON-RPC proxy: what WalletRpc forwards and tells of,  *)
(* for any wallets, transactions, requests and rights; the records that      *)
(* Deployments keeps, for any addresses, versions, requests and readers, on  *)
(* either kind of chain; and what RpcReads tells and forwards, for any users,*)
(* roles, contracts, transactions and edits of the policy.                   *)
EXTENDS WalletRpc, Deployments, RpcReads, FiniteSetTheorems, WellFoundedInduction, TLAPS

\* What the user has authorized stands for t, recipient included.
AuthorizedFor(t) == \E s \in authorized : Alike(s, t) /\ WalletTxOf[s].to = WalletTxOf[t].to

\* The part of WalletRpcTypeOK that does not speak of the orders.
RowsTyped ==
    /\ rights \in Rights
    /\ row \in [Keys -> Row \cup {NoRow}]
    /\ request \in [Requests -> Requested \cup {Idle}]
    /\ authorized \subseteq WalletTxs
    /\ acknowledged \subseteq WalletTxs

\* A row was written by an authorization, and keeps what it said.
RowOK(k) ==
    row[k] # NoRow =>
        \E s \in authorized : /\ Key(s) = k
                              /\ WalletTxOf[s].to = row[k].to
                              /\ WalletTxOf[s].rest = row[k].rest

\* What a submission has established on its way.
RequestOK(r) ==
    request[r] # Idle =>
        /\ request[r].pc \in {"allowed", "forward", "record"} =>
              request[r].op = "send" /\ AuthorizedFor(request[r].tx)
        /\ request[r].pc \in {"forward", "record"} =>
              /\ WalletTxOf[request[r].tx].kind = "call" => request[r].owns
              /\ WalletTxOf[request[r].tx].kind = "deployment" => request[r].deploys

Inv ==
    /\ RowsTyped
    /\ \A k \in Keys : RowOK(k)
    /\ \A r \in Requests : RequestOK(r)
    /\ AcknowledgedIsPollable

LEMMA KeyType == ASSUME NEW t \in WalletTxs PROVE Key(t) \in Keys
  BY DEF Keys

LEMMA PolicyType ==
  ASSUME rights \in Rights
  PROVE  rights.deploy \in BOOLEAN /\ rights.call \in BOOLEAN
  BY WalletRpcAssumption

LEMMA InitInv == WalletRpcInit => Inv
  <1> SUFFICES ASSUME WalletRpcInit PROVE Inv
    OBVIOUS
  <1>1. RowsTyped
    BY DEF WalletRpcInit, RowsTyped
  <1>2. (\A k \in Keys : RowOK(k)) /\ (\A r \in Requests : RequestOK(r)) /\ AcknowledgedIsPollable
    BY DEF WalletRpcInit, RowOK, RequestOK, AcknowledgedIsPollable
  <1> QED BY <1>1, <1>2 DEF Inv

LEMMA Flying ==
  ASSUME Inv, NEW r \in Requests, request[r] # Idle
  PROVE  request[r] \in Requested /\ request[r].tx \in WalletTxs /\ RequestOK(r)
  BY DEF Inv, RowsTyped, Requested

\* One request becomes new and no row changes.
Move(r, new) ==
    /\ new \in Requested \cup {Idle}
    /\ new # Idle =>
         /\ new.pc \in {"allowed", "forward", "record"} => new.op = "send" /\ AuthorizedFor(new.tx)
         /\ new.pc \in {"forward", "record"} =>
              /\ WalletTxOf[new.tx].kind = "call" => new.owns
              /\ WalletTxOf[new.tx].kind = "deployment" => new.deploys
    /\ request' = [request EXCEPT ![r] = new]
    /\ UNCHANGED <<rights, row, authorized, acknowledged>>

LEMMA MoveStep ==
  ASSUME Inv, NEW r \in Requests, NEW new, Move(r, new)
  PROVE  Inv'
  <1>1. /\ request' \in [Requests -> Requested \cup {Idle}] /\ request'[r] = new
        /\ \A q \in Requests \ {r} : request'[q] = request[q]
        /\ UNCHANGED <<rights, row, authorized, acknowledged>>
    BY DEF Move, Inv, RowsTyped
  <1>2. RowsTyped'
    BY <1>1 DEF Inv, RowsTyped
  <1>3. (\A k \in Keys : RowOK(k)') /\ AcknowledgedIsPollable'
    BY <1>1 DEF Inv, RowOK, AcknowledgedIsPollable, Allows, Active
  <1>4. ASSUME NEW q \in Requests PROVE RequestOK(q)'
    <2>1. CASE q = r
      BY <1>1, <2>1 DEF Move, RequestOK, AuthorizedFor
    <2>2. CASE q # r
      BY <1>1, <2>2 DEF Inv, RequestOK, AuthorizedFor
    <2> QED BY <2>1, <2>2
  <1> QED BY <1>2, <1>3, <1>4 DEF Inv

\* The same record further on.
LEMMA Further ==
  ASSUME NEW q \in Requested, NEW pc \in {"loaded", "upsert", "allowed", "forward", "record", "store"}
  PROVE  LET f == [q EXCEPT !.pc = pc]
         IN  /\ f \in Requested /\ f.pc = pc /\ f.op = q.op /\ f.tx = q.tx
             /\ f.owns = q.owns /\ f.deploys = q.deploys
  BY DEF Requested

LEMMA FinishMove ==
  ASSUME Inv, NEW r \in Requests, Finish(r), UNCHANGED <<rights, row, authorized, acknowledged>>
  PROVE  Inv'
  <1>1. Move(r, Idle)
    BY DEF Move, Finish
  <1> QED BY <1>1, MoveStep

\* A request goes on to a place that promises nothing.
LEMMA GotoMove ==
  ASSUME Inv, NEW r \in Requests, request[r] # Idle, NEW pc \in {"loaded", "upsert", "store"}, Goto(r, pc),
         UNCHANGED <<rights, row, authorized, acknowledged>>
  PROVE  Inv'
  <1>1. PICK q \in Requested : q = request[r]
    BY Flying
  <1> DEFINE new == [q EXCEPT !.pc = pc]
  <1>2. new \in Requested /\ new.pc = pc
    BY DEF Requested
  <1>3. request' = [request EXCEPT ![r] = new]
    BY <1>1 DEF Goto
  <1> HIDE DEF new
  <1>4. Move(r, new)
    BY <1>2, <1>3 DEF Move
  <1> QED BY <1>4, MoveStep

LEMMA LoadStep ==
  ASSUME Inv, NEW r \in Requests, NEW op \in Ops, NEW t \in WalletTxs, Load(r, op, t)
  PROVE  Inv'
  <1> PICK new : new = [pc |-> "loaded", op |-> op, tx |-> t,
                        owns |-> WalletTxOf[t].wallet \in rights.linked, deploys |-> rights.deploy]
    OBVIOUS
  <1>1. new \in Requested /\ new.pc = "loaded"
    BY PolicyType DEF Requested, Inv, RowsTyped
  <1>2. Move(r, new)
    BY <1>1 DEF Load, Move, user, rows
  <1> QED BY <1>2, MoveStep

LEMMA AuthorizeStep ==
  ASSUME Inv, NEW r \in Requests, Authorize(r)
  PROVE  Inv'
  <1>1. request[r] # Idle /\ UNCHANGED <<rights, row, authorized, acknowledged>>
    BY DEF Authorize, At, user, rows
  <1> QED BY <1>1, FinishMove, GotoMove DEF Authorize

LEMMA ReadTokenStep ==
  ASSUME Inv, NEW r \in Requests, ReadToken(r)
  PROVE  Inv'
  <1>1. request[r] # Idle /\ UNCHANGED <<rights, row, authorized, acknowledged>>
    BY DEF ReadToken, At, user, rows
  <1> QED BY <1>1, FinishMove, GotoMove DEF ReadToken

LEMMA StoreTokenStep ==
  ASSUME Inv, NEW r \in Requests, StoreToken(r)
  PROVE  Inv'
  BY FinishMove DEF StoreToken, NewToken, rows

\* A row that allows the transaction was written by an authorization of it.
LEMMA AllowedIsAuthorized ==
  ASSUME Inv, NEW t \in WalletTxs, Allows(t)
  PROVE  AuthorizedFor(t)
  <1>1. RowOK(Key(t)) /\ row[Key(t)] # NoRow
    BY KeyType DEF Inv, Allows, Active
  <1>2. PICK s \in authorized : /\ Key(s) = Key(t)
                                /\ WalletTxOf[s].to = row[Key(t)].to
                                /\ WalletTxOf[s].rest = row[Key(t)].rest
    BY <1>1 DEF RowOK
  <1>3. WalletTxOf[s].wallet = WalletTxOf[t].wallet /\ WalletTxOf[s].nonce = WalletTxOf[t].nonce
    BY <1>2 DEF Key
  <1> QED BY <1>2, <1>3 DEF Allows, AuthorizedFor, Alike

LEMMA CheckAllowanceStep ==
  ASSUME Inv, NEW r \in Requests, CheckAllowance(r)
  PROVE  Inv'
  <1>1. request[r] # Idle /\ request[r].op = "send" /\ UNCHANGED <<rights, row, authorized, acknowledged>>
    BY DEF CheckAllowance, At, Doing, user, rows
  <1>2. PICK q \in Requested : q = request[r] /\ q.tx \in WalletTxs /\ q.op = "send"
    BY <1>1, Flying
  <1> DEFINE new == [q EXCEPT !.pc = "allowed"]
  <1>3. CASE Allows(request[r].tx) /\ WalletTxOf[request[r].tx].kind # "empty"
    <2>1. new \in Requested /\ new.pc = "allowed" /\ new.op = "send" /\ new.tx = q.tx
      BY <1>2, Further
    <2>2. request' = [request EXCEPT ![r] = new]
      BY <1>2, <1>3 DEF CheckAllowance, Goto
    <2>3. AuthorizedFor(q.tx)
      BY <1>2, <1>3, AllowedIsAuthorized
    <2> HIDE DEF new
    <2>4. Move(r, new)
      BY <1>1, <2>1, <2>2, <2>3 DEF Move
    <2> QED BY <2>4, MoveStep
  <1>4. CASE ~(Allows(request[r].tx) /\ WalletTxOf[request[r].tx].kind # "empty")
    BY <1>1, <1>4, FinishMove DEF CheckAllowance
  <1> QED BY <1>3, <1>4

\* The kinds of transactions a request may forward.
LEMMA PermittedKinds ==
  ASSUME NEW r \in Requests, Permitted(r)
  PROVE  /\ WalletTxOf[request[r].tx].kind = "call" => request[r].owns
         /\ WalletTxOf[request[r].tx].kind = "deployment" => request[r].deploys
  BY DEF Permitted

LEMMA CheckRightsStep ==
  ASSUME Inv, NEW r \in Requests, CheckRights(r)
  PROVE  Inv'
  <1>1. /\ request[r] # Idle /\ request[r].pc = "allowed"
        /\ UNCHANGED <<rights, row, authorized, acknowledged>>
    BY DEF CheckRights, At, user, rows
  <1>2. PICK q \in Requested : q = request[r] /\ q.op = "send" /\ AuthorizedFor(q.tx)
    BY <1>1, Flying DEF RequestOK
  <1> DEFINE new == [q EXCEPT !.pc = "forward"]
  <1>3. CASE Permitted(r) /\ Goto(r, "forward")
    <2>1. /\ new \in Requested /\ new.op = "send" /\ new.tx = q.tx
          /\ new.owns = q.owns /\ new.deploys = q.deploys
      BY <1>2, Further
    <2>2. request' = [request EXCEPT ![r] = new]
      BY <1>2, <1>3 DEF Goto
    <2>3. /\ WalletTxOf[q.tx].kind = "call" => q.owns
          /\ WalletTxOf[q.tx].kind = "deployment" => q.deploys
      BY <1>2, <1>3, PermittedKinds
    <2> HIDE DEF new
    <2>4. Move(r, new)
      BY <1>1, <1>2, <2>1, <2>2, <2>3 DEF Move
    <2> QED BY <2>4, MoveStep
  <1>4. CASE Finish(r)
    BY <1>1, <1>4, FinishMove
  <1> QED BY <1>3, <1>4 DEF CheckRights

LEMMA SubmitStep ==
  ASSUME Inv, NEW r \in Requests, NEW answer \in {"success", "timeout", "error"}, Submit(r, answer)
  PROVE  Inv'
  <1>1. /\ request[r] # Idle /\ request[r].pc = "forward"
        /\ UNCHANGED <<rights, row, authorized>>
    BY DEF Submit, At, user
  <1>2. PICK q \in Requested :
          /\ q = request[r] /\ q.op = "send" /\ AuthorizedFor(q.tx)
          /\ WalletTxOf[q.tx].kind = "call" => q.owns
          /\ WalletTxOf[q.tx].kind = "deployment" => q.deploys
    BY <1>1, Flying DEF RequestOK
  <1> DEFINE new == [q EXCEPT !.pc = "record"]
  <1>3. CASE answer \in Stores
    <2>1. /\ new \in Requested /\ new.op = "send" /\ new.tx = q.tx
          /\ new.owns = q.owns /\ new.deploys = q.deploys
      BY <1>2, Further
    <2>2. request' = [request EXCEPT ![r] = new] /\ UNCHANGED acknowledged
      BY <1>2, <1>3 DEF Submit, Goto
    <2> HIDE DEF new
    <2>3. Move(r, new)
      BY <1>1, <1>2, <2>1, <2>2 DEF Move
    <2> QED BY <2>3, MoveStep
  <1>4. CASE answer \notin Stores
    <2>1. Finish(r) /\ UNCHANGED acknowledged
      BY <1>4 DEF Submit, Stores
    <2> QED BY <1>1, <2>1, FinishMove
  <1> QED BY <1>3, <1>4

\* The request ends, and the one who authorized is still one who did.
LEMMA LastWrite ==
  ASSUME Inv, NEW r \in Requests, Finish(r), authorized \subseteq authorized'
  PROVE  /\ request' \in [Requests -> Requested \cup {Idle}]
         /\ \A q \in Requests : RequestOK(q)'
  <1>1. /\ request' \in [Requests -> Requested \cup {Idle}] /\ request'[r] = Idle
        /\ \A q \in Requests \ {r} : request'[q] = request[q]
    BY DEF Finish, Inv, RowsTyped
  <1> QED BY <1>1 DEF Inv, RequestOK, AuthorizedFor

LEMMA UpsertStep ==
  ASSUME Inv, NEW r \in Requests, CreateOrUpdate(r)
  PROVE  Inv'
  <1>1. request[r] # Idle /\ Finish(r) /\ UNCHANGED rights
    BY DEF CreateOrUpdate, At, user
  <1>2. PICK t \in WalletTxs : t = request[r].tx
    BY <1>1, Flying
  <1>3. PICK k \in Keys : k = Key(t)
    BY KeyType
  <1>4. PICK new : new = [to |-> WalletTxOf[t].to, rest |-> WalletTxOf[t].rest, active |-> TRUE,
                          hash |-> IF row[k] = NoRow THEN NoTx ELSE row[k].hash]
    OBVIOUS
  <1>5. new \in Row /\ new.to = WalletTxOf[t].to /\ new.rest = WalletTxOf[t].rest
    BY <1>4 DEF Row, Inv, RowsTyped
  <1>6. /\ row' = [row EXCEPT ![k] = new]
        /\ authorized' = authorized \cup {t}
        /\ acknowledged' = {s \in acknowledged : Key(s) # k}
    BY <1>2, <1>3, <1>4 DEF CreateOrUpdate
  <1>7. /\ row' \in [Keys -> Row \cup {NoRow}] /\ row'[k] = new
        /\ \A l \in Keys \ {k} : row'[l] = row[l]
    BY <1>5, <1>6 DEF Inv, RowsTyped
  <1>8. /\ request' \in [Requests -> Requested \cup {Idle}]
        /\ \A q \in Requests : RequestOK(q)'
    BY <1>1, <1>6, LastWrite
  <1>9. RowsTyped'
    BY <1>1, <1>6, <1>7, <1>8 DEF Inv, RowsTyped
  <1>10. ASSUME NEW l \in Keys PROVE RowOK(l)'
    <2>1. CASE l = k
      BY <1>3, <1>5, <1>6, <1>7, <2>1 DEF RowOK, Key
    <2>2. CASE l # k
      BY <1>6, <1>7, <2>2 DEF Inv, RowOK, Key
    <2> QED BY <2>1, <2>2
  <1>11. ASSUME NEW s \in acknowledged', Allows(s)'
         PROVE  row'[Key(s)].hash # NoTx /\ Alike(row'[Key(s)].hash, s)
    <2>1. s \in acknowledged /\ s \in WalletTxs /\ Key(s) \in Keys \ {k}
      BY <1>6, <1>11, KeyType DEF Inv, RowsTyped
    <2>2. row'[Key(s)] = row[Key(s)]
      BY <1>7, <2>1
    <2>3. Allows(s)
      BY <1>11, <2>2 DEF Allows, Active, Key
    <2> QED BY <2>1, <2>2, <2>3 DEF Inv, AcknowledgedIsPollable
  <1>12. AcknowledgedIsPollable'
    BY <1>11 DEF AcknowledgedIsPollable, Alike, Key
  <1> QED BY <1>8, <1>9, <1>10, <1>12 DEF Inv

LEMMA RecordHashStep ==
  ASSUME Inv, NEW r \in Requests, RecordHash(r)
  PROVE  Inv'
  <1>1. request[r] # Idle /\ Finish(r) /\ UNCHANGED <<rights, authorized>>
    BY DEF RecordHash, At, user
  <1>2. PICK t \in WalletTxs : t = request[r].tx
    BY <1>1, Flying
  <1>3. PICK k \in Keys : k = Key(t)
    BY KeyType
  <1>4. /\ request' \in [Requests -> Requested \cup {Idle}]
        /\ \A q \in Requests : RequestOK(q)'
    BY <1>1, LastWrite
  <1>5. acknowledged' \subseteq acknowledged \cup {t}
    BY <1>2 DEF RecordHash, WriteHash
  <1>6. CASE WriteHash(r) /\ Records(t)
    <2>1. PICK new : new = [row[k] EXCEPT !.hash = t]
      OBVIOUS
    <2>2. row' = [row EXCEPT ![k] = new]
      BY <1>2, <1>3, <1>6, <2>1 DEF WriteHash
    <2>3. row[k] \in Row /\ row[k].active /\ row[k].rest = WalletTxOf[t].rest
      BY <1>3, <1>6 DEF Records, Active, Inv, RowsTyped
    <2>4. new \in Row /\ new.to = row[k].to /\ new.rest = row[k].rest /\ new.hash = t
      BY <2>1, <2>3 DEF Row
    <2>5. /\ row' \in [Keys -> Row \cup {NoRow}] /\ row'[k] = new
          /\ \A l \in Keys \ {k} : row'[l] = row[l]
      BY <2>2, <2>4 DEF Inv, RowsTyped
    <2>6. RowsTyped'
      BY <1>1, <1>4, <1>5, <2>5 DEF Inv, RowsTyped
    <2>7. ASSUME NEW l \in Keys PROVE RowOK(l)'
      <3>1. CASE l = k
        BY <1>1, <2>3, <2>4, <2>5, <3>1, NullAssumption DEF Inv, RowOK, Key
      <3>2. CASE l # k
        BY <1>1, <2>5, <3>2 DEF Inv, RowOK, Key
      <3> QED BY <3>1, <3>2
    <2>8. ASSUME NEW s \in acknowledged', Allows(s)'
          PROVE  row'[Key(s)].hash # NoTx /\ Alike(row'[Key(s)].hash, s)
      <3>1. s \in WalletTxs /\ Key(s) \in Keys
        BY <2>6, <2>8, KeyType DEF RowsTyped
      <3>2. row'[Key(s)].rest = WalletTxOf[s].rest /\ row'[Key(s)] # NoRow /\ row'[Key(s)].active
        BY <2>8 DEF Allows, Active, Key
      <3>3. CASE Key(s) = k
        <4>1. WalletTxOf[s].wallet = WalletTxOf[t].wallet /\ WalletTxOf[s].nonce = WalletTxOf[t].nonce
          BY <1>3, <3>3 DEF Key
        <4>2. t # NoTx
          BY WalletRpcAssumption
        <4> QED BY <2>3, <2>4, <2>5, <3>2, <3>3, <4>1, <4>2 DEF Alike
      <3>4. CASE Key(s) # k
        <4>1. row'[Key(s)] = row[Key(s)] /\ s # t
          BY <1>3, <2>5, <3>1, <3>4
        <4>2. Allows(s) /\ s \in acknowledged
          BY <1>5, <2>8, <4>1 DEF Allows, Active, Key
        <4> QED BY <4>1, <4>2 DEF Inv, AcknowledgedIsPollable
      <3> QED BY <3>3, <3>4
    <2>9. AcknowledgedIsPollable'
      BY <2>8 DEF AcknowledgedIsPollable, Alike, Key
    <2> QED BY <1>4, <2>6, <2>7, <2>9 DEF Inv
  <1>7. CASE WriteHash(r) /\ ~Records(t)
    <2>1. UNCHANGED row
      BY <1>2, <1>7 DEF WriteHash
    <2>2. RowsTyped'
      BY <1>1, <1>4, <1>5, <2>1 DEF Inv, RowsTyped
    <2>3. \A l \in Keys : RowOK(l)'
      BY <1>1, <2>1 DEF Inv, RowOK, Key
    <2>4. ~Allows(t)
      BY <1>7 DEF Records, Allows
    <2>5. AcknowledgedIsPollable'
      BY <1>5, <2>1, <2>4 DEF Inv, AcknowledgedIsPollable, Allows, Active, Alike, Key
    <2> QED BY <1>4, <2>2, <2>3, <2>5 DEF Inv
  <1>8. CASE UNCHANGED <<row, updated, sent, acknowledged>>
    <2>1. RowsTyped'
      BY <1>1, <1>4, <1>8 DEF Inv, RowsTyped
    <2>2. \A l \in Keys : RowOK(l)'
      BY <1>1, <1>8 DEF Inv, RowOK, Key
    <2>3. AcknowledgedIsPollable'
      BY <1>8 DEF Inv, AcknowledgedIsPollable, Allows, Active, Alike, Key
    <2> QED BY <1>4, <2>1, <2>2, <2>3 DEF Inv
  <1>9. WriteHash(r) \/ UNCHANGED <<row, updated, sent, acknowledged>>
    BY DEF RecordHash
  <1> QED BY <1>6, <1>7, <1>8, <1>9

\* The rest of the system does not touch the rows.
LEMMA OutsideStep ==
  ASSUME Inv, rights' \in Rights, UNCHANGED <<row, request, authorized, acknowledged>>
  PROVE  Inv'
  BY DEF Inv, RowsTyped, RowOK, RequestOK, AuthorizedFor, AcknowledgedIsPollable, Allows, Active

LEMMA ExpireStep ==
  ASSUME Inv, Expire
  PROVE  Inv'
  <1>1. PICK k \in Keys : /\ Active(k)
                         /\ row' = [row EXCEPT ![k].active = FALSE]
                         /\ UNCHANGED <<rights, request, authorized, acknowledged>>
    BY DEF Expire, InForce, user
  <1>2. PICK new : new = [row[k] EXCEPT !.active = FALSE]
    OBVIOUS
  <1>3. row' = [row EXCEPT ![k] = new]
    BY <1>1, <1>2
  <1>4. row[k] \in Row
    BY <1>1 DEF Active, Inv, RowsTyped
  <1>5. new \in Row /\ new.to = row[k].to /\ new.rest = row[k].rest /\ ~new.active
    BY <1>2, <1>4 DEF Row
  <1>6. /\ row' \in [Keys -> Row \cup {NoRow}] /\ row'[k] = new
        /\ \A l \in Keys \ {k} : row'[l] = row[l]
    BY <1>3, <1>5 DEF Inv, RowsTyped
  <1>7. RowsTyped'
    BY <1>1, <1>6 DEF Inv, RowsTyped
  <1>8. ASSUME NEW l \in Keys PROVE RowOK(l)'
    <2>1. CASE l = k
      BY <1>1, <1>5, <1>6, <2>1 DEF Inv, RowOK, Key, Active
    <2>2. CASE l # k
      BY <1>1, <1>6, <2>2 DEF Inv, RowOK, Key
    <2> QED BY <2>1, <2>2
  <1>9. \A r \in Requests : RequestOK(r)'
    BY <1>1 DEF Inv, RequestOK, AuthorizedFor
  <1>10. ASSUME NEW s \in acknowledged, Allows(s)'
        PROVE  row'[Key(s)].hash # NoTx /\ Alike(row'[Key(s)].hash, s)
    <2>1. s \in WalletTxs /\ Key(s) \in Keys
      BY KeyType DEF Inv, RowsTyped
    <2>2. row'[Key(s)].active
      BY <1>10 DEF Allows, Active, Key
    <2>3. row'[Key(s)] = row[Key(s)]
      BY <1>5, <1>6, <2>1, <2>2
    <2>4. Allows(s)
      BY <1>10, <2>3 DEF Allows, Active, Key
    <2> QED BY <2>3, <2>4 DEF Inv, AcknowledgedIsPollable
  <1>11. AcknowledgedIsPollable'
    BY <1>1, <1>10 DEF AcknowledgedIsPollable, Alike, Key
  <1> QED BY <1>7, <1>8, <1>9, <1>11 DEF Inv

LEMMA NextInv == Inv /\ [WalletRpcNext]_walletRpcVars => Inv'
  <1> SUFFICES ASSUME Inv, [WalletRpcNext]_walletRpcVars PROVE Inv'
    OBVIOUS
  <1>1. ASSUME NEW r \in Requests, NEW op \in Ops, NEW t \in WalletTxs, Load(r, op, t) PROVE Inv'
    BY <1>1, LoadStep
  <1>2. ASSUME NEW r \in Requests, Step(r) PROVE Inv'
    <2>1. CASE Authorize(r)
      BY <2>1, AuthorizeStep
    <2>2. CASE CreateOrUpdate(r)
      BY <2>2, UpsertStep
    <2>3. CASE CheckAllowance(r)
      BY <2>3, CheckAllowanceStep
    <2>4. CASE CheckRights(r)
      BY <2>4, CheckRightsStep
    <2>5. ASSUME NEW answer \in {"success", "timeout", "error"}, Submit(r, answer) PROVE Inv'
      BY <2>5, SubmitStep
    <2>6. CASE RecordHash(r)
      BY <2>6, RecordHashStep
    <2>7. CASE ReadToken(r)
      BY <2>7, ReadTokenStep
    <2>8. CASE StoreToken(r)
      BY <2>8, StoreTokenStep
    <2> QED BY <1>2, <2>1, <2>2, <2>3, <2>4, <2>5, <2>6, <2>7, <2>8 DEF Step
  <1>3. CASE Invalidate
    BY <1>3, OutsideStep DEF Invalidate, NewToken, rows, Inv, RowsTyped
  <1>4. CASE EditRights
    BY <1>4, OutsideStep DEF EditRights, rows
  <1>5. CASE Expire
    BY <1>5, ExpireStep
  <1>6. CASE UNCHANGED walletRpcVars
    BY <1>6, OutsideStep DEF walletRpcVars, Inv, RowsTyped
  <1> QED BY <1>1, <1>2, <1>3, <1>4, <1>5, <1>6 DEF WalletRpcNext

LEMMA Invariant == WalletRpcSpec => []Inv
  BY InitInv, NextInv, PTL DEF WalletRpcSpec

\* Nothing is forwarded that the user has not authorized, recipient included,
\* nor a call or a deployment without the wallet or the right it takes,
\* however authorizations, edits and submissions interleave
\* (eth_sendRawTransaction, checkTransactionAllowed).
THEOREM OnlyAuthorizedForwarded == WalletRpcSpec => []ForwardsOnlyAuthorized
  <1>1. Inv => ForwardsOnlyAuthorized
    BY DEF Inv, RequestOK, AuthorizedFor, ForwardsOnlyAuthorized, At, Doing
  <1> QED BY Invariant, <1>1, PTL

\* A submission that was answered as sent, or as timed out, can be polled for
\* until its nonce is authorized anew or its hour is over, whatever other
\* hashes are stored in the meantime, unless the write of its own has failed,
\* which is only logged (eth_sendRawTransaction, updateTransactionHash).
THEOREM AcknowledgedPollable == WalletRpcSpec => []AcknowledgedIsPollable
  <1>1. Inv => AcknowledgedIsPollable
    BY DEF Inv
  <1> QED BY Invariant, <1>1, PTL

-----------------------------------------------------------------------------
(* What a poll is told                                                     *)

\* A strict order of keys, total on the ones of W.
Ranks(order, W) ==
    /\ order \subseteq Keys \X Keys
    /\ \A k \in Keys : <<k, k>> \notin order
    /\ \A j, k, l \in Keys : <<j, k>> \in order /\ <<k, l>> \in order => <<j, l>> \in order
    /\ \A k \in W, l \in Keys : k # l => <<k, l>> \in order \/ <<l, k>> \in order

LEMMA MovedRanks ==
  ASSUME NEW order, NEW W \in SUBSET Keys, Ranks(order, W), NEW k \in Keys
  PROVE  /\ Ranks(Moved(order, k), W) /\ Ranks(Moved(order, k), W \cup {k})
         /\ IsLast(Moved(order, k), Keys, k)
         /\ \A j, l \in Keys : j # k /\ <<j, l>> \in order => <<j, l>> \in Moved(order, k)
  <1>1. \A j, l \in Keys : <<j, l>> \in Moved(order, k) <=>
          (j # k /\ (l = k \/ <<j, l>> \in order))
    BY DEF Moved
  <1>2. Moved(order, k) \subseteq Keys \X Keys
    BY DEF Moved, Ranks
  <1> HIDE DEF Moved
  <1>3. Ranks(Moved(order, k), W \cup {k}) /\ Ranks(Moved(order, k), W)
    BY <1>1, <1>2 DEF Ranks
  <1>4. IsLast(Moved(order, k), Keys, k)
    BY <1>1 DEF IsLast
  <1> QED BY <1>1, <1>3, <1>4

\* Of finitely many keys one is the last.
LEMMA LastExists ==
  ASSUME NEW order, NEW W \in SUBSET Keys, Ranks(order, W),
         IsFiniteSet(W), NEW S \in SUBSET W, S # {}
  PROVE  \E k \in S : IsLast(order, S, k)
  <1> DEFINE Bad == {T \in SUBSET W : T # {} /\ ~\E k \in T : IsLast(order, T, k)}
  <1>1. SUFFICES ASSUME Bad # {} PROVE FALSE
    OBVIOUS
  <1>2. IsWellFoundedOn(StrictSubsetOrdering(W), FiniteSubsetsOf(W))
    BY FS_StrictSubsetOrderingWellFounded
  <1>3. Bad \subseteq FiniteSubsetsOf(W)
    BY FS_Subset DEF FiniteSubsetsOf
  <1> HIDE DEF Bad
  <1>4. PICK T \in Bad : \A U \in Bad : <<U, T>> \notin StrictSubsetOrdering(W)
    BY <1>1, <1>2, <1>3, WFMin
  <1>5. T \in SUBSET W /\ T # {} /\ ~\E k \in T : IsLast(order, T, k)
    BY DEF Bad
  <1>6. PICK x \in T : TRUE
    BY <1>5
  <1> DEFINE U == T \ {x}
  <1>7. U \notin Bad
    <2>1. U \in SUBSET W /\ U \subseteq T /\ U # T
      BY <1>5, <1>6
    <2>2. <<U, T>> \in StrictSubsetOrdering(W)
      BY <1>5, <2>1 DEF StrictSubsetOrdering
    <2> QED BY <1>4, <2>2
  <1>8. CASE U = {}
    BY <1>5, <1>6, <1>8 DEF IsLast
  <1>9. CASE U # {}
    <2>1. PICK m \in U : IsLast(order, U, m)
      BY <1>5, <1>7, <1>9 DEF Bad
    <2>2. m \in W /\ x \in W /\ m # x
      BY <1>5, <2>1
    <2>3. CASE <<x, m>> \in order
      <3>1. IsLast(order, T, m)
        BY <2>1, <2>3 DEF IsLast
      <3> QED BY <1>5, <2>1, <3>1
    <2>4. CASE <<m, x>> \in order
      <3>1. \A l \in T \ {x} : l # m => <<l, m>> \in order
        BY <2>1 DEF IsLast
      <3>2. \A l \in T \ {x} : <<l, x>> \in order
        BY <1>5, <2>2, <2>4, <3>1 DEF Ranks
      <3> QED BY <1>5, <1>6, <3>2 DEF IsLast
    <2> QED BY <2>2, <2>3, <2>4 DEF Ranks
  <1> QED BY <1>8, <1>9

Written == {k \in Keys : row[k] # NoRow}

\* The hash of a row is of a transaction like one that was authorized: it may
\* have been kept from an earlier authorization of the nonce.
HashOK(k) ==
    row[k] # NoRow => row[k].hash = NoTx \/ \E s \in authorized : Alike(s, row[k].hash)

\* The last authorization outlives the others, and what is not in sent was not
\* updated after it.
CurrentOK ==
    AnyInForce =>
        \E n \in InForce : /\ IsLast(age, Keys, n)
                           /\ \A k \in Keys \ ({n} \cup sent) : <<k, n>> \in updated

OrdersOK ==
    /\ sent \subseteq Keys
    /\ IsFiniteSet(Written)
    /\ Ranks(updated, Written) /\ Ranks(age, Written)
    /\ \A k \in Keys : HashOK(k)
    /\ CurrentOK

TokenTyped == token \in 0..generated /\ generated \in 0..MaxTokens

LEMMA InitOrders == WalletRpcInit => OrdersOK /\ TokenTyped
  <1> SUFFICES ASSUME WalletRpcInit PROVE OrdersOK /\ TokenTyped
    OBVIOUS
  <1>1. Written = {} /\ InForce = {}
    BY DEF WalletRpcInit, Written, InForce, Active
  <1>2. IsFiniteSet({})
    BY FS_EmptySet
  <1>3. Ranks({}, {})
    BY DEF Ranks
  <1>4. CurrentOK /\ \A k \in Keys : HashOK(k)
    BY <1>1 DEF CurrentOK, AnyInForce, HashOK, WalletRpcInit
  <1>5. TokenTyped
    BY WalletRpcAssumption DEF WalletRpcInit, TokenTyped
  <1> QED BY <1>1, <1>2, <1>3, <1>4, <1>5 DEF OrdersOK, WalletRpcInit

LEMMA UpsertOrders ==
  ASSUME Inv, OrdersOK, NEW r \in Requests, CreateOrUpdate(r)
  PROVE  OrdersOK'
  <1>1. PICK t \in WalletTxs : t = request[r].tx
    BY Flying DEF CreateOrUpdate, At
  <1>2. PICK k \in Keys : k = Key(t)
    BY KeyType
  <1>3. PICK new : new = [to |-> WalletTxOf[t].to, rest |-> WalletTxOf[t].rest, active |-> TRUE,
                          hash |-> IF row[k] = NoRow THEN NoTx ELSE row[k].hash]
    OBVIOUS
  <1>4. new \in Row /\ new.active /\ new # NoRow
    <2>1. new \in Row /\ new.active
      BY <1>3 DEF Row, Inv, RowsTyped
    <2> QED BY <2>1, NullAssumption
  <1>5. /\ row' = [row EXCEPT ![k] = new]
        /\ updated' = Moved(updated, k) /\ age' = Moved(age, k)
        /\ authorized' = authorized \cup {t} /\ sent' = {}
    BY <1>1, <1>2, <1>3 DEF CreateOrUpdate, Touched
  <1>6. row'[k] = new /\ \A l \in Keys \ {k} : row'[l] = row[l]
    BY <1>5 DEF Inv, RowsTyped
  <1>7. Written' = Written \cup {k}
    BY <1>4, <1>6 DEF Written
  <1>8. IsFiniteSet(Written')
    BY <1>7, FS_AddElement DEF OrdersOK
  <1>9. /\ Ranks(updated, Written)' /\ Ranks(age, Written)'
        /\ IsLast(age', Keys, k) /\ IsLast(updated', Keys, k)
    <2>1. Written \in SUBSET Keys
      BY DEF Written
    <2>2. /\ Ranks(Moved(updated, k), Written \cup {k}) /\ IsLast(Moved(updated, k), Keys, k)
          /\ Ranks(Moved(age, k), Written \cup {k}) /\ IsLast(Moved(age, k), Keys, k)
      BY <2>1, MovedRanks DEF OrdersOK
    <2>3. Ranks(updated', Written') /\ Ranks(age', Written')
      BY <1>5, <1>7, <2>2
    <2> QED BY <1>5, <2>2, <2>3 DEF Ranks, Keys, Key
  <1>10. ASSUME NEW l \in Keys PROVE HashOK(l)'
    <2>1. row'[l] # NoRow => row'[l].hash = NoTx \/ \E s \in authorized : Alike(s, row'[l].hash)
      <3>1. CASE l = k
        BY <1>3, <1>6, <3>1 DEF OrdersOK, HashOK
      <3>2. CASE l # k
        BY <1>6, <3>2 DEF OrdersOK, HashOK
      <3> QED BY <3>1, <3>2
    <2> QED BY <1>5, <2>1 DEF HashOK, Alike
  <1>11. CurrentOK'
    <2>1. k \in InForce'
      BY <1>4, <1>6 DEF InForce, Active, Keys, Key
    <2>2. \A l \in Keys \ {k} : <<l, k>> \in updated'
      BY <1>9 DEF IsLast
    <2>3. \E n \in InForce' : /\ IsLast(age', Keys, n)
                              /\ \A l \in Keys \ ({n} \cup sent') : <<l, n>> \in updated'
      BY <1>9, <2>1, <2>2
    <2> QED BY <2>3 DEF CurrentOK, IsLast, Keys, Key
  <1>12. sent' \subseteq Keys
    BY <1>5
  <1> QED BY <1>8, <1>9, <1>10, <1>11, <1>12 DEF OrdersOK, Keys, Key

LEMMA RecordOrders ==
  ASSUME Inv, OrdersOK, NEW r \in Requests, RecordHash(r)
  PROVE  OrdersOK'
  <1>1. PICK t \in WalletTxs : t = request[r].tx
    BY Flying DEF RecordHash, At
  <1>2. PICK k \in Keys : k = Key(t)
    BY KeyType
  <1>3. UNCHANGED <<age, authorized>>
    BY DEF RecordHash
  <1>4. CASE WriteHash(r) /\ Records(t)
    <2>1. PICK new : new = [row[k] EXCEPT !.hash = t]
      OBVIOUS
    <2>2. /\ row' = [row EXCEPT ![k] = new]
          /\ updated' = Moved(updated, k) /\ sent' = sent \cup {k}
      BY <1>1, <1>2, <1>4, <2>1 DEF WriteHash
    <2>3. row[k] \in Row /\ row[k] # NoRow /\ row[k].active /\ row[k].rest = WalletTxOf[t].rest
      BY <1>2, <1>4 DEF Records, Active, Inv, RowsTyped
    <2>4. new \in Row /\ new # NoRow /\ new.active /\ new.hash = t
      BY <2>1, <2>3, NullAssumption DEF Row
    <2>5. row'[k] = new /\ \A l \in Keys \ {k} : row'[l] = row[l]
      BY <2>2 DEF Inv, RowsTyped
    <2>6. Written' = Written /\ InForce' = InForce
      <3>1. \A l \in Keys : /\ row'[l] # NoRow <=> row[l] # NoRow
                            /\ row'[l] # NoRow => row'[l].active = row[l].active
        <4>1. new.active = row[k].active
          BY <2>1, <2>3 DEF Row
        <4> QED BY <2>3, <2>4, <2>5, <4>1
      <3> QED BY <3>1 DEF Written, InForce, Active, Keys, Key
    <2>7. Ranks(updated, Written)' /\ Ranks(age, Written)'
      <3>1. Written \in SUBSET Keys
        BY DEF Written
      <3>2. Ranks(Moved(updated, k), Written)
        BY <3>1, MovedRanks DEF OrdersOK
      <3>3. Ranks(updated', Written') /\ Ranks(age', Written')
        BY <1>3, <2>2, <2>6, <3>2 DEF OrdersOK
      <3> QED BY <3>3 DEF Ranks, Keys, Key
    <2>8. ASSUME NEW l \in Keys PROVE HashOK(l)'
      <3>1. \E s \in authorized : Alike(s, t)
        <4>1. PICK s \in authorized : Key(s) = k /\ WalletTxOf[s].rest = row[k].rest
          BY <2>3 DEF Inv, RowOK
        <4> QED BY <1>2, <2>3, <4>1 DEF Alike, Key
      <3>2. row'[l] # NoRow => row'[l].hash = NoTx \/ \E s \in authorized : Alike(s, row'[l].hash)
        BY <2>4, <2>5, <3>1 DEF OrdersOK, HashOK
      <3> QED BY <1>3, <3>2 DEF HashOK, Alike
    <2>9. CurrentOK'
      <3>1. CASE InForce = {}
        BY <2>6, <3>1 DEF CurrentOK, AnyInForce
      <3>2. CASE InForce # {}
        <4>1. PICK n \in InForce :
                /\ IsLast(age, Keys, n)
                /\ \A l \in Keys \ ({n} \cup sent) : <<l, n>> \in updated
          BY <3>2 DEF OrdersOK, CurrentOK, AnyInForce
        <4>2. n \in Keys /\ Written \in SUBSET Keys
          BY DEF InForce, Written
        <4>3. \A l \in Keys \ ({n} \cup sent') : <<l, n>> \in updated'
          BY <2>2, <4>1, <4>2, MovedRanks DEF OrdersOK
        <4>4. n \in InForce' /\ IsLast(age', Keys, n)
          BY <1>3, <2>6, <4>1
        <4> QED BY <4>3, <4>4 DEF CurrentOK, IsLast, Keys, Key
      <3> QED BY <3>1, <3>2
    <2>10. sent' \subseteq Keys /\ IsFiniteSet(Written')
      BY <2>2, <2>6 DEF OrdersOK
    <2> QED BY <2>7, <2>8, <2>9, <2>10 DEF OrdersOK, Keys, Key
  <1>5. CASE UNCHANGED <<row, updated, sent>>
    BY <1>3, <1>5 DEF OrdersOK, Written, Ranks, HashOK, CurrentOK, AnyInForce, InForce,
                      Active, IsLast, Alike, Keys, Key
  <1>6. (WriteHash(r) /\ Records(t)) \/ UNCHANGED <<row, updated, sent>>
    BY <1>1 DEF RecordHash, WriteHash
  <1> QED BY <1>4, <1>5, <1>6

LEMMA ExpireOrders ==
  ASSUME Inv, OrdersOK, Expire
  PROVE  OrdersOK'
  <1>1. PICK k \in InForce : /\ \A l \in InForce \ {k} : <<k, l>> \in age
                             /\ row' = [row EXCEPT ![k].active = FALSE]
    BY DEF Expire
  <1>2. UNCHANGED <<updated, age, authorized, sent>>
    BY DEF Expire
  <1>3. k \in Keys /\ row[k] \in Row /\ row[k] # NoRow /\ row[k].active
    BY <1>1 DEF InForce, Active, Inv, RowsTyped
  <1>4. PICK new : new = [row[k] EXCEPT !.active = FALSE]
    OBVIOUS
  <1>5. new \in Row /\ new # NoRow /\ ~new.active /\ new.hash = row[k].hash
    BY <1>3, <1>4, NullAssumption DEF Row
  <1>6. row'[k] = new /\ \A l \in Keys \ {k} : row'[l] = row[l]
    BY <1>1, <1>3, <1>4 DEF Inv, RowsTyped
  <1>7. Written' = Written /\ InForce' = InForce \ {k}
    BY <1>3, <1>5, <1>6 DEF Written, InForce, Active, Keys, Key
  <1>8. Ranks(updated, Written)' /\ Ranks(age, Written)'
    BY <1>2, <1>7 DEF OrdersOK, Ranks, Keys, Key
  <1>9. ASSUME NEW l \in Keys PROVE HashOK(l)'
    <2>1. row'[l] # NoRow => row[l] # NoRow /\ row'[l].hash = row[l].hash
      BY <1>3, <1>5, <1>6
    <2> QED BY <1>2, <2>1 DEF OrdersOK, HashOK, Alike
  <1>10. CurrentOK'
    <2>1. CASE InForce \ {k} = {}
      BY <1>7, <2>1 DEF CurrentOK, AnyInForce
    <2>2. CASE InForce \ {k} # {}
      <3>1. PICK n \in InForce :
              /\ IsLast(age, Keys, n)
              /\ \A l \in Keys \ ({n} \cup sent) : <<l, n>> \in updated
        BY <2>2 DEF OrdersOK, CurrentOK, AnyInForce
      <3>2. PICK l \in InForce \ {k} : <<k, l>> \in age
        BY <1>1, <2>2
      <3>3. n # k
        <4>1. k \in Keys /\ l \in Keys
          BY <1>3 DEF InForce
        <4> QED BY <3>1, <3>2, <4>1 DEF IsLast, OrdersOK, Ranks
      <3>4. n \in InForce' /\ IsLast(age', Keys, n)
            /\ \A j \in Keys \ ({n} \cup sent') : <<j, n>> \in updated'
        BY <1>2, <1>7, <3>1, <3>3
      <3> QED BY <3>4 DEF CurrentOK, IsLast, Keys, Key
    <2> QED BY <2>1, <2>2
  <1>11. sent' \subseteq Keys /\ IsFiniteSet(Written')
    BY <1>2, <1>7 DEF OrdersOK
  <1> QED BY <1>8, <1>9, <1>10, <1>11 DEF OrdersOK, Keys, Key

\* The other steps write no row.
LEMMA SameOrders ==
  ASSUME OrdersOK, UNCHANGED <<row, updated, age, authorized, sent>>
  PROVE  OrdersOK'
  BY DEF OrdersOK, Written, Ranks, HashOK, CurrentOK, AnyInForce, InForce, Active, IsLast, Alike,
         Keys, Key

LEMMA NextOrders == Inv /\ OrdersOK /\ [WalletRpcNext]_walletRpcVars => OrdersOK'
  <1> SUFFICES ASSUME Inv, OrdersOK, [WalletRpcNext]_walletRpcVars PROVE OrdersOK'
    OBVIOUS
  <1>1. ASSUME NEW r \in Requests, NEW op \in Ops, NEW t \in WalletTxs, Load(r, op, t) PROVE OrdersOK'
    BY <1>1, SameOrders DEF Load, rows
  <1>2. ASSUME NEW r \in Requests, Step(r) PROVE OrdersOK'
    <2>1. CASE CreateOrUpdate(r)
      BY <2>1, UpsertOrders
    <2>2. CASE RecordHash(r)
      BY <2>2, RecordOrders
    <2>3. CASE Authorize(r) \/ CheckAllowance(r) \/ CheckRights(r) \/ ReadToken(r)
      BY <2>3, SameOrders DEF Authorize, CheckAllowance, CheckRights, ReadToken, rows
    <2>4. ASSUME NEW answer \in {"success", "timeout", "error"}, Submit(r, answer) PROVE OrdersOK'
      BY <2>4, SameOrders DEF Submit
    <2>5. CASE StoreToken(r)
      BY <2>5, SameOrders DEF StoreToken, NewToken, rows
    <2> QED BY <1>2, <2>1, <2>2, <2>3, <2>4, <2>5 DEF Step
  <1>3. CASE Invalidate \/ EditRights
    BY <1>3, SameOrders DEF Invalidate, NewToken, EditRights, rows
  <1>4. CASE Expire
    BY <1>4, ExpireOrders
  <1>5. CASE UNCHANGED walletRpcVars
    BY <1>5, SameOrders DEF walletRpcVars
  <1> QED BY <1>1, <1>2, <1>3, <1>4, <1>5 DEF WalletRpcNext

LEMMA OrdersInvariant == WalletRpcSpec => []OrdersOK
  <1>1. WalletRpcInit => OrdersOK
    BY InitOrders
  <1> QED BY <1>1, NextOrders, Invariant, PTL DEF WalletRpcSpec

\* The one that is last is the one that is chosen.
LEMMA LastIsChosen ==
  ASSUME NEW order, NEW W \in SUBSET Keys, Ranks(order, W),
         NEW S \in SUBSET Keys, NEW k \in S, IsLast(order, S, k)
  PROVE  LastOf(order, S) = k
  <1>1. \A l \in S : IsLast(order, S, l) => l = k
    BY DEF IsLast, Ranks
  <1> QED BY <1>1 DEF LastOf

\* What a poll answers for is the last authorization, or had its hash stored
\* after it.
LEMMA LatestInForce ==
  ASSUME OrdersOK, AnyInForce
  PROVE  /\ Latest \in InForce
         /\ Latest = Current \/ Latest \in sent
  <1>1. InForce # {} /\ InForce \in SUBSET Written /\ Written \in SUBSET Keys
    BY DEF AnyInForce, InForce, Active, Written
  <1>2. PICK k \in InForce : IsLast(updated, InForce, k)
    BY <1>1, LastExists DEF OrdersOK
  <1>3. Latest = k
    BY <1>1, <1>2, LastIsChosen DEF Latest, OrdersOK
  <1>4. PICK n \in InForce : /\ IsLast(age, Keys, n)
                             /\ \A l \in Keys \ ({n} \cup sent) : <<l, n>> \in updated
    BY DEF OrdersOK, CurrentOK
  <1>5. Current = n
    BY <1>1, <1>4, LastIsChosen DEF Current, OrdersOK
  <1>6. k = n \/ k \in sent
    <2> SUFFICES ASSUME k # n, k \notin sent PROVE FALSE
      OBVIOUS
    <2>1. k \in Keys /\ n \in Keys
      BY <1>1
    <2>2. <<k, n>> \in updated
      BY <1>4, <2>1
    <2>3. <<n, k>> \in updated
      BY <1>2 DEF IsLast
    <2> QED BY <2>1, <2>2, <2>3 DEF OrdersOK, Ranks
  <1> QED BY <1>3, <1>5, <1>6

\* A wallet is told of no transaction, and of no balance, but for what its user
\* has authorized; and the authorization it hears of is the last one, or one
\* whose hash came after it (getTxHash, latestForUser, updateTransactionHash).
THEOREM ToldOnlyAuthorized == WalletRpcSpec => []TellsOnlyAuthorized
  <1>1. Inv /\ OrdersOK => TellsOnlyAuthorized
    <2> SUFFICES ASSUME Inv, OrdersOK PROVE TellsOnlyAuthorized
      OBVIOUS
    <2>1. ASSUME AnyInForce
          PROVE  Latest \in Keys /\ row[Latest] # NoRow /\ HashOK(Latest) /\ RowOK(Latest)
      BY <2>1, LatestInForce DEF InForce, Active, Inv, OrdersOK
    <2>2. GetTxHash # NoTx => \E s \in authorized : Alike(s, GetTxHash)
      BY <2>1 DEF GetTxHash, HashOK
    <2>3. ASSUME NEW w \in Senders, CanCheckBalanceOf(w)
          PROVE  \E s \in authorized : WalletTxOf[s].wallet = w
      <3>1. AnyInForce /\ Latest[1] = w
        BY <2>3 DEF CanCheckBalanceOf
      <3>2. PICK s \in authorized : Key(s) = Latest
        BY <2>1, <3>1 DEF RowOK
      <3> QED BY <3>1, <3>2 DEF Key
    <2> QED BY <2>2, <2>3, LatestInForce DEF TellsOnlyAuthorized
  <1> QED BY <1>1, Invariant, OrdersInvariant, PTL

\* Everything keeps its type (the tables and the requests of one user).
THEOREM WalletRpcTypeCorrect == WalletRpcSpec => []WalletRpcTypeOK
  <1>1. TokenTyped /\ [WalletRpcNext]_walletRpcVars => TokenTyped'
    <2> SUFFICES ASSUME TokenTyped, [WalletRpcNext]_walletRpcVars PROVE TokenTyped'
      OBVIOUS
    <2>1. CASE NewToken
      BY <2>1, WalletRpcAssumption DEF NewToken, TokenTyped
    <2>2. CASE UNCHANGED <<token, generated>>
      BY <2>2 DEF TokenTyped
    <2>3. ASSUME NEW r \in Requests, Step(r) PROVE TokenTyped'
      BY <2>1, <2>2, <2>3 DEF Step, Authorize, CreateOrUpdate, CheckAllowance, CheckRights, Submit,
                            RecordHash, ReadToken, StoreToken, user
    <2>4. CASE Invalidate \/ EditRights \/ Expire \/ UNCHANGED walletRpcVars
      BY <2>1, <2>2, <2>4 DEF Invalidate, EditRights, Expire, walletRpcVars, user
    <2> QED BY <2>2, <2>3, <2>4 DEF WalletRpcNext, Load, user
  <1>2. WalletRpcInit => TokenTyped
    BY InitOrders
  <1>3. Inv /\ OrdersOK /\ TokenTyped => WalletRpcTypeOK
    BY DEF Inv, RowsTyped, OrdersOK, Ranks, TokenTyped, WalletRpcTypeOK
  <1> QED BY <1>1, <1>2, <1>3, Invariant, OrdersInvariant, PTL DEF WalletRpcSpec
-----------------------------------------------------------------------------
(* Deployments: types, and what ties the parts of the state together       *)

\* A row exists from the start of its request; only finished requests age and
\* are swept, and no one but the request errors a row before it is finished.
RowsOK ==
    \A d \in Deploys :
        /\ handler[d] = "idle" <=> deployment[d] = "none"
        /\ deployment[d] = "none" <=> txOf[d] = NoValue
        /\ deployment[d] \in {"errored", "deleted"} => handler[d] = "over"
        /\ d \in stale \cup sweep.todo => deployment[d] # "none" /\ handler[d] = "over"

\* started_at orders the rows, and a reader has only rows to look at.
OrderOK ==
    /\ \A d, e \in Deploys :
          txOf[d] # NoValue /\ txOf[e] # NoValue /\ d # e =>
             d \in before[e] \/ e \in before[d]
    /\ \A x \in Readers : \A d \in reader[x].todo : txOf[d] # NoValue

TypeInv == DeploymentsTypeOK /\ RowsOK /\ OrderOK

\* The absence of a transaction is not one.
LEMMA NoValueIsNoTx == NoValue \notin DeploymentTxs
  BY DeploymentAssumption DEF DeploymentTxs

LEMMA TypeInit == DeploymentsInit => TypeInv
  BY NoValueIsNoTx DEF DeploymentsInit, TypeInv, DeploymentsTypeOK, RowsOK, OrderOK

\* The request: its row first, then the steps of its handler.
LEMMA TypeRequest ==
  ASSUME TypeInv, NEW d \in Deploys,
         \/ \E t \in DeploymentTxs : BeginDeployment(d, t)
         \/ HandlerStep(d) \/ AnswerLost(d) \/ SuccessWriteFails(d) \/ Crash(d) \/ Age(d)
  PROVE  TypeInv'
  <1> USE NoValueIsNoTx DEF TypeInv, DeploymentsTypeOK, RowsOK, OrderOK
  <1>1. ASSUME NEW t \in DeploymentTxs, BeginDeployment(d, t) PROVE TypeInv'
    <2>1. DeploymentsTypeOK'
      BY <1>1 DEF BeginDeployment
    <2>2. RowsOK' /\ OrderOK'
      BY <1>1 DEF BeginDeployment
    <2> QED BY <2>1, <2>2
  <1>2. CASE SubmitDeployment(d)
    <2>1. /\ UNCHANGED <<records, deployment, sweep, reader>>
          /\ handler[d] = "submit"
          /\ \E pc \in {"await", "over", "failed"} :
                handler' = [handler EXCEPT ![d] = pc]
          /\ lost' = lost
          /\ chain' = chain \/ chain' = [chain EXCEPT ![txOf[d]] = "pooled"]
      BY <1>2 DEF SubmitDeployment, AfterAccepted, Accepted
    <2>2. DeploymentsTypeOK'
      BY <2>1 DEF records
    <2>3. RowsOK' /\ OrderOK'
      BY <2>1 DEF records
    <2> QED BY <2>2, <2>3
  <1>3. CASE AnswerLost(d)
    <2>1. /\ UNCHANGED <<records, deployment, sweep, reader>>
          /\ handler[d] \in {"submit", "await"}
          /\ handler' = [handler EXCEPT ![d] = "failed"]
          /\ lost' = lost \cup {txOf[d]}
          /\ chain' = chain \/ chain' = [chain EXCEPT ![txOf[d]] = "pooled"]
      BY <1>3 DEF AnswerLost, Accepted
    <2>2. txOf[d] \in DeploymentTxs
      BY <2>1
    <2>3. DeploymentsTypeOK'
      BY <2>1, <2>2 DEF records
    <2>4. RowsOK' /\ OrderOK'
      BY <2>1 DEF records
    <2> QED BY <2>3, <2>4
  <1>4. CASE SyncAnswer(d)
    BY <1>4 DEF SyncAnswer, records
  <1>5. CASE RecordSuccess(d)
    <2>1. DeploymentsTypeOK'
      BY <1>5 DEF RecordSuccess, Succeed, records
    <2>2. RowsOK' /\ OrderOK'
      BY <1>5 DEF RecordSuccess, Succeed, records
    <2> QED BY <2>1, <2>2
  <1>6. CASE RecordError(d)
    BY <1>6 DEF RecordError, Fail, Errorable, records
  <1>7. CASE SuccessWriteFails(d)
    <2>1. txOf[d] \in DeploymentTxs
      BY <1>7 DEF SuccessWriteFails
    <2> QED BY <1>7, <2>1 DEF SuccessWriteFails, records
  <1>8. CASE Crash(d) \/ Age(d)
    BY <1>8 DEF Crash, Age, records
  <1> QED BY <1>1, <1>2, <1>3, <1>4, <1>5, <1>6, <1>7, <1>8 DEF HandlerStep

\* The sweep and the purge only touch the rows of finished requests.
LEMMA TypeSweep ==
  ASSUME TypeInv, NEW d \in Deploys,
         \/ SweepStart \/ Purge(d)
         \/ SweepReceipt(d) \/ SweepKnown(d) \/ SweepOutage(d) \/ SweepWrite(d)
  PROVE  TypeInv'
  <1> USE DEF TypeInv, DeploymentsTypeOK, RowsOK, OrderOK
  <1>1. ASSUME NEW todo \in SUBSET Deploys, todo \subseteq stale \cup sweep.todo,
               SweepTo(todo)
        PROVE  /\ sweep' \in [pc : {"idle", "receipt", "known", "write"},
                              todo : SUBSET Deploys, verdict : {"success", "errored"}]
               /\ sweep'.pc = "idle" <=> sweep'.todo = {}
               /\ sweep'.todo \subseteq stale \cup sweep.todo
    BY <1>1 DEF SweepTo
  <1>2. CASE SweepStart
    <2>1. Oldest(PendingAmong(stale)) \subseteq stale
      BY DEF Oldest, PendingAmong
    <2> QED BY <1>1, <1>2, <2>1 DEF SweepStart, records
  <1>3. CASE Purge(d)
    BY <1>3 DEF Purge, records
  <1>4. ASSUME sweep.pc # "idle", NEW v \in {"success", "errored"},
               SweepVerdict(v) \/ sweep' = [sweep EXCEPT !.pc = "known"],
               UNCHANGED <<records, chain, deployment, handler, reader, lost>>
        PROVE  TypeInv'
    BY <1>4 DEF SweepVerdict, records
  <1>5. CASE SweepReceipt(d)
    BY <1>4, <1>5 DEF SweepReceipt, Sweeping
  <1>6. CASE SweepKnown(d)
    <2>1. CASE KeptWaiting(txOf[d])
      BY <1>1, <1>6, <2>1 DEF SweepKnown, records
    <2>2. CASE ~KeptWaiting(txOf[d])
      BY <1>4, <1>6, <2>2 DEF SweepKnown, Sweeping
    <2> QED BY <2>1, <2>2
  <1>7. CASE SweepOutage(d)
    BY <1>1, <1>7 DEF SweepOutage, records
  <1>8. CASE SweepWrite(d)
    <2>1. /\ SweepTo(sweep.todo \ {d})
          /\ UNCHANGED <<records, chain, handler, reader, lost>>
          /\ deployment[d] # "none" /\ handler[d] = "over"
          /\ \E r \in {"success", "errored"} :
                deployment' = [deployment EXCEPT ![d] = IF @ = "pending" THEN r ELSE @]
      BY <1>8 DEF SweepWrite, Sweeping, Succeed, Fail, Errorable
    <2>2. DeploymentsTypeOK'
      BY <1>1, <2>1 DEF records
    <2>3. RowsOK' /\ OrderOK'
      BY <1>1, <2>1 DEF records
    <2> QED BY <2>2, <2>3
  <1> QED BY <1>2, <1>3, <1>5, <1>6, <1>7, <1>8

\* A reader resolves rows as they are; it never creates or errors one.
LEMMA TypeReader ==
  ASSUME TypeInv, NEW x \in Readers,
         \/ \E a \in Addresses : CheckAuthorship(x, a)
         \/ \E d \in Deploys : ReconcileReceipt(x, d) \/ ReconcileWrite(x, d)
  PROVE  TypeInv'
  <1> USE DEF TypeInv, DeploymentsTypeOK, RowsOK, OrderOK
  <1>1. ASSUME NEW todo \in SUBSET Deploys, \A d \in todo : txOf[d] # NoValue,
               ReadTo(x, todo)
        PROVE  /\ reader' \in [Readers -> [pc : {"idle", "receipt", "write"},
                                           todo : SUBSET Deploys]]
               /\ \A y \in Readers : \A d \in reader'[y].todo : txOf[d] # NoValue
    BY <1>1 DEF ReadTo
  <1>2. ASSUME NEW a \in Addresses, CheckAuthorship(x, a) PROVE TypeInv'
    <2>1. \A d \in PendingAmong(RowsAt(a)) : d \in Deploys /\ txOf[d] # NoValue
      BY DEF PendingAmong, RowsAt
    <2> QED BY <1>1, <1>2, <2>1 DEF CheckAuthorship, records
  <1>3. ASSUME NEW d \in Deploys, ReconcileReceipt(x, d) PROVE TypeInv'
    <2>1. CASE reader' = [reader EXCEPT ![x].pc = "write"]
      BY <1>3, <2>1 DEF ReconcileReceipt, records
    <2>2. CASE ReadTo(x, reader[x].todo \ {d})
      BY <1>1, <1>3, <2>2 DEF ReconcileReceipt, records
    <2> QED BY <1>3, <2>1, <2>2 DEF ReconcileReceipt
  <1>4. ASSUME NEW d \in Deploys, ReconcileWrite(x, d) PROVE TypeInv'
    <2>1. /\ ReadTo(x, {})
          /\ UNCHANGED <<records, chain, handler, sweep, lost>>
          /\ deployment' = [deployment EXCEPT ![d] = IF @ = "pending" THEN "success" ELSE @]
      BY <1>4 DEF ReconcileWrite, Succeed
    <2>2. DeploymentsTypeOK'
      BY <1>1, <2>1 DEF records
    <2>3. RowsOK' /\ OrderOK'
      BY <1>1, <2>1 DEF records
    <2> QED BY <2>2, <2>3
  <1> QED BY <1>2, <1>3, <1>4

\* Every action keeps the types, the rows and their order.
LEMMA TypeStep == TypeInv /\ [DeploymentsNext]_deploymentVars => TypeInv'
  <1> SUFFICES ASSUME TypeInv, [DeploymentsNext]_deploymentVars PROVE TypeInv'
    OBVIOUS
  <1>1. ASSUME NEW t \in DeploymentTxs, Include(t) \/ Drop(t) PROVE TypeInv'
    BY <1>1 DEF Include, Drop, records, TypeInv, DeploymentsTypeOK, RowsOK, OrderOK
  <1>2. CASE UNCHANGED deploymentVars
    BY <1>2 DEF deploymentVars, TypeInv, DeploymentsTypeOK, RowsOK, OrderOK
  <1>3. CASE SweepStart
    <2>1. PICK d \in Deploys : d \in stale
      BY <1>3 DEF SweepStart, PendingAmong, TypeInv, DeploymentsTypeOK
    <2> QED BY <1>3, <2>1, TypeSweep
  <1> QED BY <1>1, <1>2, <1>3, TypeRequest, TypeSweep, TypeReader DEF DeploymentsNext

\* The state is well typed, rows are as RowsOK says and ordered by their start.
THEOREM DeploymentsTypeCorrect == DeploymentsSpec => []DeploymentsTypeOK
  <1>1. TypeInv => DeploymentsTypeOK
    BY DEF TypeInv
  <1> QED BY TypeInit, TypeStep, <1>1, PTL DEF DeploymentsSpec

\* Success is final and an errored row is only purged, whichever of the request,
\* the sweep and the readers writes last.
THEOREM ResolvedForGood == DeploymentsSpec => ResolvedOnce
  <1> DEFINE Final == \A d \in Deploys :
                        /\ deployment[d] = "success" => deployment'[d] = "success"
                        /\ deployment[d] = "errored" => deployment'[d] \in {"errored", "deleted"}
  <1>1. TypeInv /\ [DeploymentsNext]_deploymentVars => Final
    <2> SUFFICES ASSUME TypeInv, [DeploymentsNext]_deploymentVars PROVE Final
      OBVIOUS
    <2> USE DEF TypeInv, DeploymentsTypeOK, RowsOK
    <2>1. ASSUME NEW d \in Deploys, NEW t \in DeploymentTxs, BeginDeployment(d, t) PROVE Final
      BY <2>1 DEF BeginDeployment
    <2>2. ASSUME NEW d \in Deploys,
                 Succeed(d) \/ Fail(d) \/ Purge(d) \/ UNCHANGED deployment
          PROVE  Final
      BY <2>2 DEF Succeed, Fail, Errorable, Purge
    <2>3. CASE UNCHANGED deploymentVars
      BY <2>3 DEF deploymentVars
    <2>4. UNCHANGED deployment => Final
      OBVIOUS
    <2> QED
      BY <2>1, <2>2, <2>3, <2>4
         DEF DeploymentsNext, HandlerStep, Include, Drop, SubmitDeployment, AnswerLost, SyncAnswer,
             RecordSuccess, SuccessWriteFails, RecordError, Crash, Age, SweepStart,
             SweepReceipt, SweepKnown, SweepOutage, SweepWrite, CheckAuthorship,
             ReconcileReceipt, ReconcileWrite
  <1> QED BY TypeInit, TypeStep, <1>1, PTL DEF DeploymentsSpec, ResolvedOnce

-----------------------------------------------------------------------------
(* What is recorded, against the chain                                     *)

\* Blocks are final, and a row keeps its transaction and its place.
LEMMA BlocksAreFinal ==
  ASSUME TypeInv, [DeploymentsNext]_deploymentVars
  PROVE  /\ chainType' = chainType
         /\ \A t \in DeploymentTxs : /\ chain[t] = "mined" => chain'[t] = "mined"
                                     /\ Included(t) => Included(t)'
         /\ \A d \in Deploys :
               txOf[d] # NoValue => txOf'[d] = txOf[d] /\ before'[d] = before[d]
  <1> USE DEF TypeInv, DeploymentsTypeOK, RowsOK
  <1>1. ASSUME NEW t \in DeploymentTxs, Include(t) \/ Drop(t)
        PROVE  /\ UNCHANGED <<chainType, txOf, before>>
               /\ \A u \in DeploymentTxs : chain[u] \in {"mined", "reverted"} => chain'[u] = chain[u]
    BY <1>1 DEF Include, Drop, records
  <1>2. ASSUME NEW d \in Deploys, NEW t \in DeploymentTxs, BeginDeployment(d, t)
        PROVE  /\ UNCHANGED <<chainType, chain>>
               /\ \A e \in Deploys :
                  txOf[e] # NoValue => txOf'[e] = txOf[e] /\ before'[e] = before[e]
    BY <1>2 DEF BeginDeployment
  <1>3. ASSUME NEW d \in Deploys, SubmitDeployment(d) \/ AnswerLost(d)
        PROVE  /\ UNCHANGED <<chainType, txOf, before>>
               /\ \A u \in DeploymentTxs : chain[u] \in {"mined", "reverted"} => chain'[u] = chain[u]
    <2>1. UNCHANGED <<chainType, txOf, before>> /\ (Accepted(txOf[d]) \/ chain' = chain)
      BY <1>3 DEF SubmitDeployment, AnswerLost, records
    <2>2. CASE Accepted(txOf[d])
      <3>1. txOf[d] \in DeploymentTxs => ~Included(txOf[d])
        BY <2>2 DEF Accepted, NonceUsed
      <3>2. chain' = [chain EXCEPT ![txOf[d]] = "pooled"]
        BY <2>2 DEF Accepted
      <3> QED BY <2>1, <3>1, <3>2 DEF Included
    <2> QED BY <2>1, <2>2
  <1>4. ASSUME UNCHANGED <<chainType, txOf, before, chain>>
        PROVE  \A u \in DeploymentTxs : chain[u] \in {"mined", "reverted"} => chain'[u] = chain[u]
    BY <1>4
  <1>5. ASSUME \/ \E d \in Deploys :
                     \/ SyncAnswer(d) \/ RecordSuccess(d) \/ RecordError(d)
                     \/ SuccessWriteFails(d) \/ Crash(d) \/ Age(d)
                     \/ SweepReceipt(d) \/ SweepKnown(d) \/ SweepOutage(d)
                     \/ SweepWrite(d) \/ Purge(d)
               \/ SweepStart
               \/ \E x \in Readers, a \in Addresses : CheckAuthorship(x, a)
               \/ \E x \in Readers, d \in Deploys :
                     ReconcileReceipt(x, d) \/ ReconcileWrite(x, d)
               \/ UNCHANGED deploymentVars
        PROVE  UNCHANGED <<chainType, txOf, before, chain>>
    BY <1>5 DEF SyncAnswer, RecordSuccess, RecordError, SuccessWriteFails, Crash, Age,
                SweepReceipt, SweepKnown, SweepOutage, SweepWrite, Purge, SweepStart,
                CheckAuthorship, ReconcileReceipt, ReconcileWrite, records, deploymentVars
  <1>6. /\ chainType' = chainType
        /\ \A u \in DeploymentTxs : chain[u] \in {"mined", "reverted"} => chain'[u] = chain[u]
        /\ \A e \in Deploys :
                  txOf[e] # NoValue => txOf'[e] = txOf[e] /\ before'[e] = before[e]
    BY <1>1, <1>2, <1>3, <1>4, <1>5 DEF DeploymentsNext, HandlerStep
  <1> QED BY <1>6 DEF Included

\* The sweep is at one row at a time, and so is a reader.
LEMMA OneSwept ==
  ASSUME TypeInv, NEW d \in Deploys, NEW e \in Deploys, NEW p, NEW q,
         Sweeping(d, p), Sweeping(e, q)
  PROVE  d = e
  BY DEF TypeInv, RowsOK, OrderOK, Sweeping

LEMMA OneRead ==
  ASSUME TypeInv, NEW x \in Readers, NEW d \in Deploys, NEW e \in Deploys, NEW p, NEW q,
         ReadingAuthorship(x, d, p), ReadingAuthorship(x, e, q)
  PROVE  d = e
  BY DEF TypeInv, OrderOK, ReadingAuthorship

\* A receipt the request has in hand is that of an included transaction, on a
\* chain that gives receipts at submission.
AnswersOK ==
    \A d \in Deploys :
        /\ handler[d] = "await" => chainType = "zksync-os"
        /\ handler[d] = "confirmed" => chainType = "zksync-os" /\ Included(txOf[d])

\* About to record success, the sweep and the readers are right about the chain.
SweepOK ==
    \A d \in Deploys :
        Sweeping(d, "write") /\ sweep.verdict = "success" => chain[txOf[d]] = "mined"

ReadersOK ==
    \A x \in Readers, d \in Deploys : ReadingAuthorship(x, d, "write") => chain[txOf[d]] = "mined"

LEMMA AnswersStep ==
  ASSUME TypeInv, AnswersOK, [DeploymentsNext]_deploymentVars PROVE AnswersOK'
  <1> USE DEF TypeInv, DeploymentsTypeOK, RowsOK, AnswersOK
  <1>1. ASSUME NEW d \in Deploys, handler'[d] \in {"await", "confirmed"},
               handler'[d] # handler[d]
        PROVE  /\ chainType = "zksync-os"
               /\ handler'[d] = "confirmed" => Included(txOf[d])
               /\ txOf[d] # NoValue
    <2>1. \E e \in Deploys :
             \/ \E t \in DeploymentTxs : BeginDeployment(e, t)
             \/ HandlerStep(e) \/ AnswerLost(e) \/ SuccessWriteFails(e) \/ Crash(e)
      BY <1>1 DEF DeploymentsNext, deploymentVars, Include, Drop, Age, SweepStart, SweepReceipt, SweepKnown,
                  SweepOutage, SweepWrite, Purge, CheckAuthorship, ReconcileReceipt,
                  ReconcileWrite
    <2>2. PICK e \in Deploys :
             \/ \E t \in DeploymentTxs : BeginDeployment(e, t)
             \/ HandlerStep(e) \/ AnswerLost(e) \/ SuccessWriteFails(e) \/ Crash(e)
      BY <2>1
    <2>3. SubmitDeployment(e) \/ SyncAnswer(e)
      BY <1>1, <2>2 DEF HandlerStep, BeginDeployment, RecordSuccess, RecordError, AnswerLost,
                        SuccessWriteFails, Crash
    <2>4. CASE SubmitDeployment(e)
      BY <1>1, <2>4 DEF SubmitDeployment, AfterAccepted
    <2>5. CASE SyncAnswer(e)
      BY <1>1, <2>5 DEF SyncAnswer
    <2> QED BY <2>3, <2>4, <2>5
  <1>2. ASSUME NEW d \in Deploys, handler[d] = "confirmed" PROVE txOf[d] \in DeploymentTxs
    BY <1>2
  <1> QED BY <1>1, <1>2, BlocksAreFinal

LEMMA SweepStep ==
  ASSUME TypeInv, TypeInv', SweepOK, [DeploymentsNext]_deploymentVars PROVE SweepOK'
  <1> SUFFICES ASSUME NEW d \in Deploys, Sweeping(d, "write")', sweep'.verdict = "success"
               PROVE  chain'[txOf'[d]] = "mined"
    BY DEF SweepOK
  <1> USE DEF TypeInv, DeploymentsTypeOK
  <1>1. ASSUME sweep' = sweep PROVE chain[txOf[d]] = "mined" /\ txOf[d] # NoValue
    <2>1. txOf[d] # NoValue
      BY <1>1 DEF Sweeping, RowsOK
    <2>2. before'[d] = before[d]
      BY <2>1, BlocksAreFinal
    <2> QED BY <1>1, <2>1, <2>2 DEF Sweeping, SweepOK
  <1>2. ASSUME sweep' # sweep PROVE chain[txOf[d]] = "mined" /\ txOf[d] # NoValue
    <2>1. \/ SweepStart
          \/ \E e \in Deploys :
                SweepReceipt(e) \/ SweepKnown(e) \/ SweepOutage(e) \/ SweepWrite(e)
      BY <1>2 DEF DeploymentsNext, deploymentVars, Include, Drop, HandlerStep, BeginDeployment, SubmitDeployment, AnswerLost,
         SyncAnswer, RecordSuccess, RecordError, SuccessWriteFails, Crash, Age, Purge,
         CheckAuthorship, ReconcileReceipt, ReconcileWrite
    <2>2. ASSUME NEW todo, SweepTo(todo) PROVE FALSE
      BY <2>2 DEF SweepTo, Sweeping
    <2>3. PICK e \in Deploys : SweepReceipt(e) \/ SweepKnown(e)
      BY <2>1, <2>2 DEF SweepStart, SweepOutage, SweepWrite
    <2>4. SweepReceipt(e) /\ SweepVerdict("success") /\ chain[txOf[e]] = "mined"
      <3>1. CASE SweepReceipt(e)
        BY <3>1 DEF SweepReceipt, SweepVerdict, Sweeping
      <3>2. CASE SweepKnown(e)
        <4>1. SweepVerdict("errored")
          BY <2>2, <3>2 DEF SweepKnown
        <4> QED BY <4>1 DEF SweepVerdict, Sweeping
      <3> QED BY <2>3, <3>1, <3>2
    <2>5. Sweeping(d, "receipt")
      BY <2>4 DEF SweepReceipt, SweepVerdict, Sweeping, records
    <2>6. d = e
      BY <2>4, <2>5, OneSwept DEF SweepReceipt
    <2> QED BY <2>4, <2>5, <2>6 DEF Sweeping, RowsOK
  <1> QED BY <1>1, <1>2, BlocksAreFinal

LEMMA ReadersStep ==
  ASSUME TypeInv, TypeInv', ReadersOK, [DeploymentsNext]_deploymentVars PROVE ReadersOK'
  <1> SUFFICES ASSUME NEW x \in Readers, NEW d \in Deploys, ReadingAuthorship(x, d, "write")'
               PROVE  chain'[txOf'[d]] = "mined"
    BY DEF ReadersOK
  <1> USE DEF TypeInv, DeploymentsTypeOK
  <1>1. ASSUME reader'[x] = reader[x] PROVE chain[txOf[d]] = "mined" /\ txOf[d] # NoValue
    <2>1. \A e \in reader[x].todo : before'[e] = before[e] /\ txOf[e] # NoValue
      BY BlocksAreFinal DEF OrderOK
    <2> QED BY <1>1, <2>1 DEF ReadingAuthorship, ReadersOK
  <1>2. ASSUME reader'[x] # reader[x] PROVE chain[txOf[d]] = "mined" /\ txOf[d] # NoValue
    <2>1. \E y \in Readers :
             \/ \E a \in Addresses : CheckAuthorship(y, a)
             \/ \E e \in Deploys : ReconcileReceipt(y, e) \/ ReconcileWrite(y, e)
      BY <1>2 DEF DeploymentsNext, deploymentVars, Include, Drop, HandlerStep, BeginDeployment, SubmitDeployment, AnswerLost,
         SyncAnswer, RecordSuccess, RecordError, SuccessWriteFails, Crash, Age, Purge,
         SweepStart, SweepReceipt, SweepKnown, SweepOutage, SweepWrite
    <2>2. PICK y \in Readers :
             \/ \E a \in Addresses : CheckAuthorship(y, a)
             \/ \E e \in Deploys : ReconcileReceipt(y, e) \/ ReconcileWrite(y, e)
      BY <2>1
    <2>3. ASSUME NEW todo, ReadTo(y, todo) PROVE FALSE
      BY <1>2, <2>3 DEF ReadTo, ReadingAuthorship
    <2>4. PICK e \in Deploys : ReconcileReceipt(y, e)
      BY <2>2, <2>3 DEF CheckAuthorship, ReconcileWrite
    <2>5. /\ ReadingAuthorship(y, e, "receipt") /\ chain[txOf[e]] = "mined"
          /\ reader' = [reader EXCEPT ![y].pc = "write"] /\ before' = before
      BY <2>3, <2>4 DEF ReconcileReceipt, records
    <2>6. x = y /\ ReadingAuthorship(x, d, "receipt")
      BY <1>2, <2>5 DEF ReadingAuthorship
    <2>7. d = e
      BY <2>5, <2>6, OneRead
    <2> QED BY <2>5, <2>6, <2>7 DEF ReadingAuthorship, OrderOK
  <1> QED BY <1>1, <1>2, BlocksAreFinal

\* Only verdicts that are right about the chain make a row a success.
LEMMA BackedStep ==
  ASSUME TypeInv, AnswersOK, SweepOK, ReadersOK, SuccessBacked, [DeploymentsNext]_deploymentVars
  PROVE  SuccessBacked'
  <1> SUFFICES ASSUME NEW d \in Deploys, deployment'[d] = "success"
               PROVE  /\ Included(txOf[d])'
                      /\ chainType' = "besu" => chain'[txOf'[d]] = "mined"
    BY DEF SuccessBacked
  <1> USE DEF TypeInv, DeploymentsTypeOK, RowsOK
  <1> DEFINE Backed == /\ Included(txOf[d])
                       /\ chainType = "besu" => chain[txOf[d]] = "mined"
                       /\ txOf[d] # NoValue
  <1>1. ASSUME deployment[d] # "success" PROVE Backed
    <2>1. \E e \in Deploys :
             \/ RecordSuccess(e) \/ RecordError(e) \/ SweepWrite(e) \/ Purge(e)
             \/ \E t \in DeploymentTxs : BeginDeployment(e, t)
             \/ \E x \in Readers : ReconcileWrite(x, e)
      BY <1>1 DEF DeploymentsNext, deploymentVars, Include, Drop, HandlerStep, SubmitDeployment, AnswerLost,
         SyncAnswer, SuccessWriteFails, Crash, Age, SweepStart, SweepReceipt, SweepKnown,
         SweepOutage, CheckAuthorship, ReconcileReceipt
    <2>2. PICK e \in Deploys :
             \/ RecordSuccess(e) \/ RecordError(e) \/ SweepWrite(e) \/ Purge(e)
             \/ \E t \in DeploymentTxs : BeginDeployment(e, t)
             \/ \E x \in Readers : ReconcileWrite(x, e)
      BY <2>1
    <2>3. CASE RecordSuccess(e)
      BY <1>1, <2>3 DEF RecordSuccess, Succeed, AnswersOK
    <2>4. CASE SweepWrite(e)
      <3>1. sweep.verdict = "success" /\ d = e
        BY <1>1, <2>4 DEF SweepWrite, Succeed, Fail, Errorable
      <3>2. txOf[d] # NoValue
        BY <2>4, <3>1 DEF SweepWrite, Sweeping
      <3>3. chain[txOf[d]] = "mined"
        BY <2>4, <3>1 DEF SweepWrite, SweepOK
      <3> QED BY <3>2, <3>3 DEF Included
    <2>5. ASSUME NEW x \in Readers, ReconcileWrite(x, e)
          PROVE  Backed
      <3>1. d = e
        BY <1>1, <2>5 DEF ReconcileWrite, Succeed
      <3>2. txOf[d] # NoValue
        BY <2>5, <3>1 DEF ReconcileWrite, ReadingAuthorship, OrderOK
      <3>3. chain[txOf[d]] = "mined"
        BY <2>5, <3>1 DEF ReconcileWrite, ReadersOK
      <3> QED BY <3>2, <3>3 DEF Included
    <2>6. ~RecordError(e) /\ ~Purge(e) /\ ~\E t \in DeploymentTxs : BeginDeployment(e, t)
      BY <1>1 DEF RecordError, Fail, Errorable, Purge, BeginDeployment
    <2> QED BY <2>2, <2>3, <2>4, <2>5, <2>6
  <1>2. ASSUME deployment[d] = "success" PROVE Backed
    BY <1>2 DEF SuccessBacked
  <1> QED BY <1>1, <1>2, BlocksAreFinal DEF Included

BackedInv == TypeInv /\ AnswersOK /\ SweepOK /\ ReadersOK /\ SuccessBacked

\* A row is a success only for an included transaction, and on a chain that does
\* not confirm at submission only for one that deployed: what the sweep and the
\* readers wrote rests on a receipt that is still true when they write.
THEOREM SuccessIsBacked == DeploymentsSpec => []SuccessBacked
  <1>1. DeploymentsInit => BackedInv
    BY TypeInit DEF DeploymentsInit, BackedInv, AnswersOK, SweepOK, ReadersOK, SuccessBacked,
                    Sweeping, ReadingAuthorship
  <1>2. BackedInv /\ [DeploymentsNext]_deploymentVars => BackedInv'
    BY TypeStep, AnswersStep, SweepStep, ReadersStep, BackedStep DEF BackedInv
  <1>3. BackedInv => SuccessBacked
    BY DEF BackedInv
  <1> QED BY <1>1, <1>2, <1>3, PTL DEF DeploymentsSpec

-----------------------------------------------------------------------------
(* A mined deployment keeps its author                                     *)

\* d keeps the transaction t of its request on record: the request has been
\* answered or will be, and no sweep is about to error its row.
KeepsOnRecord(d, t) ==
    /\ txOf[d] = t
    /\ deployment[d] \in {"pending", "success"}
    /\ handler[d] \in {"await", "confirmed", "over"}
    /\ ~(Sweeping(d, "write") /\ sweep.verdict = "errored")

\* What holds of a transaction while the node knows it, unless its answer is lost.
OnRecord ==
    \A t \in DeploymentTxs \ lost : Known(t) => \E d \in Deploys : KeepsOnRecord(d, t)

\* A row goes off the record only when the node does not know its transaction,
\* or when the answer of its submission is lost.
LEMMA RowLeavesRecord ==
  ASSUME TypeInv, TypeInv', [DeploymentsNext]_deploymentVars, NEW t \in DeploymentTxs, NEW d \in Deploys,
         t \notin lost', Known(t), Known(t)', KeepsOnRecord(d, t)
  PROVE  KeepsOnRecord(d, t)'
  <1> USE DEF TypeInv, DeploymentsTypeOK, RowsOK
  <1>1. txOf[d] = t /\ txOf'[d] = t /\ before'[d] = before[d]
    BY NoValueIsNoTx, BlocksAreFinal DEF KeepsOnRecord
  <1>2. deployment'[d] \in {"pending", "success"}
    <2>1. ASSUME deployment'[d] # deployment[d] PROVE deployment'[d] = "success"
      <3>1. \E e \in Deploys :
               \/ Succeed(e) \/ RecordError(e) \/ SweepWrite(e) \/ Purge(e)
               \/ \E u \in DeploymentTxs : BeginDeployment(e, u)
        BY <2>1 DEF DeploymentsNext, deploymentVars, Include, Drop, HandlerStep, SubmitDeployment, AnswerLost,
           SyncAnswer, RecordSuccess, SuccessWriteFails, Crash, Age, SweepStart,
           SweepReceipt, SweepKnown, SweepOutage, CheckAuthorship, ReconcileReceipt,
           ReconcileWrite
      <3>2. PICK e \in Deploys :
               \/ Succeed(e) \/ RecordError(e) \/ SweepWrite(e) \/ Purge(e)
               \/ \E u \in DeploymentTxs : BeginDeployment(e, u)
        BY <3>1
      <3>3. ~RecordError(e) /\ ~Purge(e) /\ ~\E u \in DeploymentTxs : BeginDeployment(e, u)
        BY <2>1 DEF RecordError, Fail, Errorable, Purge, BeginDeployment, KeepsOnRecord
      <3>4. SweepWrite(e) => Succeed(e)
        BY <2>1 DEF SweepWrite, Fail, Errorable, KeepsOnRecord
      <3> QED BY <2>1, <3>2, <3>3, <3>4 DEF Succeed
    <2> QED BY <2>1 DEF KeepsOnRecord
  <1>3. handler'[d] \in {"await", "confirmed", "over"}
    <2>1. ASSUME handler'[d] # handler[d]
          PROVE  handler'[d] \in {"await", "confirmed", "over"}
      <3>1. PICK e \in Deploys :
               \/ \E u \in DeploymentTxs : BeginDeployment(e, u)
               \/ HandlerStep(e) \/ AnswerLost(e) \/ SuccessWriteFails(e) \/ Crash(e)
        BY <2>1 DEF DeploymentsNext, deploymentVars, Include, Drop, Age, SweepStart, SweepReceipt,
           SweepKnown, SweepOutage, SweepWrite, Purge, CheckAuthorship,
           ReconcileReceipt, ReconcileWrite
      <3>2. d = e
        BY <2>1, <3>1 DEF HandlerStep, BeginDeployment, SubmitDeployment, SyncAnswer, RecordSuccess,
           RecordError, AnswerLost, SuccessWriteFails, Crash
      <3>3. ~AnswerLost(e) /\ ~SuccessWriteFails(e)
        BY <1>1, <3>2 DEF AnswerLost, SuccessWriteFails
      <3>4. SyncAnswer(e) \/ RecordSuccess(e) \/ Crash(e)
        BY <3>1, <3>2, <3>3 DEF HandlerStep, BeginDeployment, SubmitDeployment, RecordError, KeepsOnRecord
      <3>5. CASE SyncAnswer(e)
        BY <1>1, <3>2, <3>5 DEF SyncAnswer
      <3>6. CASE RecordSuccess(e)
        BY <3>2, <3>6 DEF RecordSuccess, KeepsOnRecord
      <3>7. CASE Crash(e)
        BY <3>2, <3>7 DEF Crash
      <3> QED BY <3>4, <3>5, <3>6, <3>7
    <2> QED BY <2>1 DEF KeepsOnRecord
  <1>4. ASSUME Sweeping(d, "write")', sweep'.verdict = "errored" PROVE FALSE
    <2>1. sweep' # sweep
      BY <1>1, <1>4 DEF Sweeping, KeepsOnRecord
    <2>2. PICK e \in Deploys :
             \/ SweepStart
             \/ SweepReceipt(e) \/ SweepKnown(e) \/ SweepOutage(e) \/ SweepWrite(e)
      BY <2>1 DEF DeploymentsNext, deploymentVars, Include, Drop, HandlerStep, BeginDeployment, SubmitDeployment, AnswerLost,
         SyncAnswer, RecordSuccess, RecordError, SuccessWriteFails, Crash, Age, Purge,
         CheckAuthorship, ReconcileReceipt, ReconcileWrite
    <2>3. ASSUME NEW todo, SweepTo(todo) PROVE FALSE
      BY <1>4, <2>3 DEF SweepTo, Sweeping
    <2>4. SweepKnown(e) /\ ~Known(txOf[e]) /\ SweepVerdict("errored")
      <3>1. SweepReceipt(e) \/ SweepKnown(e)
        BY <2>2, <2>3 DEF SweepStart, SweepOutage, SweepWrite
      <3>2. ~SweepReceipt(e)
        <4>1. CASE SweepVerdict("success")
          BY <1>4, <4>1 DEF SweepVerdict
        <4>2. CASE sweep' = [sweep EXCEPT !.pc = "known"]
          BY <1>4, <4>2 DEF Sweeping
        <4> QED BY <4>1, <4>2 DEF SweepReceipt
      <3> QED BY <2>3, <3>1, <3>2 DEF SweepKnown, KeptWaiting
    <2>5. Sweeping(d, "known")
      BY <1>1, <1>4, <2>4 DEF SweepKnown, SweepVerdict, Sweeping
    <2>6. d = e
      BY <2>4, <2>5, OneSwept DEF SweepKnown
    <2> QED BY <1>1, <2>4, <2>6
  <1> QED BY <1>1, <1>2, <1>3, <1>4 DEF KeepsOnRecord

\* A transaction becomes known to the node through a request, whose row is
\* pending from before the submission.
LEMMA RecordStep ==
  ASSUME TypeInv, TypeInv', OnRecord, [DeploymentsNext]_deploymentVars PROVE OnRecord'
  <1> SUFFICES ASSUME NEW t \in DeploymentTxs, t \notin lost', Known(t)'
               PROVE  \E d \in Deploys : KeepsOnRecord(d, t)'
    BY DEF OnRecord, DeploymentTxs
  <1> USE DEF TypeInv, DeploymentsTypeOK, RowsOK
  <1>1. CASE Known(t)
    <2>1. lost' = lost \/ \E d \in Deploys : lost' = lost \cup {txOf[d]}
      <3>1. ASSUME NEW d \in Deploys, AnswerLost(d) \/ SuccessWriteFails(d)
            PROVE  lost' = lost \cup {txOf[d]}
        BY <3>1 DEF AnswerLost, SuccessWriteFails
      <3>2. ASSUME NEW d \in Deploys, HandlerStep(d) PROVE lost' = lost
        BY <3>2 DEF HandlerStep, SubmitDeployment, SyncAnswer, RecordSuccess, RecordError
      <3> QED BY <3>1, <3>2 DEF DeploymentsNext, deploymentVars, Include, Drop, BeginDeployment, Crash, Age, Purge,
         SweepStart, SweepReceipt, SweepKnown, SweepOutage, SweepWrite,
         CheckAuthorship, ReconcileReceipt, ReconcileWrite
    <2> QED BY <1>1, <2>1, RowLeavesRecord DEF OnRecord
  <1>2. CASE ~Known(t)
    <2>1. PICK d \in Deploys : SubmitDeployment(d) \/ AnswerLost(d)
      <3>1. ASSUME NEW u \in DeploymentTxs, Include(u) \/ Drop(u) PROVE FALSE
        BY <1>2, <3>1 DEF Known, Include, Drop
      <3>2. chain' # chain
        BY <1>2 DEF Known
      <3> QED BY <3>1, <3>2 DEF DeploymentsNext, deploymentVars, HandlerStep, BeginDeployment, SyncAnswer,
         RecordSuccess, RecordError, SuccessWriteFails, Crash, Age, Purge,
         SweepStart, SweepReceipt, SweepKnown, SweepOutage, SweepWrite,
         CheckAuthorship, ReconcileReceipt, ReconcileWrite, records
    <2>2. txOf[d] = t
      BY <1>2, <2>1 DEF Known, SubmitDeployment, AnswerLost, Accepted
    <2>3. SubmitDeployment(d) /\ handler' = [handler EXCEPT ![d] = AfterAccepted]
      BY <1>2, <2>1, <2>2 DEF SubmitDeployment, AnswerLost, Known
    <2>4. deployment[d] \in {"pending", "success"} /\ UNCHANGED <<deployment, sweep, txOf>>
      BY <2>3 DEF SubmitDeployment, records
    <2>5. d \notin sweep.todo
      BY <2>3 DEF SubmitDeployment
    <2> QED BY <2>2, <2>3, <2>4, <2>5 DEF KeepsOnRecord, AfterAccepted, Sweeping
  <1> QED BY <1>1, <1>2

RecordInv == TypeInv /\ OnRecord

\* A mined deployment keeps a row of its deployer that is a success or will be
\* one, whatever the interleaving of requests, retries, readers and the sweep,
\* unless the answer of its submission was lost.
THEOREM DeployerKeepsAuthorship == DeploymentsSpec => []MinedHasAuthor
  <1>1. DeploymentsInit => RecordInv
    BY TypeInit DEF DeploymentsInit, RecordInv, OnRecord, Known
  <1>2. RecordInv /\ [DeploymentsNext]_deploymentVars => RecordInv'
    BY TypeStep, RecordStep DEF RecordInv
  <1>3. RecordInv => MinedHasAuthor
    BY DEF RecordInv, OnRecord, MinedHasAuthor, KeepsOnRecord, Known
  <1> QED BY <1>1, <1>2, <1>3, PTL DEF DeploymentsSpec

------------------------------------------------------------------------------
(* RpcReads *)


TxFacts == {"head", "input", "log"}

\* q as a look-up may have found it, with the user that was authenticated under p.
AsLoaded(p, q, h) ==
    IF h.is \in Users THEN [people |-> p.people, contracts |-> q.contracts, grants |-> q.grants] ELSE q

\* w holds policies, and h is the caller as p, one of them, makes it.
Lived(w, h, p) == w \subseteq Policies /\ p \in w /\ \E c \in Callers : h = Holder(p, c)

\* What one policy tells h of transactions under a permission.
Knows(q, h, perm, f) ==
    \/ SeesAll(h, perm)
    \/ ConcernsIt(q, h, perm, f.of)
    \/ f.what = "head" /\ f.of \in mined /\ \E l \in TxOf[f.of].logs : SeesLog(q, h, l)
    \/ f.what = "log" /\ SeesLog(q, h, f.log)
Told(w, h, perm, f) == f.what \in TxFacts /\ \E q \in Torn(w) : Knows(q, h, perm, f)

------------------------------------------------------------------------------

LEMMA TornTyped ==
    ASSUME NEW w, w \subseteq Policies, NEW q \in Torn(w)
    PROVE  q \in Tables
BY RpcReadsAssumption DEF Torn, Tables

LEMMA TornHolds ==
    ASSUME NEW w, NEW h, NEW p, Lived(w, h, p), NEW q \in Torn(w)
    PROVE  AsLoaded(p, q, h) \in Torn(w) /\ AsLoaded(p, q, h) \in Tables
<1>1. q.contracts \in {x.contracts : x \in w} /\ q.grants \in {x.grants : x \in w} /\ p.people \in {x.people : x \in w}
    BY DEF Torn, Lived
<1>2. [people |-> p.people, contracts |-> q.contracts, grants |-> q.grants] \in Torn(w)
    BY <1>1 DEF Torn
<1>3. AsLoaded(p, q, h) \in Torn(w)
    BY <1>2 DEF AsLoaded
<1> QED BY <1>3, TornTyped DEF Lived

LEMMA Loaded ==
    ASSUME NEW w, NEW h, NEW p, Lived(w, h, p)
    PROVE  /\ p \in Tables
           /\ h \in [is : Callers, roles : SUBSET Roles, wallets : SUBSET Wallets, org : Orgs \cup {Zone}]
           /\ h.is \in Users => h.wallets = p.people.user[h.is].wallets /\ h.org = p.people.user[h.is].org
           /\ h.is \notin Users => h.wallets = {}
           /\ h.is = "anonymous" => h.roles = {}
           /\ h.is \in {"tenant", "m2m_app", "anonymous"} <=> h.is \notin Users
<1>1. p \in Tables
    BY RpcReadsAssumption DEF Lived
<1>2. PICK c \in Callers : h = Holder(p, c)
    BY DEF Lived
<1>3. RolesAtLogin(p, c) \subseteq Roles /\ (c = "anonymous" => RolesAtLogin(p, c) = {})
    <2>1. CASE c \in Users
        BY <1>1, <2>1, RpcPolicyAssumption DEF RolesAtLogin, Tables, People
    <2>2. CASE c \notin Users
        BY <1>1, <1>2, <2>2 DEF RolesAtLogin, Tables, People, Callers
    <2> QED BY <2>1, <2>2
<1>4. c \in Users => p.people.user[c].wallets \subseteq Wallets /\ p.people.user[c].org \in Orgs \cup {Zone}
    BY <1>1 DEF Tables, People
<1>5. c \in {"tenant", "m2m_app", "anonymous"} <=> c \notin Users
    BY RpcPolicyAssumption, <1>2 DEF Callers
<1> QED BY <1>1, <1>2, <1>3, <1>4, <1>5 DEF Holder

LEMMA AssociatedOwn ==
    ASSUME NEW w, NEW h, NEW p, Lived(w, h, p), NEW q \in Torn(w)
    PROVE  Associated(q, h) = Own(AsLoaded(p, q, h), h)
<1>1. q \in Tables /\ p \in Tables
    BY TornTyped, Loaded DEF Lived
<1>2. CASE h.is \in Users
    <2>1. AsLoaded(p, q, h).people = p.people
        BY <1>2 DEF AsLoaded
    <2>2. ActsFor(AsLoaded(p, q, h), h) = {h.is}
        BY <1>2, RpcPolicyAssumption DEF ActsFor
    <2>3. Own(AsLoaded(p, q, h), h) = p.people.user[h.is].wallets
        BY <2>1, <2>2 DEF Own
    <2> QED BY <1>2, <2>3, Loaded DEF Associated
<1>3. CASE h.is \notin Users
    <2>1. AsLoaded(p, q, h) = q
        BY <1>3 DEF AsLoaded
    <2>2. CASE h.is = "tenant"
        <3>1. ActsFor(q, h) = q.people.tenant.members
            BY <1>1, <1>3, <2>2 DEF ActsFor, Tables, People
        <3> QED BY <1>3, <2>1, <2>2, <3>1 DEF Own, Associated, WalletsOf
    <2>3. CASE h.is = "m2m_app" /\ RpcEnabled(h)
        <3>1. ActsFor(q, h) = LiveMembers(q, Linked(q))
            BY <1>1, <1>3, <2>3 DEF ActsFor, Tables, People, LiveMembers, Linked, RpcEnabled, Has
        <3> QED BY <1>3, <2>1, <2>3, <3>1 DEF Own, Associated, WalletsOf
    <2>4. CASE h.is # "tenant" /\ ~(h.is = "m2m_app" /\ RpcEnabled(h))
        <3>1. ActsFor(q, h) = {}
            BY <1>1, <1>3, <2>4 DEF ActsFor, RpcEnabled, Has
        <3> QED BY <1>3, <2>1, <2>4, <3>1 DEF Own, Associated
    <2> QED BY <2>2, <2>3, <2>4
<1> QED BY <1>2, <1>3

LEMMA InteractiveIs ==
    ASSUME NEW h
    PROVE  Interactive(h) <=> h.is \in Users \/ (h.is = "m2m_app" /\ RpcEnabled(h))
BY DEF Interactive, RpcEnabled, Has

\* The wallets of an organization that a role reads in full are seen.
LEMMA OrgWalletsSeen ==
    ASSUME NEW w, NEW h, NEW p, Lived(w, h, p), NEW q \in Torn(w), NEW perm, NEW extra, extra \subseteq {perm},
           Interactive(h), NEW a \in OrgWallets(q, FullOrgs(h, extra))
    PROVE  SeesOf(q, h, perm, a)
<1>1. q \in Tables /\ h.roles \subseteq Roles
    BY TornTyped, Loaded DEF Lived
<1>2. PICK u \in Users : u \in LiveMembers(q, FullOrgs(h, extra)) /\ a \in q.people.user[u].wallets
    BY DEF OrgWallets, WalletsOf, LiveMembers
<1> DEFINE o == q.people.user[u].org
<1>3. o \in FullOrgs(h, extra) /\ o \notin q.people.deleted
    BY <1>2 DEF LiveMembers
<1>4. PICK r \in h.roles : (ReadPermissions \cup extra) \cap Permissions[r] # {} /\ RoleOrg[r] = o /\ o # Zone
    BY <1>3 DEF FullOrgs
<1>5. o \in Orgs /\ r \in ReaderRoles(h, perm, o)
    BY <1>1, <1>2, <1>4 DEF ReaderRoles, Tables, People
<1>6. a \in Wallets
    BY <1>1, <1>2 DEF Tables, People
<1>7. a \notin Reserved
    BY <1>6, RpcPolicyAssumption
<1> QED BY <1>2, <1>3, <1>5, <1>7 DEF SeesOf

LEMMA OrgVisibleSeen ==
    ASSUME NEW w, NEW h, NEW p, Lived(w, h, p), NEW q \in Torn(w), NEW perm, NEW extra, extra \subseteq {perm},
           NEW a, NEW users \in BOOLEAN, OrgVisible(q, h, a, users, extra)
    PROVE  SeesAll(h, perm) \/ SeesOf(q, h, perm, a)
<1>1. q \in Tables /\ h.roles \subseteq Roles
    BY TornTyped, Loaded DEF Lived
<1>2. Interactive(h) /\ a \notin Reserved
    BY InteractiveIs DEF OrgVisible
<1>3. CASE /\ a \in Contracts /\ q.contracts[a].org # Zone
           /\ HasAnyFor(h, ReadPermissions \cup extra, q.contracts[a].org)
    <2> DEFINE o == q.contracts[a].org
    <2>1. PICK r \in h.roles : RoleOrg[r] \in {Zone, o} /\ (ReadPermissions \cup extra) \cap Permissions[r] # {}
        BY <1>3 DEF HasAnyFor
    <2>2. o \in Orgs
        BY <1>1, <1>3 DEF Tables, ContractRows
    <2>3. CASE RoleOrg[r] = Zone
        <3>1. r \in ReaderRoles(h, perm, Zone)
            BY <2>1, <2>3 DEF ReaderRoles
        <3> QED BY <3>1, <1>2 DEF SeesAll, Interactive
    <2>4. CASE RoleOrg[r] = o
        <3>1. r \in ReaderRoles(h, perm, o)
            BY <2>1, <2>4 DEF ReaderRoles
        <3> QED BY <3>1, <1>2, <1>3, <2>2 DEF SeesOf
    <2> QED BY <2>1, <2>3, <2>4
<1>4. CASE a \in OrgWallets(q, FullOrgs(h, extra))
    BY <1>2, <1>4, OrgWalletsSeen
<1> QED BY <1>3, <1>4 DEF OrgVisible

LEMMA VisibleAddressesSeen ==
    ASSUME NEW w, NEW h, NEW p, Lived(w, h, p), NEW q \in Torn(w), NEW perm, NEW a \in VisibleAddresses(q, h)
    PROVE  a \in Associated(q, h) \/ SeesOf(q, h, perm, a)
<1> SUFFICES ASSUME a \in OrgWallets(q, FullOrgs(h, {})), h.is # "tenant", RpcEnabled(h)
             PROVE  SeesOf(q, h, perm, a)
    BY DEF VisibleAddresses
<1>1. FullOrgs(h, {}) # {}
    BY DEF OrgWallets, WalletsOf, LiveMembers
<1>2. h.is # "anonymous"
    BY <1>1, Loaded DEF FullOrgs
<1>3. Interactive(h)
    BY <1>2, InteractiveIs, Loaded
<1> QED BY <1>3, OrgWalletsSeen

------------------------------------------------------------------------------
(* Logs and transactions *)

LEMMA LogSeen ==
    ASSUME NEW w, NEW h, NEW p, Lived(w, h, p), NEW q \in Torn(w),
           NEW l \in [contract : Contracts, topic : Topics], MayReadLog(q, h, l)
    PROVE  SeesLog(AsLoaded(p, q, h), h, l)
<1> DEFINE v == AsLoaded(p, q, h)
<1>1. q \in Tables /\ h.roles \subseteq Roles
    BY TornTyped, Loaded DEF Lived
<1>2. v.contracts = q.contracts /\ v.grants = q.grants /\ (h.is \notin Users => v = q)
    BY DEF AsLoaded
<1>3. CASE l.contract \in FullyVisibleContracts(q, h)
    <2> DEFINE org == q.contracts[l.contract].org
    <2>1. org \in FullOrgs(h, {"rpc_read_eth_getLogs"}) /\ h.is # "tenant" /\ l.contract \notin Reserved
        BY <1>3 DEF FullyVisibleContracts
    <2>2. PICK r \in h.roles : (ReadPermissions \cup {"rpc_read_eth_getLogs"}) \cap Permissions[r] # {} /\ RoleOrg[r] = org /\ org # Zone
        BY <2>1 DEF FullOrgs
    <2>3. r \in ReaderRoles(h, "rpc_read_eth_getLogs", org)
        BY <2>2 DEF ReaderRoles
    <2>4. Interactive(h)
        BY <2>1, InteractiveIs DEF MayReadLog, Filters
    <2> QED BY <1>2, <2>1, <2>2, <2>3, <2>4 DEF SeesLog
<1>4. CASE \E perm \in PermissionsOn(q, h, {l.contract}) :
             InScope(q, h, perm) /\ TopicMatches(ReaderWallets(q, h, perm), perm.topic, l.topic)
    <2>1. PICK perm \in PermissionsOn(q, h, {l.contract}) :
             InScope(q, h, perm) /\ TopicMatches(ReaderWallets(q, h, perm), perm.topic, l.topic)
        BY <1>4
    <2>2. /\ perm \in q.grants.events /\ perm.contract = l.contract /\ perm.roles \cap h.roles # {}
          /\ perm.topic \in Topics \cup {Any, "userAddress"} /\ perm.orgOnly \in BOOLEAN
        BY <1>1 DEF PermissionsOn, Tables, Grants
    <2> DEFINE org == q.contracts[l.contract].org
               ownOnly == MultiOrg /\ perm.orgOnly /\ org # Zone
               within == {u \in ActsFor(v, h) : h.is \in Users \cup {"m2m_app"} /\ v.people.user[u].org = org}
    <2>3. Interactive(h) \/ h.is = "tenant"
        BY InteractiveIs DEF MayReadLog, Filters
    <2>4. ownOnly => IF h.is = "m2m_app" THEN org \in Linked(q) ELSE h.is \in Users /\ h.org = org
        BY <2>1, <2>2 DEF InScope, ContractOrg
    <2>5. ownOnly /\ h.is # "m2m_app" => within = {h.is}
        <3> HAVE ownOnly /\ h.is # "m2m_app"
        <3>1. h.is \in Users /\ h.org = org
            BY <2>4
        <3>2. v.people = p.people /\ h.org = p.people.user[h.is].org
            BY <3>1, Loaded DEF AsLoaded
        <3>3. ActsFor(v, h) = {h.is}
            BY <3>1, RpcPolicyAssumption DEF ActsFor
        <3> QED BY <3>1, <3>2, <3>3
    <2>6. ownOnly => within # {} \/ (h.is = "m2m_app" /\ org \in v.people.app.linked \ v.people.deleted)
        BY <2>4, <2>5, <1>2, RpcPolicyAssumption DEF Linked
    <2>7. perm.topic = "userAddress" => l.topic \in ReaderWallets(q, h, perm)
        BY <2>1, RpcPolicyAssumption DEF TopicMatches
    <2>8. l.topic \in ReaderWallets(q, h, perm) =>
             \E u \in IF ownOnly THEN within ELSE ActsFor(v, h) : l.topic \in v.people.user[u].wallets
        <3> HAVE l.topic \in ReaderWallets(q, h, perm)
        <3>1. CASE h.is = "m2m_app" /\ ownOnly
            <4>1. l.topic \in WalletsOf(q, LiveMembers(q, {org})) /\ v = q /\ h.is \notin Users
                BY <3>1, <2>2, <1>2, RpcPolicyAssumption DEF ReaderWallets, ContractOrg
            <4>2. PICK u \in Users : u \in LiveMembers(q, {org}) /\ l.topic \in q.people.user[u].wallets
                BY <4>1 DEF WalletsOf, LiveMembers
            <4>3. q.people.user[u].org = org
                BY <4>2 DEF LiveMembers
            <4>4. org \in q.people.app.linked \ q.people.deleted
                BY <2>4, <3>1 DEF Linked
            <4>5. u \in ActsFor(v, h)
                BY <4>1, <4>2, <4>3, <4>4, <2>3, <3>1 DEF ActsFor, Interactive
            <4> QED BY <3>1, <4>1, <4>2, <4>3, <4>5
        <3>2. CASE ~(h.is = "m2m_app" /\ ownOnly)
            <4>1. l.topic \in Own(v, h)
                BY <3>2, <2>2, AssociatedOwn DEF ReaderWallets, ContractOrg
            <4>2. PICK u \in ActsFor(v, h) : l.topic \in v.people.user[u].wallets
                BY <4>1 DEF Own
            <4>3. ownOnly => u \in within
                <5> HAVE ownOnly
                <5>1. h.is \in Users
                    BY <2>4, <3>2
                <5>2. ActsFor(v, h) = {h.is}
                    BY <5>1, RpcPolicyAssumption DEF ActsFor
                <5> QED BY <5>1, <5>2, <4>2, <2>5, <3>2
            <4> QED BY <4>2, <4>3
        <3> QED BY <3>1, <3>2
    <2>9. perm.topic \in {Any, "userAddress", l.topic}
        BY <2>1 DEF TopicMatches
    <2>10. perm \in v.grants.events /\ v.contracts[l.contract].org = org
        BY <1>2, <2>2
    <2> HIDE DEF v, ownOnly, within, org
    <2> QED BY <2>2, <2>3, <2>6, <2>7, <2>8, <2>9, <2>10 DEF SeesLog, v, ownOnly, within, org
<1> QED BY <1>3, <1>4 DEF MayReadLog

\* Whoever may read everything under a permission is told nothing unseen.
LEMMA AllTold ==
    ASSUME NEW w, NEW h, NEW p, Lived(w, h, p), NEW perm, SeesAll(h, perm), NEW f, f.what \in TxFacts
    PROVE  Told(w, h, perm, f)
<1>1. p \in Tables
    BY Loaded
<1>2. p.people \in {x.people : x \in w} /\ p.contracts \in {x.contracts : x \in w} /\ p.grants \in {x.grants : x \in w}
    BY DEF Lived
<1>3. p \in Torn(w)
    BY <1>1, <1>2 DEF Torn, Tables
<1> QED BY <1>3 DEF Told, Knows

LEMMA ReadsAll ==
    ASSUME NEW h, NEW perm, FullRead(h) \/ MethodRead(h, perm)
    PROVE  SeesAll(h, perm)
<1>1. PICK r \in h.roles : RoleOrg[r] = Zone /\ ({"full_read_access", perm} \cap Permissions[r] # {})
    BY DEF FullRead, MethodRead, ZoneHas
<1>2. r \in ReaderRoles(h, perm, Zone)
    BY <1>1 DEF ReaderRoles, ReadPermissions
<1> QED BY <1>2 DEF SeesAll, FullRead, MethodRead

LEMMA EverythingIs ==
    ASSUME NEW t, NEW f \in Everything(t)
    PROVE  f.of = t /\ f.what \in TxFacts
BY DEF Everything, Head, Input, LogsOf, LogFact, TxFacts

\* A party of a transaction that is the caller's, or that it sees, tells all of it.
LEMMA PartyTold ==
    ASSUME NEW w, NEW h, NEW p, Lived(w, h, p), NEW perm, NEW q \in Torn(w), NEW t,
           NEW a \in Parties(t), a \in Associated(q, h) \/ SeesOf(q, h, perm, a), NEW f \in Everything(t)
    PROVE  Told(w, h, perm, f)
<1>1. a \in {TxOf[t].from, TxOf[t].to} /\ f.of = t /\ f.what \in TxFacts
    BY EverythingIs DEF Parties
<1>2. CASE a \in Associated(q, h)
    <2>1. a \in Own(AsLoaded(p, q, h), h) /\ AsLoaded(p, q, h) \in Torn(w)
        BY <1>2, AssociatedOwn, TornHolds
    <2> QED BY <1>1, <2>1 DEF Told, Knows, ConcernsIt
<1>3. CASE SeesOf(q, h, perm, a)
    BY <1>1, <1>3 DEF Told, Knows, ConcernsIt
<1> QED BY <1>2, <1>3

LEMMA OrgTold ==
    ASSUME NEW w, NEW h, NEW p, Lived(w, h, p), NEW perm, NEW q \in Torn(w), NEW t, NEW extra, extra \subseteq {perm},
           NEW users \in BOOLEAN, NEW a \in Parties(t), OrgVisible(q, h, a, users, extra), NEW f \in Everything(t)
    PROVE  Told(w, h, perm, f)
<1>1. SeesAll(h, perm) \/ SeesOf(q, h, perm, a)
    BY OrgVisibleSeen
<1> QED BY <1>1, AllTold, PartyTold, EverythingIs

\* The filter of transactions tells what some policy tells.
LEMMA FilterTxTold ==
    ASSUME NEW w, NEW h, NEW p, Lived(w, h, p), NEW q \in Torn(w), NEW q1 \in Torn(w), NEW perm,
           NEW t \in mined, mined \subseteq Txs,
           NEW assoc, \A a \in assoc : a \in Associated(q1, h) \/ SeesOf(q1, h, perm, a),
           NEW f \in FilterTx(q, h, t, assoc)
    PROVE  Told(w, h, perm, f)
<1> DEFINE visible == {l \in TxOf[t].logs : MayReadLog(q, h, l)}
<1>1. CASE Parties(t) \cap assoc # {}
    <2>1. PICK a \in Parties(t) : a \in assoc
        BY <1>1
    <2>2. f \in Everything(t)
        BY <1>1 DEF FilterTx
    <2> QED BY <2>1, <2>2, PartyTold
<1>2. CASE TxOf[t].to # NoOne /\ OrgVisible(q, h, TxOf[t].to, FALSE, {})
    <2>1. TxOf[t].to \in Parties(t) /\ f \in Everything(t)
        BY <1>2 DEF FilterTx, Parties
    <2> QED BY <1>2, <2>1, OrgTold
<1>3. CASE /\ ~(Parties(t) \cap assoc # {}) /\ ~(TxOf[t].to # NoOne /\ OrgVisible(q, h, TxOf[t].to, FALSE, {}))
    <2>1. visible # {} /\ f \in {Head(t)} \cup LogsOf(t, visible)
        BY <1>3 DEF FilterTx
    <2>2. \A l \in visible : l \in TxOf[t].logs /\ SeesLog(AsLoaded(p, q, h), h, l)
        <3> TAKE l \in visible
        <3>1. l \in [contract : Contracts, topic : Topics]
            BY RpcReadsAssumption
        <3> QED BY <3>1, LogSeen
    <2>3. AsLoaded(p, q, h) \in Torn(w)
        BY TornHolds
    <2> HIDE DEF visible
    <2>4. CASE f = Head(t)
        <3>1. PICK l \in visible : TRUE
            BY <2>1
        <3>2. f.what = "head" /\ f.of = t
            BY <2>4 DEF Head
        <3> QED BY <2>2, <2>3, <3>1, <3>2 DEF Told, Knows, TxFacts
    <2>5. CASE f \in LogsOf(t, visible)
        <3>1. PICK l \in visible : f = LogFact(t, l)
            BY <2>5 DEF LogsOf
        <3>2. f.what = "log" /\ f.log = l
            BY <3>1 DEF LogFact
        <3> QED BY <2>2, <2>3, <3>1, <3>2 DEF Told, Knows, TxFacts
    <2> QED BY <2>1, <2>4, <2>5
<1> QED BY <1>1, <1>2, <1>3

------------------------------------------------------------------------------
(* The methods that read transactions *)

LEMMA ByHashTold ==
    ASSUME NEW w, NEW h, NEW p, Lived(w, h, p), NEW q1 \in Torn(w), NEW q2 \in Torn(w), mined \subseteq Txs,
           NEW t, NEW f \in ByHash(q1, q2, h, t)
    PROVE  Told(w, h, "rpc_read_eth_getTransactionByHash", f)
<1> DEFINE perm == "rpc_read_eth_getTransactionByHash"
<1>1. CASE (FullRead(h) \/ MethodRead(h, perm)) /\ f \in Everything(t)
    BY <1>1, ReadsAll, AllTold, EverythingIs
<1>2. CASE VisibleByOrg(q2, h, t, perm) /\ f \in Everything(t)
    BY <1>2, OrgTold DEF VisibleByOrg
<1>3. CASE Parties(t) \cap Associated(q1, h) # {} /\ f \in Everything(t)
    BY <1>3, PartyTold
<1>4. CASE t \in mined /\ f \in FilterTx(q2, h, t, Associated(q1, h))
    BY <1>4, FilterTxTold
<1> QED BY <1>1, <1>2, <1>3, <1>4 DEF ByHash, Only

LEMMA ReceiptTold ==
    ASSUME NEW w, NEW h, NEW p, Lived(w, h, p), NEW q1 \in Torn(w), NEW q2 \in Torn(w), mined \subseteq Txs,
           NEW t, NEW f \in Receipt(q1, q2, h, t)
    PROVE  Told(w, h, "rpc_read_eth_getTransactionReceipt", f)
<1> DEFINE perm == "rpc_read_eth_getTransactionReceipt"
<1>1. CASE (FullRead(h) \/ MethodRead(h, perm)) /\ f \in Everything(t)
    BY <1>1, ReadsAll, AllTold, EverythingIs
<1>2. CASE VisibleByOrg(q2, h, t, perm) /\ f \in Everything(t)
    BY <1>2, OrgTold DEF VisibleByOrg
<1>3. CASE t \in mined /\ f \in FilterTx(q2, h, t, Associated(q1, h))
    BY <1>3, FilterTxTold
<1> QED BY <1>1, <1>2, <1>3 DEF Receipt, Only

LEMMA FilterBlockTold ==
    ASSUME NEW w, NEW h, NEW p, Lived(w, h, p), NEW q1 \in Torn(w), NEW q2 \in Torn(w), mined \subseteq Txs,
           NEW perm, NEW f \in FilterBlock(q1, q2, h)
    PROVE  Told(w, h, perm, f)
<1>1. PICK t \in mined : f \in FilterTx(q2, h, t, VisibleAddresses(q1, h))
    BY DEF FilterBlock
<1> QED BY <1>1, FilterTxTold, VisibleAddressesSeen

LEMMA FilterPendingTold ==
    ASSUME NEW w, NEW h, NEW p, Lived(w, h, p), NEW q \in Torn(w), NEW perm, NEW f \in FilterPending(q, h)
    PROVE  Told(w, h, perm, f)
<1>1. PICK t \in Txs : f \in Everything(t) /\ Parties(t) \cap VisibleAddresses(q, h) # {}
    BY DEF FilterPending
<1> QED BY <1>1, PartyTold, VisibleAddressesSeen

\* What a method tells that lists the facts of some transactions to whoever may read them all.
LEMMA AnyOfAll ==
    ASSUME NEW w, NEW h, NEW p, Lived(w, h, p), NEW perm, FullRead(h) \/ MethodRead(h, perm),
           NEW T, NEW f \in UNION {Everything(t) : t \in T}
    PROVE  Told(w, h, perm, f)
BY ReadsAll, AllTold, EverythingIs

LEMMA ListsTold ==
    ASSUME NEW w, NEW h, NEW p, Lived(w, h, p), NEW q1 \in Torn(w), NEW q2 \in Torn(w), mined \subseteq Txs, NEW f
    PROVE  /\ f \in Block(q1, q2, h, TRUE) => Told(w, h, "rpc_read_eth_getBlockByNumber", f)
           /\ f \in Block(q1, q2, h, FALSE) => Told(w, h, "full_read_access", f)
           /\ f \in PendingBlock(q1, h) => Told(w, h, "rpc_read_eth_getBlockByNumber", f)
           /\ \A b : f \in Count(q1, q2, h, b) => Told(w, h, "full_read_access", f)
           /\ f \in BlockReceipts(q1, q2, h) => Told(w, h, "full_read_access", f)
<1>1. \A perm : f \in FilterBlock(q1, q2, h) => Told(w, h, perm, f)
    BY FilterBlockTold
<1>2. \A perm : f \in FilterPending(q1, h) => Told(w, h, perm, f)
    BY FilterPendingTold
<1>3. \A perm, T : (FullRead(h) \/ MethodRead(h, perm)) /\ f \in UNION {Everything(t) : t \in T} => Told(w, h, perm, f)
    BY AnyOfAll
<1>4. f \in Block(q1, q2, h, TRUE) => Told(w, h, "rpc_read_eth_getBlockByNumber", f)
    BY <1>1, <1>3 DEF Block, Only
<1>5. f \in Block(q1, q2, h, FALSE) => Told(w, h, "full_read_access", f)
    BY <1>1, <1>3 DEF Block, Only
<1>6. f \in PendingBlock(q1, h) => Told(w, h, "rpc_read_eth_getBlockByNumber", f)
    BY <1>2, <1>3 DEF PendingBlock, Only
<1>7. ASSUME NEW b, f \in Count(q1, q2, h, b) PROVE Told(w, h, "full_read_access", f)
    BY <1>1, <1>2, <1>3, <1>7 DEF Count, Only
<1>8. f \in BlockReceipts(q1, q2, h) => Told(w, h, "full_read_access", f)
    BY <1>1, <1>3 DEF BlockReceipts, Only
<1> QED BY <1>4, <1>5, <1>6, <1>7, <1>8

LEMMA GetLogsTold ==
    ASSUME NEW w, NEW h, NEW p, Lived(w, h, p), NEW q1 \in Torn(w), NEW q2 \in Torn(w), mined \subseteq Txs,
           NEW filter, NEW f \in GetLogs(q1, q2, h, filter)
    PROVE  Told(w, h, "rpc_read_eth_getLogs", f)
<1> DEFINE all == FullRead(h) \/ MethodRead(h, "rpc_read_eth_getLogs")
<1>1. PICK t \in mined : f \in LogsOf(t, {l \in TxOf[t].logs : Selects(filter, l) /\ (all \/ MayReadLog(q2, h, l))})
    BY DEF GetLogs
<1>2. PICK l \in TxOf[t].logs : f = LogFact(t, l) /\ (all \/ MayReadLog(q2, h, l))
    BY <1>1 DEF LogsOf
<1>3. f.what = "log" /\ f.log = l /\ f.what \in TxFacts
    BY <1>2 DEF LogFact, TxFacts
<1>4. CASE all
    BY <1>3, <1>4, ReadsAll, AllTold
<1>5. CASE MayReadLog(q2, h, l)
    <2>1. l \in [contract : Contracts, topic : Topics]
        BY RpcReadsAssumption
    <2>2. SeesLog(AsLoaded(p, q2, h), h, l)
        BY <1>5, <2>1, LogSeen
    <2> QED BY <1>3, <2>2, TornHolds DEF Told, Knows
<1> QED BY <1>2, <1>4, <1>5

------------------------------------------------------------------------------
(* The other methods, and what Entitled makes of the facts *)

LEMMA ToldEntitled ==
    ASSUME NEW w, NEW h, NEW item, NEW f, Told(w, h, PermissionFor(item.method), f)
    PROVE  \E q \in Torn(w) : Entitled(q, h, item, f)
BY DEF Told, Knows, Entitled, TxFacts

LEMMA AllEntitled ==
    ASSUME NEW w, NEW h, NEW p, Lived(w, h, p), NEW item, SeesAll(h, PermissionFor(item.method)),
           NEW f, f.what \notin {"call", "operation", "disclosed"}
    PROVE  \E q \in Torn(w) : Entitled(q, h, item, f)
<1>1. p \in Tables
    BY Loaded
<1>2. p.people \in {x.people : x \in w} /\ p.contracts \in {x.contracts : x \in w} /\ p.grants \in {x.grants : x \in w}
    BY DEF Lived
<1>3. p \in Torn(w)
    BY <1>1, <1>2 DEF Torn, Tables
<1> QED BY <1>3 DEF Entitled

LEMMA FullSequencerAll ==
    ASSUME NEW h, FullSequencer(h), NEW perm
    PROVE  SeesAll(h, perm)
BY DEF FullSequencer, ZoneHas, SeesAll

LEMMA AccountEntitled ==
    ASSUME NEW w, NEW h, NEW p, Lived(w, h, p), NEW q1 \in Torn(w), NEW q2 \in Torn(w), NEW item,
           item.method \in {"eth_getCode", "eth_getBalance"}, NEW a,
           NEW f \in Account(q1, q2, h, a, item.method = "eth_getCode")
    PROVE  \E q \in Torn(w) : Entitled(q, h, item, f)
<1>1. f = [what |-> "account", of |-> a]
    BY DEF Account
<1>2. f.what = "account" /\ f.of = a
    BY <1>1
<1>3. PermissionFor(item.method) = "full_read_access"
    BY DEF PermissionFor
<1>4. \A q \in Torn(w) : /\ AsLoaded(p, q, h) \in Torn(w)
                          /\ Associated(q, h) = Own(AsLoaded(p, q, h), h)
                          /\ AsLoaded(p, q, h).contracts = q.contracts
    BY TornHolds, AssociatedOwn DEF AsLoaded
<1>5. CASE a \in PublicCode
    BY <1>2, <1>4, <1>5 DEF Entitled, Account
<1>6. CASE Owns(q1, h, a)
    BY <1>2, <1>3, <1>4, <1>6, FullSequencerAll, AllEntitled DEF Entitled, Owns
<1>7. CASE Authored(q2, h, a)
    BY <1>2, <1>4, <1>7 DEF Entitled, Authored
<1>8. CASE OrgVisible(q2, h, a, TRUE, {})
    <2>1. SeesAll(h, "full_read_access") \/ SeesOf(q2, h, "full_read_access", a)
        BY <1>8, OrgVisibleSeen
    <2> QED BY <1>2, <1>3, <2>1, AllEntitled DEF Entitled
<1>9. CASE \E n \in Associated(q1, h) : NextOf[n] = a
    BY <1>2, <1>4, <1>9 DEF Entitled
<1> QED BY <1>5, <1>6, <1>7, <1>8, <1>9 DEF Account

LEMMA DisclosureEntitled ==
    ASSUME NEW w, w \subseteq Policies, NEW h, NEW q \in Torn(w), NEW item, item.block \in Nat,
           NEW f \in Disclosure(q, item)
    PROVE  Entitled(q, h, item, f)
<1> DEFINE a == item.address
<1>1. a \in Contracts /\ q.contracts[a].from =< item.block
    BY DEF Disclosure, AccountData, TokenSupply, TokenBalance, Disclosed, BytecodeConfig, SupplyConfig, BalanceConfig
<1>2. q.contracts[a].from \in 0..item.block
    BY <1>1, TornTyped DEF Tables, ContractRows
<1>3. \E holder : /\ f = [what |-> "disclosed", of |-> a, holder |-> holder, block |-> item.block]
                  /\ holder \in q.contracts[a].discloses \cup q.contracts[a].holders
    BY DEF Disclosure, AccountData, TokenSupply, TokenBalance, Disclosed, BytecodeConfig, SupplyConfig, BalanceConfig
<1> QED BY <1>2, <1>3 DEF Entitled

LEMMA OperationEntitled ==
    ASSUME NEW w, NEW h, NEW p, Lived(w, h, p), NEW q \in Torn(w), NEW item, NEW sender,
           NEW f \in GetUserOperation(q, h, sender)
    PROVE  \E v \in Torn(w) : Entitled(v, h, item, f)
<1>1. f.what = "operation" /\ f.of \in Associated(q, h)
    BY DEF GetUserOperation
<1> QED BY <1>1, TornHolds, AssociatedOwn DEF Entitled

LEMMA ForwardsOnly ==
    ASSUME NEW q1, NEW q2, NEW h, NEW item, NEW f
    PROVE  /\ f \in EthCall(q1, q2, h, item.from, item.to, item.data) => f.what = "call"
           /\ f \in UserOperation(q1, q2, h, item.op) => f.what = "call"
           /\ f \in SendRaw(q1, q2, h, item.tx) =>
                \/ f.what = "call"
                \/ f.what = "transfer" /\ TxOf[f.of].to \notin Contracts /\ TxOf[item.tx].to # NoOne
BY DEF EthCall, UserOperation, SendRaw, CallFact, Plain

LEMMA RegularEntitled ==
    ASSUME NEW w, NEW h, NEW p, Lived(w, h, p), NEW q1 \in Torn(w), NEW q2 \in Torn(w), mined \subseteq Txs,
           NEW item \in Items, NEW f \in Regular(q1, q2, h, item), f.what # "call"
    PROVE  \E q \in Torn(w) : Entitled(q, h, item, f)
<1> DEFINE m == item.method
<1>1. CASE m = "eth_getTransactionByHash"
    <2>1. f \in ByHash(q1, q2, h, item.tx)
        BY <1>1 DEF Regular
    <2> QED BY <1>1, <2>1, ByHashTold, ToldEntitled DEF PermissionFor
<1>2. CASE m = "eth_getTransactionReceipt"
    <2>1. f \in Receipt(q1, q2, h, item.tx)
        BY <1>2 DEF Regular
    <2> QED BY <1>2, <2>1, ReceiptTold, ToldEntitled DEF PermissionFor
<1>3. CASE m = "eth_getBlockByNumber"
    <2>1. f \in Block(q1, q2, h, TRUE)
        BY <1>3 DEF Regular
    <2> QED BY <1>3, <2>1, ListsTold, ToldEntitled DEF PermissionFor
<1>4. CASE m = "eth_getBlockByHash"
    <2>1. f \in Block(q1, q2, h, FALSE)
        BY <1>4 DEF Regular
    <2> QED BY <1>4, <2>1, ListsTold, ToldEntitled DEF PermissionFor
<1>5. CASE m = "pending"
    <2>1. f \in PendingBlock(q1, h)
        BY <1>5 DEF Regular
    <2> QED BY <1>5, <2>1, ListsTold, ToldEntitled DEF PermissionFor
<1>6. CASE m = "eth_getBlockTransactionCountByNumber"
    <2>1. f \in Count(q1, q2, h, item.pending)
        BY <1>6 DEF Regular
    <2> QED BY <1>6, <2>1, ListsTold, ToldEntitled DEF PermissionFor
<1>7. CASE m = "eth_getBlockReceipts"
    <2>1. f \in BlockReceipts(q1, q2, h)
        BY <1>7 DEF Regular
    <2> QED BY <1>7, <2>1, ListsTold, ToldEntitled DEF PermissionFor
<1>8. CASE m = "eth_getLogs"
    <2>1. f \in GetLogs(q1, q2, h, item.filter)
        BY <1>8 DEF Regular
    <2> QED BY <1>8, <2>1, GetLogsTold, ToldEntitled DEF PermissionFor
<1>9. CASE m \in {"eth_getCode", "eth_getBalance"}
    <2>1. f \in Account(q1, q2, h, item.address, m = "eth_getCode")
        BY <1>9 DEF Regular
    <2> QED BY <1>9, <2>1, AccountEntitled
<1>10. CASE m = "eth_newFilter"
    <2>1. FullRead(h) /\ f = AnyFact
        BY <1>10 DEF Regular
    <2> QED BY <2>1, ReadsAll, AllEntitled DEF AnyFact
<1>11. CASE m = "eth_getUserOperationByHash"
    <2>1. f \in GetUserOperation(q1, h, item.sender)
        BY <1>11 DEF Regular
    <2> QED BY <2>1, OperationEntitled
<1>12. CASE m = "disclosure"
    <2>1. f \in Disclosure(q1, item) /\ item.block \in Nat
        BY <1>12, RpcReadsAssumption DEF Regular
    <2> QED BY <2>1, DisclosureEntitled DEF Lived
<1>13. CASE m \in {"eth_call", "eth_sendUserOperation", "eth_sendRawTransaction"}
    <2>1. f \in SendRaw(q1, q2, h, item.tx)
        BY <1>13, ForwardsOnly DEF Regular
    <2>2. f.what = "transfer" /\ TxOf[f.of].to \notin Contracts
        BY <2>1, ForwardsOnly
    <2> QED BY <2>2 DEF Entitled
<1>14. CASE m \notin {"eth_getTransactionByHash", "eth_getTransactionReceipt", "eth_getBlockByNumber",
                      "eth_getBlockByHash", "pending", "eth_getBlockTransactionCountByNumber", "eth_getBlockReceipts",
                      "eth_getLogs", "eth_getCode", "eth_getBalance", "eth_newFilter", "eth_getUserOperationByHash",
                      "disclosure", "eth_call", "eth_sendUserOperation", "eth_sendRawTransaction"}
    BY <1>14 DEF Regular
<1> QED BY <1>1, <1>2, <1>3, <1>4, <1>5, <1>6, <1>7, <1>8, <1>9, <1>10, <1>11, <1>12, <1>13, <1>14

LEMMA FullAccessEntitled ==
    ASSUME NEW w, NEW h, NEW p, Lived(w, h, p), NEW q1 \in Torn(w), NEW q2 \in Torn(w), FullSequencer(h),
           NEW item \in Items, NEW f \in FullAccess(q1, q2, h, item), f.what # "call"
    PROVE  \E q \in Torn(w) : Entitled(q, h, item, f)
<1>1. CASE item.method = "disclosure"
    <2>1. f \in Disclosure(q1, item) /\ item.block \in Nat
        BY <1>1, RpcReadsAssumption DEF FullAccess
    <2> QED BY <2>1, DisclosureEntitled DEF Lived
<1>2. CASE item.method # "disclosure"
    <2>1. f = AnyFact
        BY <1>2, ForwardsOnly DEF FullAccess, Broadcast
    <2> QED BY <2>1, FullSequencerAll, AllEntitled DEF AnyFact
<1> QED BY <1>1, <1>2

------------------------------------------------------------------------------
(* What is forwarded *)

\* What SentByOwn says of one call.
Sends(w, h, f) ==
    \E q1, q2 \in Torn(w) : \E u \in Users :
        /\ \/ u \in ActsAs(q1, q2, h, f.from)
           \/ u = h.is /\ f.to = NoOne /\ FullSequencer(h)
        /\ LET roles == IF u = h.is THEN h.roles ELSE q2.people.user[u].roles
           IN  \E r \in roles :
                 IF f.to = NoOne
                 THEN {"contract_deployment", "full_sequencer_rpc_access"} \cap Permissions[r] # {}
                 ELSE <<r, f.to>> \in q2.grants.calls

\* What SentByOwn says of what an item has forwarded.
Forwards(w, h, item, f) ==
    \/ OpenRead(item, f)
    \/ /\ item.method = "eth_sendUserOperation" /\ f.data = "none"
       /\ \E q \in Torn(w), u \in Users : u \in ActsAs(q, q, h, f.from)
    \/ Sends(w, h, f)

LEMMA OwnWallet ==
    ASSUME NEW w, NEW h, NEW p, Lived(w, h, p), NEW q \in Torn(w), h.is \in Users, NEW from \in h.wallets, NEW q2
    PROVE  h.is \in ActsAs(AsLoaded(p, q, h), q2, h, from)
<1>1. from \in AsLoaded(p, q, h).people.user[h.is].wallets
    BY Loaded DEF AsLoaded
<1> QED BY <1>1 DEF ActsAs, ActsFor

LEMMA UserAssociated ==
    ASSUME NEW q, NEW h, h.is \in Users
    PROVE  Associated(q, h) = h.wallets
BY RpcPolicyAssumption DEF Associated

LEMMA LinkedSigner ==
    ASSUME NEW w, NEW h, NEW p, Lived(w, h, p), NEW q \in Torn(w), h.is = "m2m_app", RpcEnabled(h),
           NEW from, NEW u \in Signer(q, LiveMembers(q, Linked(q)), from), NEW q2
    PROVE  u \in Users /\ u # h.is /\ u \in ActsAs(q, q2, h, from)
<1>1. u \in Users /\ u # h.is /\ from \in q.people.user[u].wallets /\ q.people.user[u].org \in Linked(q)
    BY RpcPolicyAssumption DEF Signer, LiveMembers
<1>2. u \in ActsFor(q, h)
    BY <1>1 DEF ActsFor, Linked, RpcEnabled, Has
<1> QED BY <1>1, <1>2 DEF ActsAs

LEMMA DeploymentSent ==
    ASSUME NEW w, NEW h, NEW p, Lived(w, h, p), NEW q1 \in Torn(w), NEW q2 \in Torn(w), NEW f, f.to = NoOne,
           AuthorizesDeployment(q1, q2, h, f.from)
    PROVE  Sends(w, h, f)
<1> DEFINE deploys == {"contract_deployment", "full_sequencer_rpc_access"}
<1>1. CASE h.is \in Users /\ Owns(q1, h, f.from) /\ MayDeploy(h)
    <2>1. PICK r \in h.roles : deploys \cap Permissions[r] # {}
        BY <1>1 DEF MayDeploy, Has
    <2>2. FullSequencer(h) \/ h.is \in ActsAs(AsLoaded(p, q1, h), q2, h, f.from)
        <3>1. h.is \in Users /\ Owns(q1, h, f.from)
            BY <1>1
        <3>2. Associated(q1, h) = h.wallets
            BY <3>1, UserAssociated
        <3> QED BY <3>1, <3>2, OwnWallet DEF Owns
    <2> QED BY <1>1, <2>1, <2>2, TornHolds DEF Sends
<1>2. CASE /\ h.is = "m2m_app" /\ RpcEnabled(h)
           /\ \E u \in Signer(q1, LiveMembers(q1, Linked(q1)), f.from) : MayDeploy([roles |-> q2.people.user[u].roles])
    <2>1. PICK u \in Signer(q1, LiveMembers(q1, Linked(q1)), f.from) : MayDeploy([roles |-> q2.people.user[u].roles])
        BY <1>2
    <2>2. PICK r \in q2.people.user[u].roles : deploys \cap Permissions[r] # {}
        BY <2>1 DEF MayDeploy, Has
    <2>3. u \in Users /\ u # h.is /\ u \in ActsAs(q1, q2, h, f.from)
        BY <1>2, LinkedSigner
    <2> QED BY <2>2, <2>3 DEF Sends
<1> QED BY <1>1, <1>2 DEF AuthorizesDeployment

LEMMA CallSent ==
    ASSUME NEW w, NEW h, NEW p, Lived(w, h, p), NEW q1 \in Torn(w), NEW q2 \in Torn(w), NEW f,
           MayCall(q1, q2, h, f.from, f.to)
    PROVE  Sends(w, h, f)
<1>1. q1 \in Tables /\ q2 \in Tables
    BY TornTyped DEF Lived
<1>2. \A roles : Granted(q2, roles, f.to) => f.to # NoOne /\ \E r \in roles : <<r, f.to>> \in q2.grants.calls
    BY <1>1, RpcPolicyAssumption DEF Granted, Tables, Grants
<1>3. CASE h.is \in Users /\ f.from \in h.wallets /\ Granted(q2, h.roles, f.to)
    <2>1. h.is \in ActsAs(AsLoaded(p, q1, h), q2, h, f.from)
        BY <1>3, OwnWallet
    <2> QED BY <1>2, <1>3, <2>1, TornHolds DEF Sends
<1>4. CASE /\ h.is = "tenant" /\ Signer(q1, q1.people.tenant.members, f.from) # {}
           /\ \E u \in Signer(q2, Users, f.from) : UserMayCall(q2, u, f.to)
    <2>1. PICK u \in Signer(q2, Users, f.from) : UserMayCall(q2, u, f.to)
        BY <1>4
    <2>2. PICK v \in Signer(q1, q1.people.tenant.members, f.from) : TRUE
        BY <1>4
    <2>3. v \in ActsFor(q1, h) /\ f.from \in q1.people.user[v].wallets
        BY <1>1, <1>4, <2>2 DEF Signer, ActsFor, Tables, People
    <2>4. f.from \in Own(q1, h)
        BY <2>3 DEF Own
    <2>5. u \in Users /\ u # h.is /\ u \in ActsAs(q1, q2, h, f.from)
        BY <1>4, <2>1, <2>4, RpcPolicyAssumption DEF Signer, ActsAs
    <2> QED BY <1>2, <2>1, <2>5 DEF Sends, UserMayCall
<1>5. CASE /\ h.is = "m2m_app" /\ RpcEnabled(h)
           /\ \E u \in Signer(q1, LiveMembers(q1, Linked(q1)), f.from) : UserMayCall(q2, u, f.to)
    <2>1. PICK u \in Signer(q1, LiveMembers(q1, Linked(q1)), f.from) : UserMayCall(q2, u, f.to)
        BY <1>5
    <2>2. u \in Users /\ u # h.is /\ u \in ActsAs(q1, q2, h, f.from)
        BY <1>5, LinkedSigner
    <2> QED BY <1>2, <2>1, <2>2 DEF Sends, UserMayCall
<1> QED BY <1>3, <1>4, <1>5 DEF MayCall

LEMMA SendRawSent ==
    ASSUME NEW w, NEW h, NEW p, Lived(w, h, p), NEW q1 \in Torn(w), NEW q2 \in Torn(w), NEW t,
           NEW f \in SendRaw(q1, q2, h, t), f.what = "call"
    PROVE  Sends(w, h, f)
<1>1. /\ f.from = TxOf[t].from /\ f.to = TxOf[t].to
      /\ \/ f.to = NoOne /\ AuthorizesDeployment(q1, q2, h, f.from)
         \/ MayCall(q1, q2, h, f.from, f.to)
    BY DEF SendRaw, Submits, CallFact
<1> QED BY <1>1, DeploymentSent, CallSent

LEMMA RegularSent ==
    ASSUME NEW w, NEW h, NEW p, Lived(w, h, p), NEW q1 \in Torn(w), NEW q2 \in Torn(w), mined \subseteq Txs,
           NEW item \in Items, NEW f \in Regular(q1, q2, h, item), f.what = "call"
    PROVE  Forwards(w, h, item, f)
<1> DEFINE m == item.method
<1>1. CASE m = "eth_call"
    <2>1. f \in EthCall(q1, q2, h, item.from, item.to, item.data)
        BY <1>1 DEF Regular
    <2>2. \/ f.to = NoOne /\ AuthorizesDeployment(q1, q2, h, f.from)
          \/ f.to # NoOne /\ f.data \in {"none", "domain"}
          \/ MayCall(q1, q2, h, f.from, f.to)
        BY <2>1 DEF EthCall, CallFact, whitelistedMethods
    <2>3. CASE f.to # NoOne /\ f.data \in {"none", "domain"}
        BY <1>1, <2>3 DEF Forwards, OpenRead
    <2> QED BY <2>2, <2>3, DeploymentSent, CallSent DEF Forwards
<1>2. CASE m = "eth_sendUserOperation"
    <2>1. f \in UserOperation(q1, q2, h, item.op)
        BY <1>2 DEF Regular
    <2>2. /\ f.from \in Associated(q1, h)
          /\ f.data = "none" \/ MayCall(q1, q2, h, f.from, f.to)
        BY <2>1 DEF UserOperation, CallFact
    <2>3. CASE f.data = "none"
        <3>1. f.from \in Own(AsLoaded(p, q1, h), h) /\ AsLoaded(p, q1, h) \in Torn(w)
            BY <2>2, AssociatedOwn, TornHolds
        <3>2. PICK u \in Users : u \in ActsAs(AsLoaded(p, q1, h), AsLoaded(p, q1, h), h, f.from)
            BY <3>1 DEF Own, ActsAs, ActsFor
        <3> QED BY <1>2, <2>3, <3>1, <3>2 DEF Forwards
    <2>4. CASE MayCall(q1, q2, h, f.from, f.to)
        BY <2>4, CallSent DEF Forwards
    <2> QED BY <2>2, <2>3, <2>4
<1>3. CASE m = "eth_sendRawTransaction"
    <2>1. f \in SendRaw(q1, q2, h, item.tx)
        BY <1>3 DEF Regular
    <2> QED BY <2>1, SendRawSent DEF Forwards
<1>4. CASE m \in {"eth_getTransactionByHash", "eth_getTransactionReceipt", "eth_getBlockByNumber",
                  "eth_getBlockByHash", "pending", "eth_getBlockTransactionCountByNumber", "eth_getBlockReceipts",
                  "eth_getLogs"}
    <2>1. \A perm : ~Told(w, h, perm, f)
        BY DEF Told, TxFacts
    <2>2. /\ m = "eth_getTransactionByHash" => f \in ByHash(q1, q2, h, item.tx)
          /\ m = "eth_getTransactionReceipt" => f \in Receipt(q1, q2, h, item.tx)
          /\ m = "eth_getBlockByNumber" => f \in Block(q1, q2, h, TRUE)
          /\ m = "eth_getBlockByHash" => f \in Block(q1, q2, h, FALSE)
          /\ m = "pending" => f \in PendingBlock(q1, h)
          /\ m = "eth_getBlockTransactionCountByNumber" => f \in Count(q1, q2, h, item.pending)
          /\ m = "eth_getBlockReceipts" => f \in BlockReceipts(q1, q2, h)
          /\ m = "eth_getLogs" => f \in GetLogs(q1, q2, h, item.filter)
        BY DEF Regular
    <2> QED BY <1>4, <2>1, <2>2, ByHashTold, ReceiptTold, ListsTold, GetLogsTold
<1>5. CASE m \notin {"eth_getTransactionByHash", "eth_getTransactionReceipt", "eth_getBlockByNumber",
                     "eth_getBlockByHash", "pending", "eth_getBlockTransactionCountByNumber", "eth_getBlockReceipts",
                     "eth_getLogs", "eth_call", "eth_sendUserOperation", "eth_sendRawTransaction"}
    <2>1. \A v, i : \A g \in Disclosure(v, i) : g.what = "disclosed"
        BY DEF Disclosure, AccountData, TokenSupply, TokenBalance, Disclosed
    <2>2. \A v, x : \A g \in GetUserOperation(v, h, x) : g.what = "operation"
        BY DEF GetUserOperation
    <2>4. CASE m \in {"eth_getCode", "eth_getBalance"}
        <3>1. f \in Account(q1, q2, h, item.address, m = "eth_getCode")
            BY <2>4 DEF Regular
        <3>2. f = [what |-> "account", of |-> item.address]
            BY <3>1 DEF Account
        <3> QED BY <3>2
    <2>5. CASE m = "disclosure"
        BY <2>1, <2>5 DEF Regular
    <2>6. CASE m = "eth_getUserOperationByHash"
        BY <2>2, <2>6 DEF Regular
    <2>7. CASE m = "eth_newFilter"
        <3>1. f = AnyFact
            BY <2>7 DEF Regular
        <3> QED BY <3>1 DEF AnyFact
    <2>8. CASE m \notin {"eth_getCode", "eth_getBalance", "disclosure", "eth_getUserOperationByHash", "eth_newFilter"}
        BY <1>5, <2>8 DEF Regular
    <2> QED BY <2>4, <2>5, <2>6, <2>7, <2>8
<1> QED BY <1>1, <1>2, <1>3, <1>4, <1>5

LEMMA FullAccessSent ==
    ASSUME NEW w, NEW h, NEW p, Lived(w, h, p), NEW q1 \in Torn(w), NEW q2 \in Torn(w), NEW item,
           NEW f \in FullAccess(q1, q2, h, item), f.what = "call"
    PROVE  Sends(w, h, f)
<1>1. \A v, i : \A g \in Disclosure(v, i) : g.what = "disclosed"
    BY DEF Disclosure, AccountData, TokenSupply, TokenBalance, Disclosed
<1>2. f \in SendRaw(q1, q2, h, item.tx)
    BY <1>1 DEF FullAccess, Broadcast, AnyFact
<1> QED BY <1>2, SendRawSent

------------------------------------------------------------------------------
(* The invariant *)

\* The caller is what one policy of the window makes of it.
Authentic == req # None => \E p \in req.window : Lived(req.window, req.h, p)
ReadsInv == TypeOK /\ Authentic

LEMMA HolderTyped ==
    ASSUME NEW q \in Policies, NEW c \in Callers
    PROVE  /\ Lived({q}, Holder(q, c), q)
           /\ Holder(q, c) \in [is : Callers, roles : SUBSET Roles, wallets : SUBSET Wallets, org : Orgs \cup {Zone}]
<1>1. Lived({q}, Holder(q, c), q)
    BY DEF Lived
<1> QED BY <1>1, Loaded

LEMMA ReadsKept ==
    ASSUME ReadsInv, [Next]_vars
    PROVE  ReadsInv'
<1> USE DEF ReadsInv
<1>1. CASE UNCHANGED vars
    BY <1>1 DEF vars, TypeOK, Authentic
<1>2. ASSUME NEW c \in Callers, Begin(c) PROVE ReadsInv'
    <2>1. req' = [item |-> "open", h |-> Holder(policy, c), window |-> {policy}]
        BY <1>2 DEF Begin
    <2>2. req'.h = Holder(policy, c) /\ req'.window = {policy} /\ policy' = policy /\ mined' = mined
        BY <2>1, <1>2 DEF Begin
    <2>3. policy \in Policies /\ mined \subseteq Txs
        BY DEF TypeOK
    <2>4. req' \in [item : {"open"}, window : SUBSET Policies,
                 h : [is : Callers, roles : SUBSET Roles, wallets : SUBSET Wallets, org : Orgs \cup {Zone}]]
        BY <2>1, <2>3, HolderTyped
    <2>5. TypeOK'
        BY <2>2, <2>3, <2>4 DEF TypeOK
    <2>6. Lived(req'.window, req'.h, policy) /\ policy \in req'.window
        BY <2>2, <2>3, HolderTyped
    <2> QED BY <2>5, <2>6 DEF Authentic
<1>3. ASSUME NEW e \in Edits, Edit(e) PROVE ReadsInv'
    <2>1. policy \in Policies /\ policy' \in Policies /\ mined' = mined
        BY <1>3, RpcReadsAssumption DEF Edit, TypeOK
    <2>2. CASE req = None
        BY <2>1, <2>2, <1>3 DEF Edit, TypeOK, Authentic
    <2>3. CASE req # None
        <3>1. req' = [req EXCEPT !.window = req.window \cup {policy'}]
            BY <1>3, <2>3 DEF Edit
        <3>2. req'.h = req.h /\ req'.window = req.window \cup {policy'} /\ req' \in [item : {"open"}, window : SUBSET Policies,
                     h : [is : Callers, roles : SUBSET Roles, wallets : SUBSET Wallets, org : Orgs \cup {Zone}]]
            BY <2>1, <2>3, <3>1 DEF TypeOK
        <3>3. PICK p \in req.window : Lived(req.window, req.h, p)
            BY <2>3 DEF Authentic
        <3>4. Lived(req'.window, req'.h, p) /\ p \in req'.window
            BY <3>2, <3>3, <2>1 DEF Lived
        <3>5. TypeOK'
            BY <2>1, <2>3, <3>2 DEF TypeOK
        <3> QED BY <3>4, <3>5 DEF Authentic
    <2> QED BY <2>2, <2>3
<1>4. ASSUME NEW t \in Txs, Mine(t) PROVE ReadsInv'
    BY <1>4 DEF Mine, TypeOK, Authentic
<1>5. ASSUME NEW item \in Items, Answer(item) PROVE ReadsInv'
    BY <1>5 DEF Answer, TypeOK, Authentic
<1> QED BY <1>1, <1>2, <1>3, <1>4, <1>5 DEF Next

\* Every state is one of the types, and the request under way is a caller as some policy of
\* its window made it: the window begins with the policy it was authenticated under.
THEOREM ReadsInvariant == Spec => []ReadsInv
<1>1. Init => ReadsInv
    BY RpcReadsAssumption DEF Init, ReadsInv, TypeOK, Authentic
<1> QED BY <1>1, ReadsKept, PTL DEF Spec

\* Every variable keeps its type.
THEOREM ReadsTypeCorrect == Spec => []TypeOK
<1>1. ReadsInv => TypeOK
    BY DEF ReadsInv
<1> QED BY <1>1, ReadsInvariant, PTL

\* What an answer tells, by the handlers of either method list.
LEMMA Answered ==
    ASSUME ReadsInv, NEW item \in Items, Answer(item)
    PROVE  \E p, q1, q2 :
             /\ q1 \in Torn(req.window) /\ q2 \in Torn(req.window) /\ Lived(req.window, req.h, p) /\ mined \subseteq Txs
             /\ ans'.item = item /\ ans'.h = req.h /\ ans'.window = req.window
             /\ \/ FullSequencer(req.h) /\ ans'.facts = FullAccess(q1, q2, req.h, item)
                \/ ans'.facts = Regular(q1, q2, req.h, item)
<1>1. PICK p \in req.window : Lived(req.window, req.h, p)
    BY DEF ReadsInv, Authentic, Answer
<1>2. PICK q1 \in Torn(req.window), q2 \in Torn(req.window) :
        ans' = [item |-> item, h |-> req.h, window |-> req.window,
                facts |-> IF FullSequencer(req.h) THEN FullAccess(q1, q2, req.h, item) ELSE Regular(q1, q2, req.h, item)]
    BY DEF Answer
<1>3. /\ ans'.item = item /\ ans'.h = req.h /\ ans'.window = req.window
      /\ \/ FullSequencer(req.h) /\ ans'.facts = FullAccess(q1, q2, req.h, item)
         \/ ans'.facts = Regular(q1, q2, req.h, item)
    BY <1>2
<1> QED BY <1>1, <1>3 DEF ReadsInv, TypeOK

\* No method tells more than some mix of the policies of the request entitles to: what
\* eth_getTransaction*, blocks, logs, accounts and disclosures have in common.
THEOREM SeesOnlyEntitled == Spec => []NothingUnseen
<1>1. Init => NothingUnseen
    BY DEF Init, NothingUnseen
<1>2. ReadsInv /\ NothingUnseen /\ [Next]_vars => NothingUnseen'
    <2> SUFFICES ASSUME ReadsInv, NothingUnseen, [Next]_vars PROVE NothingUnseen'
        OBVIOUS
    <2>1. CASE UNCHANGED vars
        <3>1. ans' = ans /\ mined' = mined
            BY <2>1 DEF vars
        <3>2. \A q, h, item, f : Entitled(q, h, item, f) = Entitled(q, h, item, f)'
            BY <3>1 DEF Entitled
        <3> QED BY <3>1, <3>2 DEF NothingUnseen
    <2>2. ASSUME NEW item \in Items, Answer(item) PROVE NothingUnseen'
        <3>1. PICK p, q1, q2 :
                 /\ q1 \in Torn(req.window) /\ q2 \in Torn(req.window) /\ Lived(req.window, req.h, p) /\ mined \subseteq Txs
                 /\ ans'.item = item /\ ans'.h = req.h /\ ans'.window = req.window
                 /\ \/ FullSequencer(req.h) /\ ans'.facts = FullAccess(q1, q2, req.h, item)
                    \/ ans'.facts = Regular(q1, q2, req.h, item)
            BY <2>2, Answered
        <3>2. ASSUME NEW f \in ans'.facts, f.what # "call"
              PROVE  \E q \in Torn(ans'.window) : Entitled(q, ans'.h, ans'.item, f)
            BY <3>1, <3>2, RegularEntitled, FullAccessEntitled
        <3>3. mined' = mined
            BY <2>2 DEF Answer
        <3>4. \A q, f : Entitled(q, ans'.h, ans'.item, f) => Entitled(q, ans.h, ans.item, f)'
            BY <3>3 DEF Entitled
        <3> QED BY <3>2, <3>4 DEF NothingUnseen
    <2>3. CASE ans' = None
        BY <2>3 DEF NothingUnseen
    <2> QED BY <2>1, <2>2, <2>3 DEF Next, Begin, Edit, Mine
<1> QED BY <1>1, <1>2, ReadsInvariant, PTL DEF Spec

\* Apart from reads without calldata or of the EIP-712 domain, a call, a deployment or a user operation
\* goes out only for an address of a user the caller acts for, under a role of whoever has that address
\* (validatedEthereumCall, validateUserOpPermissions, authorizeDeployment).
THEOREM ForwardsForOwn == Spec => []SentByOwn
<1>1. Init => SentByOwn
    BY DEF Init, SentByOwn
<1>2. ReadsInv /\ SentByOwn /\ [Next]_vars => SentByOwn'
    <2> SUFFICES ASSUME ReadsInv, SentByOwn, [Next]_vars PROVE SentByOwn'
        OBVIOUS
    <2>1. CASE UNCHANGED vars
        BY <2>1 DEF vars, SentByOwn
    <2>2. ASSUME NEW item \in Items, Answer(item) PROVE SentByOwn'
        <3>1. PICK p, q1, q2 :
                 /\ q1 \in Torn(req.window) /\ q2 \in Torn(req.window) /\ Lived(req.window, req.h, p) /\ mined \subseteq Txs
                 /\ ans'.item = item /\ ans'.h = req.h /\ ans'.window = req.window
                 /\ \/ FullSequencer(req.h) /\ ans'.facts = FullAccess(q1, q2, req.h, item)
                    \/ ans'.facts = Regular(q1, q2, req.h, item)
            BY <2>2, Answered
        <3>2. ASSUME NEW f \in ans'.facts, f.what = "call"
              PROVE  Forwards(ans'.window, ans'.h, ans'.item, f)
            BY <3>1, <3>2, RegularSent, FullAccessSent DEF Forwards
        <3> QED BY <3>2 DEF SentByOwn, Forwards, Sends
    <2>3. CASE ans' = None
        BY <2>3 DEF SentByOwn
    <2> QED BY <2>1, <2>2, <2>3 DEF Next, Begin, Edit, Mine
<1> QED BY <1>1, <1>2, ReadsInvariant, PTL DEF Spec

------------------------------------------------------------------------------
(* The check before eth_getLogs, and what lists show *)

LEMMA ReaderLived ==
    ASSUME TypeOK, NEW h \in Reading
    PROVE  Lived({policy}, h, policy) /\ policy \in Torn({policy}) /\ policy \in Tables /\ mined \subseteq Txs
<1>1. policy \in Policies /\ mined \subseteq Txs
    BY DEF TypeOK
<1>2. Lived({policy}, h, policy)
    BY <1>1 DEF Lived, Reading
<1>3. policy \in Tables
    BY <1>1, RpcReadsAssumption
<1>4. policy \in Torn({policy})
    BY <1>3 DEF Torn, Tables
<1> QED BY <1>1, <1>2, <1>3, <1>4

LEMMA ReaderWalletsActedFor ==
    ASSUME NEW q \in Tables, NEW h, RpcEnabled(h), NEW perm \in q.grants.events, InScope(q, h, perm)
    PROVE  ReaderWallets(q, h, perm) \subseteq Associated(q, h)
<1> DEFINE org == ContractOrg(q, perm.contract)
           scoped == MultiOrg /\ org # Zone /\ perm.orgOnly
<1>1. CASE h.is = "m2m_app" /\ scoped
    <2>1. ReaderWallets(q, h, perm) = WalletsOf(q, LiveMembers(q, {org}))
        BY <1>1 DEF ReaderWallets
    <2>2. org \in Linked(q)
        BY <1>1 DEF InScope
    <2>3. LiveMembers(q, {org}) \subseteq LiveMembers(q, Linked(q))
        BY <2>2 DEF LiveMembers
    <2>4. Associated(q, h) = WalletsOf(q, LiveMembers(q, Linked(q)))
        BY <1>1, RpcPolicyAssumption DEF Associated
    <2> QED BY <2>1, <2>3, <2>4 DEF WalletsOf
<1>2. CASE ~(h.is = "m2m_app" /\ scoped)
    BY <1>2 DEF ReaderWallets
<1> QED BY <1>1, <1>2

\* The check reads a user anew, and finds it as it was authenticated when nothing changed.
LEMMA ReadAnew ==
    ASSUME NEW h \in Reading
    PROVE  h.is \in Users => Holder(policy, h.is) = h
BY DEF Reading, Holder

LEMMA MatchFound ==
    ASSUME TypeOK, NEW h \in Reading, NEW filter, NEW t \in mined, NEW l \in TxOf[t].logs,
           Selects(filter, l), MayReadLog(policy, h, l)
    PROVE  CouldMatch(policy, h, filter)
<1> DEFINE now == IF h.is \in Users THEN Holder(policy, h.is) ELSE h
           queried == IF filter.contracts = Any THEN Contracts ELSE filter.contracts
<1>1. policy \in Tables /\ l \in [contract : Contracts, topic : Topics]
    BY ReaderLived, RpcReadsAssumption
<1>2. now = h
    BY ReadAnew
<1>3. l.contract \in queried /\ (filter.topics = Any \/ l.topic \in filter.topics)
    BY <1>1 DEF Selects
<1>4. RpcEnabled(h)
    BY DEF MayReadLog
<1>5. CASE l.contract \in FullyVisibleContracts(policy, h)
    <2>1. FullyVisibleContracts(policy, h) \cap queried # {}
        BY <1>3, <1>5
    <2> QED BY <1>4, <2>1 DEF CouldMatch
<1>6. CASE \E perm \in PermissionsOn(policy, h, {l.contract}) :
             InScope(policy, h, perm) /\ TopicMatches(ReaderWallets(policy, h, perm), perm.topic, l.topic)
    <2>1. PICK perm \in PermissionsOn(policy, h, {l.contract}) :
             InScope(policy, h, perm) /\ TopicMatches(ReaderWallets(policy, h, perm), perm.topic, l.topic)
        BY <1>6
    <2>2. perm \in policy.grants.events /\ perm \in PermissionsOn(policy, h, queried)
        BY <1>3, <2>1 DEF PermissionsOn
    <2>3. ReaderWallets(policy, h, perm) \subseteq Associated(policy, h)
        BY <1>1, <1>4, <2>1, <2>2, ReaderWalletsActedFor
    <2>4. TopicMatches(Associated(policy, h), perm.topic, l.topic)
        BY <2>1, <2>3 DEF TopicMatches
    <2>5. TopicCompatible(Associated(policy, h), perm.topic, filter.topics)
        BY <1>3, <2>4 DEF TopicCompatible
    <2>6. \E x \in PermissionsOn(policy, now, queried) : TopicCompatible(Associated(policy, now), x.topic, filter.topics)
        BY <1>2, <2>2, <2>5
    <2> QED BY <1>4, <2>6 DEF CouldMatch
<1> QED BY <1>5, <1>6 DEF MayReadLog

\* eth_getLogs is never turned away when one of the mined logs that it selects is the
\* caller's to read.
THEOREM PrefilterSound == Spec => []PrefilterLosesNothing
<1>1. ReadsInv => PrefilterLosesNothing
    BY MatchFound DEF ReadsInv, PrefilterLosesNothing
<1> QED BY <1>1, ReadsInvariant, PTL

\* Without roles in the zone no method shows a caller everything.
LEMMA NoZone ==
    ASSUME NEW h, ~\E r \in h.roles : RoleOrg[r] = Zone
    PROVE  ~FullRead(h) /\ \A perm : ~MethodRead(h, perm)
BY DEF FullRead, MethodRead, ZoneHas

\* An address that lists show is the caller's, or one that asking for a transaction of it shows.
LEMMA ShownByHash ==
    ASSUME NEW q \in Tables, NEW h, Filters(h), NEW perm, NEW a \in VisibleAddresses(q, h)
    PROVE  a \in Associated(q, h) \/ OrgVisible(q, h, a, TRUE, {perm})
<1> SUFFICES ASSUME a \notin Associated(q, h)
             PROVE  OrgVisible(q, h, a, TRUE, {perm})
    OBVIOUS
<1>1. h.is # "tenant" /\ RpcEnabled(h) /\ a \in OrgWallets(q, FullOrgs(h, {}))
    BY DEF VisibleAddresses
<1>2. FullOrgs(h, {}) \subseteq FullOrgs(h, {perm})
    BY DEF FullOrgs
<1>3. a \in OrgWallets(q, FullOrgs(h, {perm}))
    BY <1>1, <1>2 DEF OrgWallets, WalletsOf, LiveMembers
<1>4. a \in Wallets
    BY <1>1 DEF OrgWallets, WalletsOf, LiveMembers, Tables, People
<1>5. a \notin Reserved
    BY <1>4, RpcPolicyAssumption
<1>6. h.is \in Users \cup {"m2m_app"}
    BY <1>1 DEF Filters
<1> QED BY <1>1, <1>3, <1>5, <1>6 DEF OrgVisible

LEMMA ListedShown ==
    ASSUME NEW q \in Tables, NEW h, Filters(h), NEW perm, NEW t, NEW f \in FilterTx(q, h, t, VisibleAddresses(q, h))
    PROVE  /\ VisibleByOrg(q, h, t, perm) => f \in Everything(t)
           /\ ~VisibleByOrg(q, h, t, perm) => f \in FilterTx(q, h, t, Associated(q, h))
<1> DEFINE visible == {l \in TxOf[t].logs : MayReadLog(q, h, l)}
<1>1. {Head(t)} \cup LogsOf(t, visible) \subseteq Everything(t)
    BY DEF Everything, LogsOf
<1>2. f \in Everything(t)
    BY <1>1 DEF FilterTx
<1>3. ASSUME ~VisibleByOrg(q, h, t, perm), Parties(t) \cap VisibleAddresses(q, h) # {}
      PROVE  Parties(t) \cap Associated(q, h) # {}
    BY <1>3, ShownByHash DEF VisibleByOrg
<1>4. ASSUME ~VisibleByOrg(q, h, t, perm) PROVE f \in FilterTx(q, h, t, Associated(q, h))
    BY <1>2, <1>3, <1>4 DEF FilterTx
<1> QED BY <1>2, <1>4

LEMMA BlockShown ==
    ASSUME NEW q \in Tables, NEW h, Filters(h), NEW t \in mined, NEW f \in FilterTx(q, h, t, VisibleAddresses(q, h))
    PROVE  /\ f.what \in {"head", "input"} => f \in ByHash(q, q, h, t)
           /\ f.what \in {"head", "log"} => f \in Receipt(q, q, h, t)
<1>1. f \in Everything(t)
    BY DEF FilterTx, Everything, LogsOf
<1>2. f.what \in {"head", "input"} => f \in ByHash(q, q, h, t)
    BY <1>1, ListedShown DEF ByHash, Only
<1>3. f.what \in {"head", "log"} => f \in Receipt(q, q, h, t)
    BY <1>1, ListedShown DEF Receipt, Only
<1> QED BY <1>2, <1>3

LEMMA LogsShown ==
    ASSUME NEW q, NEW h, NEW t \in mined, NEW l \in TxOf[t].logs, MayReadLog(q, h, l)
    PROVE  LogFact(t, l) \in Receipt(q, q, h, t)
<1> DEFINE visible == {k \in TxOf[t].logs : MayReadLog(q, h, k)}
<1>1. LogFact(t, l) \in LogsOf(t, visible) /\ LogFact(t, l) \in Everything(t) /\ visible # {}
    BY DEF LogsOf, Everything
<1>2. \A assoc : LogFact(t, l) \in FilterTx(q, h, t, assoc)
    BY <1>1 DEF FilterTx
<1>3. LogFact(t, l).what = "log"
    BY DEF LogFact
<1> QED BY <1>1, <1>2, <1>3 DEF Receipt, Only

LEMMA OwnShown ==
    ASSUME NEW q, NEW h, ~FullRead(h), NEW t \in mined, Parties(t) \cap Associated(q, h) # {}, NEW f \in Everything(t)
    PROVE  f \in Block(q, q, h, FALSE) \cup BlockReceipts(q, q, h)
<1>1. Parties(t) \cap VisibleAddresses(q, h) # {}
    BY DEF VisibleAddresses
<1>2. f \in FilterTx(q, h, t, VisibleAddresses(q, h))
    BY <1>1 DEF FilterTx
<1>3. f \in FilterBlock(q, q, h)
    BY <1>2 DEF FilterBlock
<1>4. f.what \in {"head", "input", "log"}
    BY EverythingIs DEF TxFacts
<1> QED BY <1>3, <1>4 DEF Block, BlockReceipts, Only

LEMMA PendingShown ==
    ASSUME NEW q \in Tables, NEW h, Filters(h), NEW t \in Txs \ mined,
           Parties(t) \cap VisibleAddresses(q, h) # {}, NEW f \in Everything(t), f.what \in {"head", "input"}
    PROVE  f \in ByHash(q, q, h, t)
<1> DEFINE perm == "rpc_read_eth_getTransactionByHash"
<1>1. VisibleByOrg(q, h, t, perm) \/ Parties(t) \cap Associated(q, h) # {}
    BY ShownByHash DEF VisibleByOrg
<1> QED BY <1>1 DEF ByHash, Only

\* Of one policy, what the caller acts for is its own.
LEMMA OwnIs ==
    ASSUME TypeOK, NEW h \in Reading
    PROVE  Own(policy, h) = Associated(policy, h)
<1>1. AsLoaded(policy, policy, h).people = policy.people
    BY DEF AsLoaded
<1>2. Own(policy, h) = Own(AsLoaded(policy, policy, h), h)
    BY <1>1 DEF Own, ActsFor
<1> QED BY <1>2, ReaderLived, AssociatedOwn

\* Blocks, receipts, pending blocks and queries for logs list of a transaction what asking for it
\* shows, and all of the caller's own.
THEOREM ListsAgree == Spec => []ListingsAgree
<1>1. ASSUME ReadsInv, NEW h \in Reading, Filters(h), ~\E r \in h.roles : RoleOrg[r] = Zone
      PROVE  LET hashes == UNION {ByHash(policy, policy, h, t) : t \in mined}
                 receipts == UNION {Receipt(policy, policy, h, t) : t \in mined}
                 all == [contracts |-> Any, topics |-> Any]
             IN  /\ Block(policy, policy, h, TRUE) \subseteq hashes
                 /\ Block(policy, policy, h, FALSE) \subseteq hashes
                 /\ BlockReceipts(policy, policy, h) \subseteq receipts
                 /\ GetLogs(policy, policy, h, all) \subseteq receipts
                 /\ \A t \in mined : Parties(t) \cap Own(policy, h) # {} =>
                       Everything(t) \subseteq
                           Block(policy, policy, h, FALSE) \cup BlockReceipts(policy, policy, h)
                 /\ PendingBlock(policy, h)
                       \subseteq UNION {ByHash(policy, policy, h, t) : t \in Txs \ mined}
    <2> DEFINE q == policy
               hashes == UNION {ByHash(q, q, h, t) : t \in mined}
               receipts == UNION {Receipt(q, q, h, t) : t \in mined}
               all == [contracts |-> Any, topics |-> Any]
    <2>1. policy \in Tables
        BY <1>1, ReaderLived DEF ReadsInv
    <2>2. ~FullRead(h) /\ \A perm : ~MethodRead(h, perm)
        BY <1>1, NoZone
    <2>3. ASSUME NEW f \in FilterBlock(q, q, h)
          PROVE  /\ f.what \in {"head", "input"} => f \in hashes
                 /\ f.what \in {"head", "log"} => f \in receipts
        <3>1. PICK t \in mined : f \in FilterTx(q, h, t, VisibleAddresses(q, h))
            BY DEF FilterBlock
        <3> QED BY <3>1, <2>1, <1>1, BlockShown
    <2>4. Block(q, q, h, TRUE) \subseteq hashes /\ Block(q, q, h, FALSE) \subseteq hashes
        BY <2>2, <2>3 DEF Block, Only
    <2>5. BlockReceipts(q, q, h) \subseteq receipts
        BY <2>2, <2>3 DEF BlockReceipts, Only
    <2>6. GetLogs(q, q, h, all) \subseteq receipts
        <3> SUFFICES ASSUME NEW f \in GetLogs(q, q, h, all) PROVE f \in receipts
            OBVIOUS
        <3>1. PICK t \in mined : \E l \in TxOf[t].logs : MayReadLog(q, h, l) /\ f = LogFact(t, l)
            BY <2>2 DEF GetLogs, LogsOf
        <3> QED BY <3>1, LogsShown
    <2>7. ASSUME NEW t \in mined, Parties(t) \cap Own(q, h) # {}
          PROVE  Everything(t) \subseteq Block(q, q, h, FALSE) \cup BlockReceipts(q, q, h)
        <3>1. Parties(t) \cap Associated(q, h) # {}
            BY <1>1, <2>7, OwnIs DEF ReadsInv
        <3> QED BY <2>2, <3>1, OwnShown
    <2>8. PendingBlock(q, h) \subseteq UNION {ByHash(q, q, h, t) : t \in Txs \ mined}
        <3> SUFFICES ASSUME NEW f \in PendingBlock(q, h)
                     PROVE  \E t \in Txs \ mined : f \in ByHash(q, q, h, t)
            OBVIOUS
        <3>1. f \in FilterPending(q, h) /\ f.what \in {"head", "input"}
            BY <2>2 DEF PendingBlock, Only
        <3>2. PICK t \in Txs \ mined : Parties(t) \cap VisibleAddresses(q, h) # {} /\ f \in Everything(t)
            BY <3>1 DEF FilterPending
        <3> QED BY <3>1, <3>2, <2>1, <1>1, PendingShown
    <2> QED BY <2>4, <2>5, <2>6, <2>7, <2>8
<1>2. ReadsInv => ListingsAgree
    BY <1>1 DEF ListingsAgree
<1> QED BY <1>2, ReadsInvariant, PTL
==============================================================================
