----------------------------- MODULE WalletRpc -----------------------------
(***************************************************************************)
(* One user's wallet RPC: an injected wallet that cannot sign in talks to  *)
(* the chain under a token of the user, and only about the transactions    *)
(* the user has authorized in a session.  An authorization is the row      *)
(* (user, wallet, nonce) of wallet_transaction_allowances; authorizing     *)
(* that nonce again overwrites the row, but for the hash it keeps.         *)
(*                                                                         *)
(* A request loads its user first (by token, or in the session hook) and   *)
(* then runs statement by statement.  A transaction t signs WalletTxOf[t]: its   *)
(* wallet, nonce and recipient, the rest (calldata and value) and what     *)
(* the classifier makes of it.  Every row lives equally long, so rows end  *)
(* in the order in which they were authorized.                             *)
(***************************************************************************)
EXTENDS Naturals

CONSTANTS
    Senders, WalletTxs, WalletTxOf, Requests,
    NoTx,        \* a row whose hash is still null
    NoRow,
    Rights,    \* what roles, permissions and wallets the user may have
    MaxTokens    \* bound on the tokens that are generated

Kinds == {"call", "transfer", "deployment", "empty"}

\* Mutant of Key: rows are told apart by the nonce only.
KeyByNonce(t) == <<CHOOSE w \in Senders : TRUE, WalletTxOf[t].nonce>>

\* The primary key, of one user.
Key(t) == <<WalletTxOf[t].wallet, WalletTxOf[t].nonce>>
Keys == {Key(t) : t \in WalletTxs}

ASSUME WalletRpcAssumption ==
    /\ NoTx \notin WalletTxs
    /\ \A t \in WalletTxs : WalletTxOf[t].wallet \in Senders /\ WalletTxOf[t].kind \in Kinds
    /\ Rights \subseteq [call : BOOLEAN, deploy : BOOLEAN, linked : SUBSET Senders, deleted : BOOLEAN]
    /\ MaxTokens \in Nat

VARIABLES
    token,      \* usersTable.walletToken, 0 for null; tokens are numbered as generated
    generated,  \* how many there were
    rights,     \* whether the contract's permission lets the user call it, its roles
                \* let it deploy, its live wallets, and whether its organization is deleted
    row,        \* the allowances
    updated,    \* their order by updatedAt: pairs of a key and a later one
    request,        \* requests in flight
    age,        \* the keys by the time of their authorization, likewise
    authorized, \* history: the transactions authorized so far
    sent,       \* history: keys whose hash was stored since the last authorization
    acknowledged \* history: transactions answered as sent, not authorized anew since, but
                 \* for those whose hash a failed write lost

walletRpcVars == <<token, generated, rights, row, updated, request, age,
          authorized, sent, acknowledged>>
user == <<token, generated, rights>>
rows == <<row, updated, age, authorized, sent, acknowledged>>

Idle == [pc |-> "idle"]
Ops == {"authorize", "send", "record", "token"}
Row == [to : {WalletTxOf[t].to : t \in WalletTxs}, rest : {WalletTxOf[t].rest : t \in WalletTxs},
        active : BOOLEAN, hash : WalletTxs \cup {NoTx}]
Requested ==
    [pc : {"loaded", "upsert", "allowed", "forward", "record", "store"},
     op : Ops, tx : WalletTxs, owns : BOOLEAN, deploys : BOOLEAN]

ASSUME NullAssumption == NoRow \notin Row

WalletRpcTypeOK ==
    /\ token \in 0..generated /\ generated \in 0..MaxTokens
    /\ rights \in Rights
    /\ row \in [Keys -> Row \cup {NoRow}]
    /\ updated \subseteq Keys \X Keys /\ age \subseteq Keys \X Keys
    /\ request \in [Requests -> Requested \cup {Idle}]
    /\ authorized \subseteq WalletTxs /\ sent \subseteq Keys /\ acknowledged \subseteq WalletTxs

WalletRpcInit ==
    /\ token = 0 /\ generated = 0 /\ rights \in Rights
    /\ row = [k \in Keys |-> NoRow]
    /\ updated = {} /\ age = {}
    /\ request = [r \in Requests |-> Idle]
    /\ authorized = {} /\ sent = {} /\ acknowledged = {}

-----------------------------------------------------------------------------
(* Rows                                                                    *)

Active(k) == row[k] # NoRow /\ row[k].active

\* Orders: k is moved to their end, and the last of some keys.
Moved(order, k) == {p \in order : p[1] # k} \cup ((Keys \ {k}) \X {k})
IsLast(order, S, k) == \A l \in S \ {k} : <<l, k>> \in order
LastOf(order, S) == CHOOSE k \in S : IsLast(order, S, k)

\* Mutant of Touched: rows are ranked by when they were created.
TouchedOnce(order, k) == IF row[k] # NoRow THEN order ELSE Moved(order, k)

\* What a write of row k does to the order: updatedAt is set in
\* createOrUpdate, and by $onUpdate in every other update.
Touched(order, k) == Moved(order, k)

\* latestForUser
InForce == {k \in Keys : Active(k)}
AnyInForce == InForce # {}
Latest == LastOf(updated, InForce)

\* The last authorization there was.
Current == LastOf(age, Keys)

\* Mutant of Allows: the recipient is not compared.
AllowsAnyTo(t) == Active(Key(t)) /\ row[Key(t)].rest = WalletTxOf[t].rest

\* checkTransactionAllowed, the row against the transaction.
Allows(t) ==
    /\ Active(Key(t))
    /\ row[Key(t)].rest = WalletTxOf[t].rest
    /\ row[Key(t)].to = WalletTxOf[t].to

\* The rows updateTransactionHash matches; it does not compare the recipient.
Records(t) == Active(Key(t)) /\ row[Key(t)].rest = WalletTxOf[t].rest

\* What a poll is told: eth_getTransactionByHash, eth_getTransactionReceipt and
\* GET /allowance-tx-hash tell of the hash of the latest row; eth_getBalance and
\* eth_getTransactionCount of its wallet, if the user has it.
GetTxHash == IF AnyInForce THEN row[Latest].hash ELSE NoTx
CanCheckBalanceOf(w) == w \in rights.linked /\ AnyInForce /\ Latest[1] = w

-----------------------------------------------------------------------------
(* Requests                                                                *)

At(r, pc) == request[r] # Idle /\ request[r].pc = pc
Doing(r, ops) == request[r] # Idle /\ request[r].op \in ops
Goto(r, pc) == request' = [request EXCEPT ![r].pc = pc]
Finish(r) == request' = [request EXCEPT ![r] = Idle]

\* The user, its roles and its wallets are loaded: by getByWalletToken, or by
\* the hook of the session.  (For a token no transaction matters.)
Load(r, op, t) ==
    /\ request[r] = Idle /\ ~rights.deleted
    /\ op \in {"send", "record"} => token # 0
    /\ op = "token" => t = CHOOSE s \in WalletTxs : TRUE
    /\ request' = [request EXCEPT ![r] =
                 [pc |-> "loaded", op |-> op, tx |-> t, owns |-> WalletTxOf[t].wallet \in rights.linked,
                  deploys |-> rights.deploy]]
    /\ UNCHANGED <<user, rows>>

\* By kind: a call asks the contract's permission, and for a wallet of the user.
Permitted(r) ==
    CASE WalletTxOf[request[r].tx].kind = "call" -> request[r].owns /\ rights.call
      [] WalletTxOf[request[r].tx].kind = "transfer"   -> TRUE
      [] WalletTxOf[request[r].tx].kind = "deployment" -> request[r].deploys
      [] OTHER -> FALSE

\* POST /transaction-authorization, and POST /enable for calls without value.
Authorize(r) ==
    /\ At(r, "loaded") /\ Doing(r, {"authorize"})
    /\ IF request[r].owns /\ Permitted(r)
       THEN Goto(r, "upsert") ELSE Finish(r)
    /\ UNCHANGED <<user, rows>>

\* The hash of the row that is overwritten stays.
CreateOrUpdate(r) ==
    /\ At(r, "upsert")
    /\ LET t == request[r].tx
           k == Key(t) IN
       /\ row' = [row EXCEPT ![k] = [to |-> WalletTxOf[t].to, rest |-> WalletTxOf[t].rest, active |-> TRUE,
                                     hash |-> IF row[k] = NoRow THEN NoTx ELSE row[k].hash]]
       /\ updated' = Touched(updated, k)
       /\ age' = Moved(age, k)
       /\ authorized' = authorized \cup {t}
       /\ sent' = {}
       /\ acknowledged' = {s \in acknowledged : Key(s) # k}
    /\ Finish(r)
    /\ UNCHANGED user

\* eth_sendRawTransaction: the row, then the rights.  POST /verify-allowance
\* does the same and then only answers.
CheckAllowance(r) ==
    /\ At(r, "loaded") /\ Doing(r, {"send"})
    /\ IF Allows(request[r].tx) /\ WalletTxOf[request[r].tx].kind # "empty" THEN Goto(r, "allowed") ELSE Finish(r)
    /\ UNCHANGED <<user, rows>>

CheckRights(r) ==
    /\ At(r, "allowed")
    /\ Finish(r) \/ (Permitted(r) /\ Goto(r, "forward"))
    /\ UNCHANGED <<user, rows>>

\* Mutant of Stores: a submission that timed out leaves no hash.
StoresOnSuccess == {"success"}

\* The answers of the sequencer after which the hash is stored.
Stores == {"success", "timeout"}

\* The sequencer's answer; an error ends the request, and acknowledges nothing.
Submit(r, answer) ==
    /\ At(r, "forward")
    /\ IF answer \in Stores THEN Goto(r, "record") /\ UNCHANGED acknowledged
       ELSE /\ Finish(r)
            /\ acknowledged' = IF answer = "error" THEN acknowledged
                               ELSE acknowledged \cup {request[r].tx}
    /\ UNCHANGED <<user, row, updated, age, authorized, sent>>

\* updateTransactionHash, which only logs that no row matches.
WriteHash(r) ==
    LET t == request[r].tx
        k == Key(t) IN
    /\ IF Records(t)
       THEN /\ row' = [row EXCEPT ![k].hash = t]
            /\ updated' = Moved(updated, k)
            /\ sent' = sent \cup {k}
       ELSE UNCHANGED <<row, updated, sent>>
    /\ acknowledged' = IF Doing(r, {"send"}) THEN acknowledged \cup {t} ELSE acknowledged

\* After a submission, whose answer a write that fails does not change; and
\* POST /update-transaction-hash, which writes without one, for any signed t,
\* and answers that the write failed.
RecordHash(r) ==
    /\ At(r, "record") \/ (At(r, "loaded") /\ Doing(r, {"record"}))
    /\ WriteHash(r) \/ UNCHANGED <<row, updated, sent, acknowledged>>
    /\ Finish(r)
    /\ UNCHANGED <<user, age, authorized>>

\* GET /personal-rpc-token reads; it stores a new token if there was none.
ReadToken(r) ==
    /\ At(r, "loaded") /\ Doing(r, {"token"})
    /\ IF token = 0 THEN Goto(r, "store") ELSE Finish(r)
    /\ UNCHANGED <<user, rows>>

NewToken ==
    /\ generated < MaxTokens
    /\ generated' = generated + 1
    /\ token' = generated'
    /\ UNCHANGED <<rights, rows>>

StoreToken(r) == At(r, "store") /\ NewToken /\ Finish(r)

\* POST /invalidate
Invalidate == ~rights.deleted /\ NewToken /\ UNCHANGED request

-----------------------------------------------------------------------------
(* The rest of the system                                                  *)

\* Permissions, roles and wallets are edited; a deleted organization stays so.
EditRights ==
    /\ rights' \in Rights \ {rights}
    /\ rights.deleted => rights'.deleted
    /\ UNCHANGED <<token, generated, rows, request>>

\* The hour of the oldest authorization in force is over.
Expire ==
    \E k \in InForce :
        /\ \A l \in InForce \ {k} : <<k, l>> \in age
        /\ row' = [row EXCEPT ![k].active = FALSE]
        /\ UNCHANGED <<user, updated, age, authorized, sent, acknowledged, request>>

Step(r) ==
    \/ Authorize(r) \/ CreateOrUpdate(r)
    \/ CheckAllowance(r) \/ CheckRights(r)
    \/ \E answer \in {"success", "timeout", "error"} : Submit(r, answer)
    \/ RecordHash(r)
    \/ ReadToken(r) \/ StoreToken(r)

WalletRpcNext ==
    \/ \E r \in Requests, op \in Ops, t \in WalletTxs : Load(r, op, t)
    \/ \E r \in Requests : Step(r)
    \/ Invalidate
    \/ EditRights
    \/ Expire

WalletRpcSpec == WalletRpcInit /\ [][WalletRpcNext]_walletRpcVars

-----------------------------------------------------------------------------
(* Properties                                                              *)

\* Signed for the same nonce of the same wallet with the same calldata and
\* value: all updateTransactionHash tells apart.
Alike(s, t) ==
    /\ WalletTxOf[s].wallet = WalletTxOf[t].wallet /\ WalletTxOf[s].nonce = WalletTxOf[t].nonce
    /\ WalletTxOf[s].rest = WalletTxOf[t].rest

\* Only a transaction the user has authorized, to the very recipient, is
\* forwarded, and a call or a deployment only for a user who was loaded with
\* its wallet and with the right to deploy, whatever is authorized, edited or
\* sent in the meantime (eth_sendRawTransaction, checkTransactionAllowed).
ForwardsOnlyAuthorized ==
    \A r \in Requests : At(r, "forward") \/ (At(r, "record") /\ Doing(r, {"send"})) =>
        /\ \E s \in authorized : Alike(s, request[r].tx) /\ WalletTxOf[s].to = WalletTxOf[request[r].tx].to
        /\ WalletTxOf[request[r].tx].kind = "call" => request[r].owns
        /\ WalletTxOf[request[r].tx].kind = "deployment" => request[r].deploys

\* A wallet is told only of transactions signed for a nonce, calldata and
\* value its user authorized once, however authorizations, submissions and
\* their late hashes overtake each other (getTxHash, updateTransactionHash),
\* and of balances only for a wallet the user has authorized something from.
\* The authorization it answers for is the last one, or one of a transaction
\* whose hash was stored after it (latestForUser).
TellsOnlyAuthorized ==
    /\ GetTxHash # NoTx => \E s \in authorized : Alike(s, GetTxHash)
    /\ \A w \in Senders : CanCheckBalanceOf(w) => \E s \in authorized : WalletTxOf[s].wallet = w
    /\ AnyInForce => Latest = Current \/ Latest \in sent

\* Once a submission was answered with a hash or with the time-out that tells
\* the user to poll, and until the nonce is authorized anew or the hour is
\* over, the row has the hash of that transaction or of one alike, unless the
\* write of its hash failed, which the code logs and does not tell the user
\* (eth_sendRawTransaction: "the wallet would keep returning null").
AcknowledgedIsPollable ==
    \A t \in acknowledged :
        Allows(t) => row[Key(t)].hash # NoTx /\ Alike(row[Key(t)].hash, t)

\* The authorization the wallet RPC answers for is the user's last one: the
\* order by updatedAt is there so that no stale allowance ranks above it.  It
\* does not hold: storing a hash ranks its row first.
LatestIsCurrent ==
    AnyInForce => Latest = Current
=============================================================================
