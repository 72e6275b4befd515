----------------------------- MODULE RpcReads -----------------------------
(***************************************************************************)
(* The JSON-RPC proxy in front of the chain: what each method lets a       *)
(* caller read of transactions, logs, accounts and disclosures, and which  *)
(* transactions, calls and user operations it forwards.                    *)
(*                                                                         *)
(* A request is authenticated once and then reads the database in several  *)
(* statements between calls of the chain; a batch shares the authorizer    *)
(* and the look-ups it keeps.  Meanwhile operators edit the policy and the *)
(* chain mines.  `window` holds every policy in force since the request    *)
(* was authenticated, and a look-up may have seen any of them.             *)
(*                                                                         *)
(* One log topic stands for the four, one block for all mined transactions *)
(* and the pending block for the others.  An answer is the set of facts it *)
(* tells the caller; a refusal, null and an empty list tell none.          *)
(***************************************************************************)
EXTENDS RpcPolicy, FiniteSets

CONSTANTS
    Txs, TxOf,    \* the transactions: from, to, plain (value, no data), logs
    NextOf,       \* the address of a wallet's next contract, or NoOne
    PublicCode,   \* addresses whose code anybody may read
    SmartAccounts, \* wallets that are proxies of a listed implementation
    Policies,     \* contents of the database
    Edits,        \* pairs of policies: one transaction of an operator
    Items,        \* what is asked: a method and its arguments
    MinedFirst,   \* what may be mined at first
    MaxWindow     \* bound on the policies one request lives through

ASSUME RpcReadsAssumption ==
    /\ Policies \subseteq Tables
    /\ \A t \in Txs : TxOf[t].logs \subseteq [contract : Contracts, topic : Topics]
    /\ \A item \in Items :
          /\ item.method \in {"eth_getTransactionByHash", "eth_getTransactionReceipt"} => item.tx \in Txs
          /\ item.method = "disclosure" => item.block \in Nat
    /\ Edits \subseteq Policies \X Policies
    /\ NextOf \in [Wallets -> Contracts \cup {NoOne}]
    /\ MinedFirst \subseteq SUBSET Txs
    /\ MaxWindow \in Nat \ {0}

VARIABLES
    policy,   \* the database
    mined,    \* transactions in the block; the others are pending
    req,      \* the request under way
    ans       \* the last answer, and the window it was given in

vars == <<policy, mined, req, ans>>
None == [item |-> "none"]

(* Facts. *)

Head(t) == [what |-> "head", of |-> t]
Input(t) == [what |-> "input", of |-> t]
LogFact(t, l) == [what |-> "log", of |-> t, log |-> l]
LogsOf(t, logs) == {LogFact(t, l) : l \in logs}
Everything(t) == {Head(t), Input(t)} \cup LogsOf(t, TxOf[t].logs)
Only(kinds, facts) == {f \in facts : f.what \in kinds}
Parties(t) == {TxOf[t].from, TxOf[t].to} \ {NoOne}

(* Transactions and receipts. *)

\* Mutant: the calldata stays in a transaction shown for one of its logs.
FilterKeepingInput(q, h, t, assoc) ==
    IF Parties(t) \cap assoc # {} \/ \E l \in TxOf[t].logs : MayReadLog(q, h, l)
    THEN Everything(t) ELSE {}

FilterTx(q, h, t, assoc) ==
    LET visible == {l \in TxOf[t].logs : MayReadLog(q, h, l)}
    IN  IF \/ Parties(t) \cap assoc # {}
           \/ TxOf[t].to # NoOne /\ OrgVisible(q, h, TxOf[t].to, FALSE, {})
        THEN Everything(t)
        ELSE IF visible # {} THEN {Head(t)} \cup LogsOf(t, visible)
        ELSE {}

\* Mutant: an organization's contracts are looked up, its users are not.
VisibleByContract(q, h, t, perm) == \E a \in Parties(t) : OrgVisible(q, h, a, FALSE, {perm})
VisibleByOrg(q, h, t, perm) == \E a \in Parties(t) : OrgVisible(q, h, a, TRUE, {perm})

ByHash(q1, q2, h, t) ==
    LET perm == "rpc_read_eth_getTransactionByHash"
    IN  Only({"head", "input"},
          IF \/ FullRead(h) \/ MethodRead(h, perm)
             \/ VisibleByOrg(q2, h, t, perm)
             \/ t \notin mined /\ Parties(t) \cap Associated(q1, h) # {}
          THEN Everything(t)
          ELSE IF t \in mined THEN FilterTx(q2, h, t, Associated(q1, h))
          ELSE {})

Receipt(q1, q2, h, t) ==
    LET perm == "rpc_read_eth_getTransactionReceipt"
    IN  Only({"head", "log"},
          IF t \notin mined THEN {}
          ELSE IF \/ FullRead(h) \/ MethodRead(h, perm)
                  \/ VisibleByOrg(q2, h, t, perm)
          THEN Everything(t)
          ELSE FilterTx(q2, h, t, Associated(q1, h)))

(* Blocks. *)

FilterBlock(q1, q2, h) == UNION {FilterTx(q2, h, t, VisibleAddresses(q1, h)) : t \in mined}

FilterPending(q, h) ==
    UNION {Everything(t) : t \in {s \in Txs \ mined : Parties(s) \cap VisibleAddresses(q, h) # {}}}

\* Only a block asked for by number has a permission of its own.
Block(q1, q2, h, byNumber) ==
    Only({"head", "input"},
      IF FullRead(h) \/ (byNumber /\ MethodRead(h, "rpc_read_eth_getBlockByNumber"))
      THEN UNION {Everything(t) : t \in mined}
      ELSE FilterBlock(q1, q2, h))

PendingBlock(q, h) ==
    Only({"head", "input"},
      IF FullRead(h) \/ MethodRead(h, "rpc_read_eth_getBlockByNumber")
      THEN UNION {Everything(t) : t \in Txs \ mined}
      ELSE FilterPending(q, h))

\* A count tells of the transactions it counts.
Count(q1, q2, h, pending) ==
    Only({"head"},
      IF FullRead(h) THEN UNION {Everything(t) : t \in IF pending THEN Txs \ mined ELSE mined}
      ELSE IF pending THEN FilterPending(q1, h) ELSE FilterBlock(q1, q2, h))

BlockReceipts(q1, q2, h) ==
    Only({"head", "log"},
      IF FullRead(h) THEN UNION {Everything(t) : t \in mined} ELSE FilterBlock(q1, q2, h))

(* Logs. *)

Selects(filter, l) ==
    /\ filter.contracts = Any \/ l.contract \in filter.contracts
    /\ filter.topics = Any \/ l.topic \in filter.topics

GetLogs(q1, q2, h, filter) ==
    LET all == FullRead(h) \/ MethodRead(h, "rpc_read_eth_getLogs")
    IN  IF ~all /\ ~CouldMatch(q1, h, filter) THEN {}
        ELSE UNION {LogsOf(t, {l \in TxOf[t].logs :
                        Selects(filter, l) /\ (all \/ MayReadLog(q2, h, l))}) : t \in mined}

(* Accounts: code, balance and nonce. *)

Account(q1, q2, h, a, code) ==
    IF a \in PublicCode
    THEN IF code THEN {[what |-> "account", of |-> a]} ELSE {}
    ELSE IF \/ Owns(q1, h, a)
            \/ Authored(q2, h, a)
            \/ OrgVisible(q2, h, a, TRUE, {})
            \/ \E w \in Associated(q1, h) : NextOf[w] = a
    THEN {[what |-> "account", of |-> a]}
    ELSE {}

(* Disclosures, open to anybody. *)

Disclosed(q, a, config, holder, block) ==
    IF config /\ q.contracts[a].from =< block
    THEN {[what |-> "disclosed", of |-> a, holder |-> holder, block |-> block]} ELSE {}

BytecodeConfig(q, a) == a \in Contracts /\ "bytecode" \in q.contracts[a].discloses
SupplyConfig(q, a) == a \in Contracts /\ "supply" \in q.contracts[a].discloses
BalanceConfig(q, a, holder) == a \in Contracts /\ holder \in q.contracts[a].holders

AccountData(q, a, block) == Disclosed(q, a, BytecodeConfig(q, a), "bytecode", block)
TokenSupply(q, a, block) == Disclosed(q, a, SupplyConfig(q, a), "supply", block)
TokenBalance(q, a, holder, block) == Disclosed(q, a, BalanceConfig(q, a, holder), holder, block)

Disclosure(q, item) ==
    CASE item.of = "bytecode" -> AccountData(q, item.address, item.block)
      [] item.of = "supply"   -> TokenSupply(q, item.address, item.block)
      [] OTHER                -> TokenBalance(q, item.address, item.of, item.block)

(* What is forwarded: transactions, calls and user operations. *)

\* The calldata is absent ("none"), exactly the selector of eip712Domain()
\* ("domain"), or any other ("call").
CallFact(from, to, data) == [what |-> "call", from |-> from, to |-> to, data |-> data]

Plain(tx) == tx.to # NoOne /\ tx.plain /\ tx.to \notin Contracts

Submits(q1, q2, h, tx) ==
    \/ tx.to = NoOne /\ AuthorizesDeployment(q1, q2, h, tx.from)
    \/ Plain(tx)
    \/ tx.to # NoOne /\ MayCall(q1, q2, h, tx.from, tx.to)

SendRaw(q1, q2, h, t) ==
    IF ~Submits(q1, q2, h, TxOf[t]) THEN {}
    ELSE IF Plain(TxOf[t]) THEN {[what |-> "transfer", of |-> t]}
    ELSE {CallFact(TxOf[t].from, TxOf[t].to, "call")}

whitelistedMethods == {"domain"}

\* A call without calldata or to a whitelisted method is delegated from any
\* address and for any caller; one without a recipient is a deployment first.
EthCall(q1, q2, h, from, to, data) ==
    IF \/ to = NoOne /\ AuthorizesDeployment(q1, q2, h, from)
       \/ to # NoOne /\ (data \in {"none"} \cup whitelistedMethods \/ MayCall(q1, q2, h, from, to))
    THEN {CallFact(from, to, data)} ELSE {}

\* The sender is a known proxy of a listed implementation, and the calldata
\* decodes to calls; an operation with a paymaster or a factory is refused.
Dispatches(op) == op.sender \in SmartAccounts /\ op.decodes

UserOperation(q1, q2, h, op) ==
    IF /\ op.sender \in Associated(q1, h) /\ ~op.extras /\ Dispatches(op)
       /\ \A call \in op.calls : call.data # "none" => MayCall(q1, q2, h, op.sender, call.to)
    THEN {CallFact(op.sender, call.to, call.data) : call \in op.calls}
    ELSE {}

GetUserOperation(q, h, sender) ==
    IF sender \in Associated(q, h) THEN {[what |-> "operation", of |-> sender]} ELSE {}

\* Filters, user operation batches and the like ask for full read access.
AnyFact == [what |-> "any"]

(* The two method lists. *)

Regular(q1, q2, h, item) ==
    LET m == item.method IN
    CASE m = "eth_getTransactionByHash"  -> ByHash(q1, q2, h, item.tx)
      [] m = "eth_getTransactionReceipt" -> Receipt(q1, q2, h, item.tx)
      [] m = "eth_getBlockByNumber"      -> Block(q1, q2, h, TRUE)
      [] m = "eth_getBlockByHash"        -> Block(q1, q2, h, FALSE)
      [] m = "pending"                   -> PendingBlock(q1, h)
      [] m = "eth_getBlockTransactionCountByNumber" -> Count(q1, q2, h, item.pending)
      [] m = "eth_getBlockReceipts"      -> BlockReceipts(q1, q2, h)
      [] m = "eth_getLogs"               -> GetLogs(q1, q2, h, item.filter)
      [] m \in {"eth_getCode", "eth_getBalance"} ->
             Account(q1, q2, h, item.address, m = "eth_getCode")
      [] m = "eth_newFilter"             -> IF FullRead(h) THEN {AnyFact} ELSE {}
      [] m = "eth_call"                  -> EthCall(q1, q2, h, item.from, item.to, item.data)
      [] m = "eth_sendUserOperation"     -> UserOperation(q1, q2, h, item.op)
      [] m = "eth_getUserOperationByHash" -> GetUserOperation(q1, h, item.sender)
      [] m = "eth_sendRawTransaction"    -> SendRaw(q1, q2, h, item.tx)
      [] m = "disclosure"                -> Disclosure(q1, item)
      [] OTHER -> {}

\* With full sequencer access everything is passed on, but a deployment is
\* still authorized, for it is recorded against a user.
Broadcast(q1, q2, h, t) == IF TxOf[t].to = NoOne THEN SendRaw(q1, q2, h, t) ELSE {AnyFact}

FullAccess(q1, q2, h, item) ==
    CASE item.method = "disclosure"             -> Disclosure(q1, item)
      [] item.method = "eth_sendRawTransaction" -> Broadcast(q1, q2, h, item.tx)
      [] OTHER -> {AnyFact}

\* What look-ups spread over the window may add up to.
Torn(w) ==
    [people : {q.people : q \in w}, contracts : {q.contracts : q \in w}, grants : {q.grants : q \in w}]

(* Behaviours. *)

Init == policy \in Policies /\ mined \in MinedFirst /\ req = None /\ ans = None

Begin(c) ==
    /\ req = None /\ Authenticates(policy, c)
    /\ req' = [item |-> "open", h |-> Holder(policy, c), window |-> {policy}]
    /\ ans' = None
    /\ UNCHANGED <<policy, mined>>

Edit(e) ==
    /\ policy = e[1] /\ policy' = e[2]
    /\ req' = IF req = None THEN req ELSE [req EXCEPT !.window = @ \cup {policy'}]
    /\ req # None => Cardinality(req.window \cup {policy'}) =< MaxWindow
    /\ ans' = None
    /\ UNCHANGED mined

Mine(t) ==
    /\ t \in Txs \ mined /\ mined' = mined \cup {t}
    /\ ans' = None
    /\ UNCHANGED <<policy, req>>

Answer(item) ==
    /\ req # None
    /\ \E q1, q2 \in Torn(req.window) :
          LET handler(a, b) == IF FullSequencer(req.h) THEN FullAccess(a, b, req.h, item)
                               ELSE Regular(a, b, req.h, item)
          IN  ans' = [item |-> item, facts |-> handler(q1, q2), h |-> req.h, window |-> req.window]
    /\ req' = None
    /\ UNCHANGED <<policy, mined>>

Next ==
    \/ \E c \in Callers : Begin(c)
    \/ \E e \in Edits : Edit(e)
    \/ \E t \in Txs : Mine(t)
    \/ \E item \in Items : Answer(item)

Spec == Init /\ [][Next]_vars

(***************************************************************************)
(* What a caller is entitled to, whatever method it uses.                  *)
(***************************************************************************)

\* The users a caller acts for, and their addresses.
ActsFor(q, h) ==
    {u \in Users :
        \/ u = h.is
        \/ h.is = "tenant" /\ u \in q.people.tenant.members
        \/ /\ h.is = "m2m_app" /\ \E r \in h.roles : "org_rpc_access" \in Permissions[r]
           /\ q.people.user[u].org \in q.people.app.linked \ q.people.deleted}
Own(q, h) == UNION {q.people.user[u].wallets : u \in ActsFor(q, h)}

\* A permission named after a method counts for that method only.
ReaderRoles(h, perm, org) ==
    {r \in h.roles : RoleOrg[r] = org /\ (ReadPermissions \cup {perm}) \cap Permissions[r] # {}}
Interactive(h) == h.is \in Users \/ (h.is = "m2m_app" /\ \E r \in h.roles : "org_rpc_access" \in Permissions[r])
SeesAll(h, perm) ==
    \/ \E r \in h.roles : RoleOrg[r] = Zone /\ "full_sequencer_rpc_access" \in Permissions[r]
    \/ h.is \in Users \cup {"m2m_app"} /\ ReaderRoles(h, perm, Zone) # {}
SeesOf(q, h, perm, a) ==
    /\ Interactive(h) /\ a \notin Reserved
    /\ \E o \in Orgs :
          /\ ReaderRoles(h, perm, o) # {}
          /\ \/ a \in Contracts /\ q.contracts[a].org = o
             \/ o \notin q.people.deleted
                /\ \E u \in Users : q.people.user[u].org = o /\ a \in q.people.user[u].wallets

\* An organization's event permission for its own readers asks for a reader
\* of that organization.
SeesLog(q, h, l) ==
    LET org == q.contracts[l.contract].org
        within == {u \in ActsFor(q, h) : h.is \in Users \cup {"m2m_app"} /\ q.people.user[u].org = org}
    IN  \/ l.contract \notin Reserved /\ Interactive(h) /\ org # Zone
           /\ ReaderRoles(h, "rpc_read_eth_getLogs", org) # {}
        \/ \E perm \in q.grants.events :
              LET ownOnly == MultiOrg /\ perm.orgOnly /\ org # Zone
              IN  /\ perm.contract = l.contract /\ perm.roles \cap h.roles # {}
                  /\ Interactive(h) \/ h.is = "tenant"
                  /\ ownOnly => \/ within # {}
                                \/ h.is = "m2m_app" /\ org \in q.people.app.linked \ q.people.deleted
                  /\ perm.topic = "userAddress" =>
                        \E u \in IF ownOnly THEN within ELSE ActsFor(q, h) :
                            l.topic \in q.people.user[u].wallets
                  /\ perm.topic \in {Any, "userAddress", l.topic}

ConcernsIt(q, h, perm, t) ==
    \E a \in {TxOf[t].from, TxOf[t].to} : a \in Own(q, h) \/ SeesOf(q, h, perm, a)

\* The permission a method is named in.
PermissionFor(m) ==
    CASE m = "eth_getTransactionByHash"  -> "rpc_read_eth_getTransactionByHash"
      [] m = "eth_getTransactionReceipt" -> "rpc_read_eth_getTransactionReceipt"
      [] m \in {"eth_getBlockByNumber", "pending"} -> "rpc_read_eth_getBlockByNumber"
      [] m = "eth_getLogs" -> "rpc_read_eth_getLogs"
      [] OTHER -> "full_read_access"

Entitled(q, h, item, f) ==
    LET perm == PermissionFor(item.method)
    IN  \/ SeesAll(h, perm) /\ f.what \notin {"call", "operation", "disclosed"}
        \/ f.what \in {"head", "input", "log"} /\ ConcernsIt(q, h, perm, f.of)
        \/ f.what = "head" /\ f.of \in mined /\ \E l \in TxOf[f.of].logs : SeesLog(q, h, l)
        \/ f.what = "log" /\ SeesLog(q, h, f.log)
        \/ /\ f.what = "account"
           /\ \/ item.method = "eth_getCode" /\ f.of \in PublicCode
              \/ f.of \in Own(q, h) \/ SeesOf(q, h, "full_read_access", f.of)
              \/ \E w \in Own(q, h) : NextOf[w] = f.of
              \/ f.of \in Contracts /\ q.contracts[f.of].deployer \in Own(q, h)
        \/ /\ f.what = "disclosed" /\ q.contracts[f.of].from \in 0..f.block
           /\ f.holder \in q.contracts[f.of].discloses \cup q.contracts[f.of].holders
        \/ f.what = "operation" /\ f.of \in Own(q, h)
        \/ f.what = "transfer" /\ TxOf[f.of].to \notin Contracts

(***************************************************************************)
(* Properties                                                              *)
(***************************************************************************)

TypeOK ==
    /\ policy \in Policies /\ mined \subseteq Txs
    /\ req # None =>
          /\ req \in [item : {"open"}, window : SUBSET Policies,
                     h : [is : Callers, roles : SUBSET Roles, wallets : SUBSET Wallets, org : Orgs \cup {Zone}]]
          /\ policy \in req.window

\* Every fact an answer tells is one the caller was entitled to under some
\* mix of the policies in force since its request was authenticated: no
\* method tells more than another would, no look-up outlives the request.
NothingUnseen ==
    ans # None => \A f \in ans.facts :
        f.what # "call" => \E q \in Torn(ans.window) : Entitled(q, ans.h, ans.item, f)

\* The users on whose behalf an address is used: its user, if the caller acts for that user. Of a
\* tenant the address is checked first, and who has it now is looked up for its roles.
ActsAs(q1, q2, h, from) ==
    {u \in ActsFor(q1, h) : from \in q1.people.user[u].wallets}
    \cup {u \in Users : h.is = "tenant" /\ from \in Own(q1, h) \cap q2.people.user[u].wallets}

\* The reads that are open to anybody, from any address.
OpenRead(item, f) == item.method = "eth_call" /\ f.to # NoOne /\ f.data \in {"none", "domain"}

\* Apart from reads that carry no calldata or just ask for the EIP-712 domain,
\* a call, a deployment or a user operation is forwarded only for an address
\* of a user the caller acts for, and under a role of the address's own user,
\* which the transfers within a user operation need not have; only a user with
\* full sequencer access deploys for any address (validatedEthereumCall,
\* validateUserOpPermissions, authorizeDeployment).
SentByOwn ==
    ans # None => \A f \in {g \in ans.facts : g.what = "call" /\ ~OpenRead(ans.item, g)} :
        \E q1, q2 \in Torn(ans.window) : \E u \in Users :
            /\ \/ u \in ActsAs(q1, q2, ans.h, f.from)
               \/ u = ans.h.is /\ f.to = NoOne /\ FullSequencer(ans.h)
            /\ LET roles == IF u = ans.h.is THEN ans.h.roles ELSE q2.people.user[u].roles
               IN  \/ ans.item.method = "eth_sendUserOperation" /\ f.data = "none"
                   \/ \E r \in roles :
                         IF f.to = NoOne
                         THEN {"contract_deployment", "full_sequencer_rpc_access"} \cap Permissions[r] # {}
                         ELSE <<r, f.to>> \in q2.grants.calls

Quiet == req = None /\ ans = None
Reading == {Holder(policy, c) : c \in {d \in Callers : Authenticates(policy, d)}}
Filters4 == {item.filter : item \in {i \in Items : i.method = "eth_getLogs"}}

\* The check before eth_getLogs is sent only saves work: a filter it turns
\* away selects no mined log the caller may read.
PrefilterLosesNothing ==
    Quiet => \A h \in Reading, filter \in Filters4 : \A t \in mined : \A l \in TxOf[t].logs :
        Selects(filter, l) /\ MayReadLog(policy, h, l) => CouldMatch(policy, h, filter)

\* What a block, its receipts or a query for logs lists is what asking for
\* each transaction shows: nothing more, and of the caller's own transactions
\* and of its organizations' users nothing less.
ListingsAgree ==
    Quiet => \A h \in {k \in Reading : Filters(k) /\ ~\E r \in k.roles : RoleOrg[r] = Zone} :
        LET hashes == UNION {ByHash(policy, policy, h, t) : t \in mined}
            receipts == UNION {Receipt(policy, policy, h, t) : t \in mined}
            all == [contracts |-> Any, topics |-> Any]
        IN  /\ Block(policy, policy, h, TRUE) \subseteq hashes
            /\ Block(policy, policy, h, FALSE) \subseteq hashes
            /\ BlockReceipts(policy, policy, h) \subseteq receipts
            /\ GetLogs(policy, policy, h, all) \subseteq receipts
            /\ \A t \in mined : Parties(t) \cap Own(policy, h) # {} =>
                  Everything(t) \subseteq
                      Block(policy, policy, h, FALSE) \cup BlockReceipts(policy, policy, h)
            /\ PendingBlock(policy, h)
                  \subseteq UNION {ByHash(policy, policy, h, t) : t \in Txs \ mined}
=============================================================================
