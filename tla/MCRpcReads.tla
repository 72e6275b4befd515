---------------------------- MODULE MCRpcReads ----------------------------
EXTENDS RpcReads
CONSTANTS ann, bo, cy, o1, o2, wa, wb, wc, router, foreign, token, sys, vacant,
          member, reader, byHash, logs, deployer, zoneReader, zoneLogs, operator

RoleOrgs == [r \in Roles |-> IF r \in {zoneReader, zoneLogs, operator} THEN Zone ELSE o1]
SomePermissions == [r \in Roles |->
    CASE r = member     -> {"org_rpc_access"}
      [] r = reader     -> {"full_read_access"}
      [] r = byHash     -> {"rpc_read_eth_getTransactionByHash"}
      [] r = logs       -> {"rpc_read_eth_getLogs", "org_rpc_access"}
      [] r = deployer   -> {"contract_deployment", "org_rpc_access"}
      [] r = zoneReader -> {"full_read_access"}
      [] r = zoneLogs   -> {"rpc_read_eth_getLogs", "rpc_read_eth_getBlockByNumber"}
      [] r = operator   -> {"full_sequencer_rpc_access"}]

Log(c, w) == [contract |-> c, topic |-> w]
Tx(from, to, plain, ls) == [from |-> from, to |-> to, plain |-> plain, logs |-> ls]
SomeTxs == <<Tx(wb, router, FALSE, {Log(router, wb), Log(token, wa), Log(foreign, wa)}),
             Tx(wb, foreign, FALSE, {Log(foreign, wb)}),
             Tx(wb, sys, FALSE, {Log(sys, wa)}),
             Tx(wb, NoOne, FALSE, {}),
             Tx(wb, wa, TRUE, {}),
             Tx(wc, token, FALSE, {})>>
SomeNext == [w \in Wallets |-> IF w = wa THEN vacant ELSE NoOne]

(* Policies. *)

User(roles, wallets, org) == [roles |-> roles, wallets |-> wallets, org |-> org]
PeopleOf(roles, org, walletsOfAnn, deleted) ==
    [user |-> [u \in Users |-> CASE u = ann -> User(roles, walletsOfAnn, org)
                            [] u = bo  -> User({member}, {wb}, o2)
                            [] u = cy  -> User({deployer}, {wc}, o1)],
     app |-> [roles |-> roles, linked |-> {org} \cap Orgs],
     tenant |-> [roles |-> roles, members |-> {ann}],
     deleted |-> deleted]

\* ann's wallet has become bo's.
Passed == [PeopleOf({reader}, o1, {}, {}) EXCEPT !.user[bo].wallets = {wa, wb}]

RoleSets == {{}, {member}, {reader}, {member, reader}, {byHash, member}, {logs},
             {deployer}, {zoneReader}, {zoneLogs}, {operator, member}}
SomePeople == {PeopleOf(R, o1, {wa}, {}) : R \in RoleSets}
    \cup {Passed} \cup {PeopleOf({member, reader}, org, ws, dead) : org \in {o1, o2, Zone}, ws \in {{}, {wa}}, dead \in {{}, {o1}}}

Contract(org, by, discloses, holders) ==
    [org |-> org, deployer |-> by, discloses |-> discloses, holders |-> holders, from |-> 1]
ContractsOf(org) ==
    [a \in Contracts |-> CASE a = router  -> Contract(org, wa, IF org = o1 THEN {"supply"} ELSE {"bytecode"}, IF org = o1 THEN {wb} ELSE {})
                           [] a = foreign -> Contract(o2, wb, {}, {})
                           [] a = token   -> Contract(Zone, NoOne, {}, {})
                           [] a = vacant  -> Contract(Zone, NoOne, {}, {})
                           [] a = sys     -> Contract(Zone, NoOne, {}, {})]
ContractSets == {ContractsOf(o1), ContractsOf(Zone)}

Perm(c, roles, topic, orgOnly) == [contract |-> c, roles |-> roles, topic |-> topic, orgOnly |-> orgOnly]
GrantSets ==
    { [events |-> {}, calls |-> {}],
      [events |-> {Perm(token, {member}, "userAddress", FALSE), Perm(foreign, {member}, Any, TRUE)},
       calls |-> {<<member, foreign>>}],
      [events |-> {Perm(router, {member}, wb, FALSE), Perm(foreign, {member, zoneLogs}, wa, FALSE),
                   Perm(sys, {member}, Any, FALSE)},
       calls |-> {<<member, router>>, <<reader, token>>}] }

SomePolicies == [people : SomePeople, contracts : ContractSets, grants : GrantSets]

\* Edits move what a member and reader of o1 may see; every other policy is
\* only started from.
Edited == [people : {PeopleOf({member, reader}, o1, {wa}, {}), PeopleOf({member, reader}, o1, {}, {}),
                     PeopleOf({member, reader}, o2, {wa}, {}), PeopleOf({reader}, o1, {wa}, {}), Passed,
                     PeopleOf({member, reader}, o1, {wa}, {o1})},
           contracts : ContractSets,
           grants : {g \in GrantSets : g.calls # {}}]
SomeEdits ==
    {e \in Edited \X Edited : \E f \in DOMAIN e[1] :
        e[1][f] # e[2][f] /\ \A g \in DOMAIN e[1] \ {f} : e[1][g] = e[2][g]}

SomeItems ==
    [method : {"eth_getTransactionByHash", "eth_getTransactionReceipt"}, tx : {1, 2, 3, 5, 6}]
    \cup [method : {"eth_sendRawTransaction"}, tx : {1, 2, 4, 5}]
    \cup [method : {"eth_getBlockByNumber", "eth_getBlockByHash", "pending", "eth_getBlockReceipts", "eth_newFilter"}]
    \cup [method : {"eth_getBlockTransactionCountByNumber"}, pending : BOOLEAN]
    \cup [method : {"eth_getLogs"}, filter : [contracts : {Any, {router, sys}, {token}}, topics : {Any, {wa}, {wb}}]]
    \cup [method : {"eth_getCode", "eth_getBalance"}, address : {wa, wb, router, sys, vacant}]
    \cup [method : {"eth_call"}, from : {wa, wb}, to : {router, token, NoOne}, data : {"call"}]
    \cup [method : {"eth_call"}, from : {wb, NoOne}, to : {router, NoOne}, data : {"none", "domain"}]
    \cup [method : {"eth_sendUserOperation"},
          op : {[sender |-> w, decodes |-> TRUE, extras |-> FALSE,
                 calls |-> {[to |-> foreign, data |-> "call"], [to |-> wb, data |-> "none"]}] : w \in {wa, wb}}]
    \cup [method : {"eth_getUserOperationByHash"}, sender : {wa, wb}]
    \cup [method : {"disclosure"}, of : {"bytecode", "supply", wb}, address : {router, foreign}, block : {0, 1}]
SomeMined == {{1, 3, 4, 6}, {1, 2, 3, 4, 6}}
=============================================================================
