----------------------------- MODULE MCWalletRpc -----------------------------
EXTENDS WalletRpc, TLC
CONSTANTS w1, w2, c, d, r1, r2, value

Tx(w, to, rest, kind) == [wallet |-> w, nonce |-> 1, to |-> to, rest |-> rest, kind |-> kind]
SomeTxs == <<Tx(w1, c, value, "call"), Tx(w1, d, value, "transfer"),
             Tx(w2, NoTx, value, "deployment")>>
Policy(call, deploy, wallets, deleted) ==
    [call |-> call, deploy |-> deploy, linked |-> wallets, deleted |-> deleted]
SomePolicies == {Policy(TRUE, TRUE, Senders, FALSE), Policy(FALSE, FALSE, {w2}, FALSE),
                 Policy(TRUE, TRUE, Senders, TRUE)}
Symmetry == Permutations({r1, r2})
=============================================================================
