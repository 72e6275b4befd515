SPECIFICATION WalletRpcSpec
CONSTANTS
    w1 = w1 w2 = w2 c = c d = d r1 = r1 r2 = r2 value = value
    Senders = {w1, w2}
    WalletTxs = {1, 2, 3}
    WalletTxOf <- SomeTxs
    Requests = {r1, r2}
    NoTx = NoTx
    NoRow = NoRow
    Rights <- SomePolicies
    MaxTokens = 1
SYMMETRY Symmetry
CHECK_DEADLOCK FALSE
INVARIANTS ForwardsOnlyAuthorized TellsOnlyAuthorized AcknowledgedIsPollable
