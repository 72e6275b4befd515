SPECIFICATION FairDeploymentsSpec
CONSTANTS
    Addresses = {a1}
    Versions = {1, 2}
    Deploys = {d1, d2}
    Readers = {x1}
    NoValue = NoValue
    ChainTypes = {"zksync-os", "besu"}
    BatchLimit = 1
CHECK_DEADLOCK FALSE
INVARIANTS MinedHasAuthor SuccessBacked
PROPERTIES ResolvedOnce BacklogDrains
