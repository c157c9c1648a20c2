\* The schedule ends after its last step: a state with no successor is its end, not a deadlock.
CONSTANTS
    p1 = p1
    p2 = p2
    p3 = p3
    p4 = p4
    t1 = t1
    t2 = t2
    NoBlock = NoBlock
    NoMsg = NoMsg
    Peers <- MCPeers
    InitialOrder <- MCInitialOrder
    Txs = {t1, t2}
    GenesisPeer = p1
    MayShutdown = {}
    MayCrash = {}
    Submissions <- MCSubmitFork
    MaxTxsInBlock = 1
    MaxView = 1
    ExpiringTxs = {}
    LossyControl = FALSE
    LossyNetwork = FALSE
SPECIFICATION ForkSpec
INVARIANT FinalizedBlocksAgree
CHECK_DEADLOCK FALSE
