CONSTANTS
    p1 = p1
    p2 = p2
    p3 = p3
    p4 = p4
    t1 = t1
    t2 = t2
    NoBlock = NoBlock
    NoMsg = NoMsg
    Peers <- MCPeers
    InitialOrder <- MCInitialOrder
    Txs = {t1}
    GenesisPeer = p1
    MayShutdown = {}
    MayCrash = {}
    Submissions <- MCSubmitLeaders
    MaxTxsInBlock = 1
    MaxView = 1
    ExpiringTxs = {}
    LossyControl = FALSE
    LossyNetwork = FALSE
SPECIFICATION Spec
PROPERTY ProposalOfCurrentViewVoted
