CONSTANTS
    p1 = p1
    p2 = p2
    p3 = p3
    p4 = p4
    h = h
    NoMsg = NoMsg
    InitialOrder <- MCInitialOrder
    Latest = h
    BlockMsgs <- MCBlockMsgs
    ControlMsgs <- MCControlMsgs
    MaxInARow = 3
    MaxSends = 5
SPECIFICATION Spec
INVARIANT StaleBlockCreatedPruned
