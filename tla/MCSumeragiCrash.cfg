CONSTANTS
    p1 = p1
    p2 = p2
    p3 = p3
    p4 = p4
    t1 = t1
    NoBlock = NoBlock
    NoMsg = NoMsg
SPECIFICATION FairSpec
PROPERTY ViewChangeAccepted
