CONSTANTS
    t1 = t1
    t2 = t2
    a1 = a1
    a2 = a2
    b1 = b1
    b2 = b2
    a = a
    b = b
    o1 = o1
    o2 = o2
    m1 = m1
    m2 = m2
    Null = Null
    PortObjs <- MCPortObjs
    Messages <- MCMessages
    Receivers <- MCReceivers
    InitRights <- MCInitRights
    Threads <- MCTwoThreads
    Libs <- MCLibs
    Names <- MCNames
    Name <- MCName
    Needs <- MCNeedsChain
    Start <- MCStartSame
    RelocCanFail = TRUE
SPECIFICATION StoreSpec
CHECK_DEADLOCK FALSE
INVARIANT AddSuccessIsDurable
