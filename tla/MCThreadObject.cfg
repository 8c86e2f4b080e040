SPECIFICATION FairSpec
CONSTANTS
    c1 = c1
    c2 = c2
    c3 = c3
    Clients <- MCClients
    MaxRuns = 2
CHECK_DEADLOCK FALSE
INVARIANTS OneThread SelfIsAlive SelfIsKnown AtMostOneMore
PROPERTY ExitWaitEnds
