\* Two client threads share the target; ids wrap after two calls and the
\* server's transport may time out.
CONSTANTS
    a1 = a1
    a2 = a2
    b1 = b1
    b2 = b2
    Threads = {t1, t2}
    Addrs = {a1, a2}
    Bits = {b1, b2}
    Ops <- TwoThreadOps
    Cfg <- TightCfg
    TxnMod = 2
    ServerTimesOut = TRUE
    MaxCalls = 3
SPECIFICATION FairSpec
INVARIANTS
    LinkInv
    PerformedInOrder
    AnsweredSettlesEarlier
PROPERTIES
    Answered
    StopEndsWorker
\* The system rests once MaxCalls calls have ended.
CHECK_DEADLOCK FALSE
