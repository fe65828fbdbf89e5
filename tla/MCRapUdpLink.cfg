\* One client thread; two mishaps at most.
CONSTANTS
    a1 = a1
    b1 = b1
    Threads = {t1}
    Addrs = {a1}
    Bits = {b1}
    Ops <- UdpOps
    Cfg <- TightCfg
    TxnMod = 2
    ServerTimesOut = TRUE
    MaxCalls = 3
    MaxMishaps = 2
SPECIFICATION UdpFairSpec
INVARIANTS
    UdpInv
    AnswerIsTheTargets
    OwnOrARoundAway
    RepeatsAreCopies
    InStepUnlessCopied
PROPERTIES
    AnsweredUnlessLost
\* The system rests once MaxCalls calls have ended.
CHECK_DEADLOCK FALSE
