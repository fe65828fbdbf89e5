\* One call whose command or response may be lost.
CONSTANTS
    a1 = a1
    b1 = b1
    Threads = {t1}
    Addrs = {a1}
    Bits = {b1}
    Ops <- UdpOps
    Cfg <- TightCfg
    TxnMod = 2
    ServerTimesOut = TRUE
    MaxCalls = 1
    MaxMishaps = 1
SPECIFICATION UdpFairSpec
PROPERTIES
    RecvEnds
CHECK_DEADLOCK FALSE
