\* Two client threads, no id used twice: the link
\* implements the register service.
CONSTANTS
    a1 = a1
    a2 = a2
    b1 = b1
    b2 = b2
    Threads = {t1, t2}
    Addrs = {a1, a2}
    Bits = {b1, b2}
    Ops <- ServiceOps
    Cfg <- TightCfg
    TxnMod = 3
    ServerTimesOut = TRUE
    MaxCalls = 3
SPECIFICATION Spec
PROPERTIES
    ImplementsService
\* The system rests once MaxCalls calls have ended.
CHECK_DEADLOCK FALSE
