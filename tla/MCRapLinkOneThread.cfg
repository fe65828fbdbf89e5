\* One client thread whose transaction ids wrap after two calls; the server's
\* transport may time out and the length field does not hold every count.
CONSTANTS
    a1 = a1
    a2 = a2
    b1 = b1
    b2 = b2
    Threads = {t1}
    Addrs = {a1, a2}
    Bits = {b1, b2}
    Ops <- OneThreadOps
    Cfg <- NarrowCfg
    TxnMod = 2
    ServerTimesOut = TRUE
    MaxCalls = 4
SPECIFICATION Spec
INVARIANTS
    TypeOK
    StaleOnlyAfterSlips
    AckIsOwn
    AnswerIsTheTargets
    WorkerSurvives
\* The system rests once MaxCalls calls have ended.
CHECK_DEADLOCK FALSE
