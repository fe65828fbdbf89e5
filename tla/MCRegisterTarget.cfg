\* Two threads, two calls.
CONSTANTS
    b1 = b1
    b2 = b2
    Threads = {t1, t2}
    Addrs <- SomeAddrs
    Bits = {b1, b2}
    Methods <- SomeMethods
    Cfg <- SmallCfg
    FeatureSets <- CfgsFeatures
    MaxCalls = 2
SPECIFICATION TargetSpec
SYMMETRY Symmetry
INVARIANTS
    MethodsInv
    TouchesInOrder
    LeavesAtMostOneBehind
    FeaturesDoNotShow
    UpdatesKept
\* The system rests once MaxCalls calls have ended.
CHECK_DEADLOCK FALSE
