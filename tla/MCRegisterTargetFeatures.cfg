\* One call of each method.
CONSTANTS
    b1 = b1
    b2 = b2
    Threads = {t1}
    Addrs <- SomeAddrs
    Bits = {b1, b2}
    Methods <- SomeMethods
    Cfg <- SmallCfg
    FeatureSets <- CfgsFeatures
    MaxCalls = 1
SPECIFICATION TargetSpec
INVARIANTS
    CommandsUseFeatures
CHECK_DEADLOCK FALSE
