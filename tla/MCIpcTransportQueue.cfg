\* Three consumers, one of them with a stop token.
CONSTANTS
    p1 = p1
    p2 = p2
    c1 = c1
    c2 = c2
    w1 = w1
    Producers <- TwoProducers
    Consumers <- ThreeConsumers
    TokenConsumers <- Worker
    MaxPushes = 3
SPECIFICATION FairSpec
INVARIANTS
    TypeOK
    WakeupsCover
    Covered
PROPERTIES
    KeepsContract
    BuffersArrive
    StopEndsPop
