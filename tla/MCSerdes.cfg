\* Codec: every message type, three configurations, one alteration.
CONSTANTS
    Cfgs <- CheckedCfgs
    TxnIds = {7}
    Values <- CheckedValues
    RowCounts <- NoneOneAndTheLimit
    Flips <- CheckedFlips
SPECIFICATION Spec
INVARIANTS
    TypeOK
    SizeAsCalculated
    CommandsAreAnswerable
    RefusalsAreNecessary
    DecodesExactly
PROPERTIES
    RoundTrip
\* A codec call ends; there is nothing to do after it.
CHECK_DEADLOCK FALSE
