\* A length field narrower than LengthType: a count the code accepts is lost.
CONSTANTS
    Cfgs <- NarrowLengthCfgs
    TxnIds = {7}
    Values <- NarrowValues
    RowCounts <- OneRow
    Flips = {0}
SPECIFICATION Spec
INVARIANT CountsSurvive
CHECK_DEADLOCK FALSE
