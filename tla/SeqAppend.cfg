SPECIFICATION FairSpec
CONSTANTS
    w1 = w1
    w2 = w2
    w3 = w3
    i1 = i1
    i2 = i2
    Writers = {w1, w2, w3}
    Indexes = {i1, i2}
    HandleIdx <- TwoIndexes
    SeqRetries = 1
    MaxCalls = 2
INVARIANTS
    TypeOK
    SeqDense
    AcknowledgedOnce
    ExhaustedOnlyByProgress
PROPERTIES
    AppendOnly
    ImplementsLog
    EveryCallReturns
CHECK_DEADLOCK FALSE
