\* Liveness: a line that may be held up for ever, a counter without timeout.
CONSTANTS
    w1 = w1  w2 = w2  x1 = x1  x2 = x2  i1 = i1  i2 = i2  f1 = f1
    Writes = {w1}
    XoffCounters = {x1}
    Immediates = {i1}
    Flushes = {}
    MaxLength = 1
    MaxCounter = 1
    TxFifoAmount = 1
    WriteTimeoutChoices = {TRUE}
    XoffTimeoutChoices = {FALSE}
    ErrorAbort = FALSE
    NULL = NULL
SPECIFICATION FairSpec
CHECK_DEADLOCK FALSE
PROPERTIES
    CancelledEnds
    TimedWriteEnds
