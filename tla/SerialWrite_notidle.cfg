\* A write that comes while an Xoff counter from the queue is counting.
CONSTANTS
    w1 = w1  w2 = w2  x1 = x1  x2 = x2  i1 = i1  i2 = i2  f1 = f1
    Writes = {w1, w2}
    XoffCounters = {x1}
    Immediates = {}
    Flushes = {}
    MaxLength = 1
    MaxCounter = 1
    TxFifoAmount = 1
    WriteTimeoutChoices = {FALSE}
    XoffTimeoutChoices = {FALSE}
    ErrorAbort = FALSE
    NULL = NULL
SPECIFICATION Spec
CHECK_DEADLOCK FALSE
INVARIANT NobodyStranded
