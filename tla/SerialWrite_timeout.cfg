\* An Xoff counter whose timer runs out.
CONSTANTS
    w1 = w1  w2 = w2  x1 = x1  x2 = x2  i1 = i1  i2 = i2  f1 = f1
    Writes = {}
    XoffCounters = {x1}
    Immediates = {}
    Flushes = {}
    MaxLength = 1
    MaxCounter = 1
    TxFifoAmount = 1
    WriteTimeoutChoices = {FALSE}
    XoffTimeoutChoices = {TRUE}
    ErrorAbort = FALSE
    NULL = NULL
SPECIFICATION Spec
CHECK_DEADLOCK FALSE
INVARIANT SomebodyEndsIt
