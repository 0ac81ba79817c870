\* A flush among a write, timed or not, and an Xoff counter with its timeout, and
\* errors that abort them.
CONSTANTS
    w1 = w1  w2 = w2  x1 = x1  x2 = x2  i1 = i1  i2 = i2  f1 = f1
    Writes = {w1}
    XoffCounters = {x1}
    Immediates = {}
    Flushes = {f1}
    MaxLength = 2
    MaxCounter = 1
    TxFifoAmount = 1
    WriteTimeoutChoices = {TRUE, FALSE}
    XoffTimeoutChoices = {TRUE}
    ErrorAbort = TRUE
    NULL = NULL
SPECIFICATION Spec
CHECK_DEADLOCK FALSE
INVARIANTS
    CallbacksFindTheirRequest
    InterruptOwnsALiveRequest
    OutQueueCount
PROPERTY ImplementsLine
