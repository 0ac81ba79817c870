\* Two writes, one behind the other, and two immediate characters.
CONSTANTS
    w1 = w1  w2 = w2  x1 = x1  x2 = x2  i1 = i1  i2 = i2  f1 = f1
    Writes = {w1, w2}
    XoffCounters = {}
    Immediates = {i1, i2}
    Flushes = {}
    MaxLength = 1
    MaxCounter = 1
    TxFifoAmount = 2
    WriteTimeoutChoices = {TRUE}
    XoffTimeoutChoices = {FALSE}
    ErrorAbort = FALSE
    NULL = NULL
SPECIFICATION Spec
SYMMETRY SymmetricRequests
CHECK_DEADLOCK FALSE
INVARIANTS
    TypeOK
    CallbacksFindTheirRequest
    OutQueueCount
    CompletedForGood
    NobodyStranded
    SomebodyEndsIt
PROPERTY ImplementsLine
