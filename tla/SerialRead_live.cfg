\* Liveness: an interval timer and perhaps a total timer, or neither, one read behind
\* another, and errors that abort them; a silent line leaves a read waiting until it
\* times out or is cancelled.
CONSTANTS
    r1 = r1  r2 = r2  q1 = q1
    Reads = {r1, r2}
    Resizes = {}
    ReadLengths = {1}
    MaxBytes = 2
    InitialSize = 1
    NewSizes = {2}
    TimeoutChoices <- MCIntervalOrBoth
    ErrorAbort = TRUE
    ErrorCharOn = FALSE
    NULL = NULL
SPECIFICATION FairSpec
CHECK_DEADLOCK FALSE
INVARIANT ReadInv
PROPERTIES
    ImplementsStream
    CancelledEnds
    CommErrorEndsAll
    TimedReadEnds
