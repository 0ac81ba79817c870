\* Two reads, one behind the other, with both timers or ended by the first
\* character, and a resize that moves one character, none or both in its first move;
\* an overrun leaves the error character.
CONSTANTS
    r1 = r1  r2 = r2  q1 = q1
    Reads = {r1, r2}
    Resizes = {q1}
    ReadLengths = {2}
    MaxBytes = 3
    InitialSize = 2
    NewSizes = {3}
    TimeoutChoices <- MCTimedOrFirst
    ErrorAbort = FALSE
    ErrorCharOn = TRUE
    NULL = NULL
SYMMETRY SymmetricReads
SPECIFICATION Spec
CHECK_DEADLOCK FALSE
INVARIANTS
    TypeOK
    CallbacksFindTheirRead
    InterruptOwnsALiveRead
    CompletedForGood
    NobodyStranded
PROPERTY ImplementsStream
