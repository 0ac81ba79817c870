\* Two waits, one after another, two kinds of event, new masks and suspends.
CONSTANTS
    w1 = w1  w2 = w2
    Waits = {w1, w2}
    LineEvents = {"RXCHAR"}
    NULL = NULL
SPECIFICATION FairSpec
CHECK_DEADLOCK FALSE
INVARIANT WaitInv
PROPERTIES
    ImplementsRegister
    SatisfiedEnds
    CancelledEnds
