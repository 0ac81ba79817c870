\* An end that toggles RTS or not, with every request there is, against one that holds
\* off with DTR and Xoff and ignores what it receives without DSR.
CONSTANTS
    a = a  b = b
    Ends <- MCEnds
    Peer <- MCPeer
    BufferSize = 2
    XoffLimit = 1
    XonLimit = 0
    HandFlows <- MCToggles
    Requests <- MCToggleRequests
    MaxRequests <- MCToggleMax
    MaxEvents = 2
    Lengths <- MCToggleLengths
    WatchesEmpty <- MCEmpty
SPECIFICATION Spec
CHECK_DEADLOCK FALSE
INVARIANTS TypeOK CountExact NoPathAfterClose RtsCoversTransmission
