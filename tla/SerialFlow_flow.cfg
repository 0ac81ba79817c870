\* A sender that obeys CTS and Xoff against a receiver that handshakes with RTS and
\* Xon/Xoff, and that may close: one write, longer than the typeahead buffer.
CONSTANTS
    a = a  b = b
    Ends <- MCEnds
    Peer <- MCPeer
    BufferSize = 3
    XoffLimit = 2
    XonLimit = 0
    HandFlows <- MCFlows
    Requests <- MCFlowRequests
    MaxRequests <- MCFlowMax
    MaxEvents = 2
    Lengths <- MCFlowLengths
    WatchesEmpty <- MCNoEmpty
SPECIFICATION FairSpec
CHECK_DEADLOCK FALSE
INVARIANTS HandshakeNeverOverruns CloseLetsGo
PROPERTIES HeldOffIsLetGo WritesEnd CloseEnds
