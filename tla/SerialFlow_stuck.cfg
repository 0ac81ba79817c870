\* An Xoff or Xon to be sent while the sender, between two writes, drops RTS.
CONSTANTS
    a = a  b = b
    Ends <- MCEnds
    Peer <- MCPeer
    BufferSize = 2
    XoffLimit = 1
    XonLimit = 0
    HandFlows <- MCStuck
    Requests <- MCStuckRequests
    MaxRequests <- MCStuckMax
    MaxEvents = 3
    Lengths <- MCStuckLengths
    WatchesEmpty <- MCNoEmpty
SPECIFICATION FairSpec
CHECK_DEADLOCK FALSE
PROPERTY XonXoffIsSent
