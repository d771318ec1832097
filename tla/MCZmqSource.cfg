\* Two ports and up to two reloads, so that a port can be left and come back to.
CONSTANTS
    p1 = p1
    p2 = p2
    Ports <- MCPorts
    MaxReloads = 2
    MaxMsgs = 2
SPECIFICATION SrcSpec
INVARIANTS
    DeafAfterFirst
    ReloadsThatEnd
CHECK_DEADLOCK FALSE
