\* The test of the module: one reload, to another port.
CONSTANTS
    p1 = p1
    p2 = p2
    Ports <- MCPorts
    MaxReloads = 1
    MaxMsgs = 1
SPECIFICATION SrcSpec
PROPERTIES
    ReceivesAfterPortChange
CHECK_DEADLOCK FALSE
