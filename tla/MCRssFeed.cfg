\* Two writers, a backlog of two messages, and four messages, so that up to two
\* are removed while a feed of two entries is formatted, of which the buffers of
\* the socket take one.  Two ports: a reload that works and one that does not.
CONSTANTS
    w1 = w1
    w2 = w2
    Writers <- MCWriters
    Limit = 2
    Buffers = 1
    MaxMsgs = 4
    p1 = p1
    p2 = p2
    Ports <- MCPorts
SPECIFICATION RssSpec
INVARIANTS
    BacklogIsBounded
    FeedIsRight
    PortsAreUsedUp
PROPERTIES
    MainThreadReturns
CHECK_DEADLOCK FALSE
