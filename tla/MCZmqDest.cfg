\* Two sources that use up their windows of two messages, every socket type, and two
\* lives of the driver.
CONSTANTS
    s1 = s1
    s2 = s2
    Sources <- MCSources
    MaxPosts = 2
    Window = 2
    MaxLives = 2
    SocketTypes = {"publish", "push", "request"}
SPECIFICATION Spec
INVARIANTS
    SourcesStall
    TakenOnce
    OneRequestOnly
PROPERTIES
    ClosedForGood
    StopsUnlessBlocked
CHECK_DEADLOCK FALSE
