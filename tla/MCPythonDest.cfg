\* One source of two messages with a window of two, and two references to True:
\* one of them may be lost, the second is the death of the process.  Two lives and
\* a failed init, each with or without an init and a deinit function.
CONSTANTS
    s1 = s1
    s2 = s2
    Sources = {s1}
    MaxPosts = 2
    Window = 2
    DropOnError = TRUE
    BoolRefs = 2
    MaxLives = 2
    MaxFailures = 1
SPECIFICATION Spec
INVARIANTS
    LivesPinTheScript
    ReloadKeepsMessages
    GilPaired
    StoredIffTaken
    TrueWearsOut
PROPERTIES
    EveryPostIsSettled
CHECK_DEADLOCK FALSE
