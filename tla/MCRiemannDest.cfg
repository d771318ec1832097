\* Two sources of two messages with a window of one, so that posts, inserts and
\* outages interleave; the sequence number wraps after three messages; one reload.
CONSTANTS
    s1 = s1
    s2 = s2
    Sources <- MCSources
    MaxPosts = 2
    Window = 1
    MaxLives = 2
    DropOnError = TRUE
    SeqMax = 3
SPECIFICATION Spec
INVARIANTS
    EveryVerdictIsStored
    ReachedOnceInOrder
PROPERTIES
    BrokenForGood
    PromiseSpec
CHECK_DEADLOCK FALSE
