\* Two parameters, and one bad global or one more than there are libraries.  A
\* call takes up to five slots above what initialisation and the drops left, so
\* that the second or third drop fills it.  Two lives; batches of two, so that the
\* four messages make a short batch, a whole one and a rest.
CONSTANTS
    s1 = s1
    s2 = s2
    Sources <- MCSources
    MaxPosts = 2
    Window = 1
    MaxLives = 2
    NParams = 2
    BadGlobals = {1, 4}
    StackSlots = 9
    BatchSize = 2
SPECIFICATION EsSpec
INVARIANTS
    DropsPileUp
    CrashNeedsDropOrBadParameter
    WindowConserved
    ClosedStateComesBack
    BatchesAreWhole
CHECK_DEADLOCK FALSE
