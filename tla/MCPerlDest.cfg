\* Two sources of two messages: up to four deaths of the script, and any mixture
\* of deaths, answers and failed conversions; two lives of the interpreter.
CONSTANTS
    s1 = s1
    s2 = s2
    Sources <- MCSources
    MaxPosts = 2
    Window = 2
    MaxLives = 2
    DropOnError = TRUE
SPECIFICATION Spec
INVARIANTS
    StoredIsTrueOrLaterDeath
    StackTellsDeaths
    DanglingContext
    InterpretersLeft
CHECK_DEADLOCK FALSE
