\* A window of one message, which a destination that is slow for a moment fills.
CONSTANTS
    Freq = 2
    Window = 1
    MaxInits = 1
SPECIFICATION Spec
PROPERTIES
    Periodically
CHECK_DEADLOCK FALSE
