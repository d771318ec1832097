\* Three lives of the driver, two seconds between messages, a window of two.
\* For the monitor source tables of up to three entries of four kinds of keys;
\* two failed calls, the second of which may leave the stack short of a slot.
CONSTANTS
    Freq = 2
    Window = 2
    MaxInits = 3
    MaxEntries = 3
    Slots = 5
    MaxErrors = 2
SPECIFICATION MCSpec
INVARIANTS
    TimerFollowsWindow
    CorruptFromSecondLifeOn
    TablesArePostedRight
    CrashHasACause
PROPERTIES
    WalkComesToAnEnd
CHECK_DEADLOCK FALSE
