\* Two threads that set and read two names, four calls that set or are under
\* way; words of 128 values, ids of 18, bytes of three, and memory for texts of
\* twenty.
CONSTANTS
    t1 = t1
    t2 = t2
    v1 = v1
    v2 = v2
    x = x
    y = y
    Unset = Unset
    Threads <- MCThreads
    Names <- MCNames
    Values <- MCValues
    MaxCalls = 4
    Word = 128
    Memory = 20
    Byte = 3
    Ids = 18
    Numbers <- MCNumbers
    Texts <- MCTexts
    Services <- MCServices
    Protocols <- MCProtocols
    Users <- MCUsers
    Groups <- MCGroups
    Members <- MCMembers
SPECIFICATION Spec
INVARIANTS
    ReadsAreCurrent
    PaddingIsRight
    TextsReadBack
PROPERTIES
    StoreSpec
CHECK_DEADLOCK FALSE
