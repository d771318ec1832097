\* Three objects: a message from the queue, one the script made and a template can
\* all be there at once, or three inserts can follow each other.
CONSTANTS
    o1 = o1
    o2 = o2
    o3 = o3
    Objects <- MCObjects
SPECIFICATION ObjSpec
INVARIANTS
    RefsAreOwners
SYMMETRY Symmetry
CHECK_DEADLOCK FALSE
