\* Two components, as many handles.
SPECIFICATION Spec
CONSTANTS
    Cids = {a, b}
    HandleNumbers = {h1, h2}
    Lists <- MCLists
    Limits <- MCLimits
    Garbage = {0, 2}
    Expiration = 1
SYMMETRY MCSymmetry
INVARIANTS
    Consistent
    ListsExact
CHECK_DEADLOCK FALSE
