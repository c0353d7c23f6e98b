SPECIFICATION RefCountSpec
CONSTANTS
    Objects = {o1, o2, o3, o4}
    NoObject = NoObject
SYMMETRY Symmetry
INVARIANTS
    LibraryHeld
PROPERTIES
    LibraryUsedProperly
