SPECIFICATION Spec
CONSTANTS
    ann = ann
    bob = bob
    Users = {ann, bob}
    Typed = {1}
    MaxOrder = 20
    Batches = {2}
    MaxItems = 4
SYMMETRY Symmetric
INVARIANTS
    TypeOK
    ReorderAlwaysFits
PROPERTIES
    ReorderedAsPosted
    ImplementsList
CHECK_DEADLOCK FALSE
