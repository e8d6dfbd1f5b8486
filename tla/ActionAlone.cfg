SPECIFICATION Spec
CONSTANTS
    ann = ann
    bob = bob
    NoUser = NoUser
    Users = {ann}
    RolesOf <- SuperuserAlone
    Ops <- Undeletable
    Percents = {0, 100}
    MaxHistory = 3
    MaxReopened = 2
INVARIANTS
    CompletedUnblocked
PROPERTIES
    ImplementsLifecycle
CHECK_DEADLOCK FALSE
