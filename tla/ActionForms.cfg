SPECIFICATION Spec
CONSTANTS
    ann = ann
    bob = bob
    NoUser = NoUser
    Users = {ann, bob}
    RolesOf <- SuperuserAndAuthor
    Ops <- Endpoints
    Percents = {0}
    MaxHistory = 2
    MaxReopened = 1
INVARIANTS
    CompletionAgrees
    ReopenedByAdmin
PROPERTIES
    BlockersCameBetween
CHECK_DEADLOCK FALSE
