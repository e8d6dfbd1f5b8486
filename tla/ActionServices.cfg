SPECIFICATION Spec
CONSTANTS
    ann = ann
    bob = bob
    NoUser = NoUser
    Users = {ann, bob}
    RolesOf <- TwoAdmins
    Ops <- Services
    Percents = {0}
    MaxHistory = 3
    MaxReopened = 2
INVARIANTS
    HistoryChain
    ReopeningsCounted
CHECK_DEADLOCK FALSE
