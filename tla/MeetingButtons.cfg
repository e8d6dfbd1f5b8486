SPECIFICATION ButtonsSpec
CONSTANTS
    ann = ann
    bob = bob
    n1 = n1
    n2 = n2
    NoUser = NoUser
    Users = {ann, bob}
    RolesOf <- AdminAndChair
    Ops <- Buttons
    Departments = {d1}
    Notes <- TwoTexts
    Walked <- UnderReview
    VersionLimit = 100
    MaxHistory = 7
INVARIANTS
    ApprovalsOnRecord
    FrozenWhenApproved
CHECK_DEADLOCK FALSE
