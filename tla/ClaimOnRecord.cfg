SPECIFICATION Spec
CONSTANTS
    ann = ann
    bob = bob
    n1 = n1
    n2 = n2
    NoUser = NoUser
    Users = {ann, bob}
    RolesOf <- SuperuserAndSecretary
    Ops <- FormsAndReview
    Departments = {}
    Notes <- TwoTexts
    Walked <- UnderReview
    VersionLimit = 100
    MaxHistory = 6
PROPERTIES
    StatusMovesOnRecord
CHECK_DEADLOCK FALSE
