SPECIFICATION Spec
SYMMETRY Symmetric
CONSTANTS
    root = root
    ann = ann
    cat = cat
    it = it
    hr = hr
    Users = {root, ann, cat}
    Founders = {root, ann}
    Actors = {root, ann}
    Departments = {it, hr}
    Roles = {"admin"}
    UserManagers = {"admin"}
    Assigners = {"admin"}
    OrgManagers = {"admin"}
    FirstRoles <- Granted
    Secrets = {"old", "new"}
    FirstSecret = "old"
    NoSecret = "none"
    MaxRequests = 3
    MaxFaults = 1
INVARIANTS
    TypeOK
    LogTellsRows
PROPERTIES
    OverwritesExplained
    AssignmentsJudged
    LockoutIsFinal
CHECK_DEADLOCK FALSE
