SPECIFICATION ServicesSpec
CONSTANTS
    ann = ann
    bob = bob
    n1 = n1
    n2 = n2
    NoUser = NoUser
    Users = {ann, bob}
    RolesOf <- AdminAndChair
    Ops <- Services
    Departments = {d1}
    Notes <- OneText
    Walked <- UnderReview
    VersionLimit = 2
    MaxHistory = 7
INVARIANTS
    LockProtocol
    LegalHistory
    SnapshotVersions
    SnapshotsExplained
    HistoryChain
PROPERTIES
    ImplementsLifecycle
CHECK_DEADLOCK FALSE
