SPECIFICATION Spec
CONSTANTS
    root = root
    ann = ann
    board = board
    NoMeeting = NoMeeting
    Users = {root, ann}
    Superusers = {root}
    Tables = {"target"}
    Amounts = {1}
    Statuses = {"OPEN", "CLOSED"}
    WeekCounts = {1, 2}
    Meetings = {board}
    MaxSnapshots = 2
CHECK_DEADLOCK FALSE
INVARIANTS
    TypeOK
    WeeksExplained
PROPERTIES
    ClosedMeansClosed
    LockedWeeksKept
