SPECIFICATION FairSpec
CONSTANTS
    ann = ann
    bob = bob
    board = board
    NoMeeting = NoMeeting
    Users = {ann, bob}
    Existing = {1, 2, 3}
    Sources = {1, 2}
    Closed = {2}
    Forms <- Posted
    Meetings = {board}
    Deletable = {3, 4}
    Attempts = 2
    MaxRef = 4
    MaxMeetings = 2
INVARIANTS
    TypeOK
    ProbeReserves
    CirclesNeedLinks
    CopiesMatchLinks
PROPERTIES
    ImplementsLedger
    RequestsEnd
CHECK_DEADLOCK FALSE
