SPECIFICATION Spec
CONSTANTS
    east = east
    west = west
    north = north
    south = south
    NoDepartment = NoDepartment
    NoDate = NoDate
    Active = {"OPEN", "IN_PROGRESS", "BLOCKED", "UNDER_REVIEW", "REOPENED"}
    Terminal = {"COMPLETED", "CANCELLED"}
    SalesGroups = {east, west}
    SalesTeams = {north, south}
    TeamOf <- Team
    Amounts <- Entered
    Items = {1, 2}
    ItemRows <- RowsOfItems
    Departments = {"it", "hr"}
    AgendaRows <- RowsOfAgenda
    Meetings = {1, 2}
    MeetingRows <- RowsOfMeetings
    Today = 2
    Visitors <- Staff
    MaxChanges = 2
INVARIANTS
    PagesExplained
    FiguresAgree
    ListsAgree
    FilesGuarded
CHECK_DEADLOCK FALSE
