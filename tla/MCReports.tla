------------------------------ MODULE MCReports ------------------------------
(* Small instances of Reports for TLC.  32 and 1 cents make a tie: 3.125%.   *)
EXTENDS Reports

CONSTANTS east, west, north, south

\* Nothing keeps a figure above zero, in the forms or in the models.
Entered == {-1, 1, 32}

Team == [g \in SalesGroups |-> IF g = east THEN north ELSE south]

User(name, roles, departments) == [name |-> name, roles |-> roles, departments |-> departments]

Staff == {User("mia", {"Management Administrator"}, {}), User("carl", {"Department Contributor"}, {"it"}),
          User("vera", {"Viewer"}, {}), User("sue", {"Minutes Secretary"}, {}), User("nora", {}, {})}

\* Owned by nora, assigned to carl, or created by nora and nobody's.
People == {[owner |-> "nora", assignees |-> {}], [owner |-> "none", assignees |-> {"carl"}],
           [owner |-> "none", assignees |-> {}]}

RowsOfItems ==
    {[status |-> s, due |-> d, department |-> dep, owner |-> p.owner, assignees |-> p.assignees,
      creator |-> "nora", chair |-> "none"] :
        s \in {"OPEN", "COMPLETED"}, d \in {NoDate, 1, 2}, dep \in {"it", NoDepartment}, p \in People}

\* An item has a discussion, a decision or neither.
RowsOfAgenda ==
    [department : {"it", NoDepartment}, discussion : BOOLEAN, decision : BOOLEAN]
        \ [department : {"it", NoDepartment}, discussion : {TRUE}, decision : {TRUE}]

\* Meetings made this month, and one made before.
RowsOfMeetings ==
    [status : {"DRAFT", "FOR_REVIEW", "RETURNED", "APPROVED", "PUBLISHED"}, fresh : {TRUE}]
        \cup {[status |-> "APPROVED", fresh |-> FALSE]}
=============================================================================
