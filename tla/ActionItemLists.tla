--------------------------- MODULE ActionItemLists ---------------------------
(***************************************************************************)
(* Which action items the lists, the dashboard and the reports show: every *)
(* page selects rows of the same table with a filter of its own.           *)
(***************************************************************************)
EXTENDS Integers, FiniteSets

CONSTANTS
    NoDepartment,   \* the NULL of an item's department
    NoDate,         \* the NULL of its due date
    Active,         \* ACTIVE_STATUSES
    Terminal        \* TERMINAL_STATUSES

ASSUME StatusesAssumption == Active \cap Terminal = {}

Managers == {"System Administrator", "Management Administrator"}

Authors == Managers \cup {"Meeting Chairperson", "Minutes Secretary", "Department Contributor"}

Viewers == Authors \cup {"Viewer"}

\* due_date__lt: NULL is never before a date.
Before(date, today) == date # NoDate /\ date < today

\* Mutant of IsOverdue: an item that is due today is overdue.
IsOverdueFromToday(i, today) == i.status \notin Terminal /\ i.due # NoDate /\ i.due <= today

\* ActionItem.is_overdue, which marks the rows of every list.
IsOverdue(i, today) == i.due # NoDate /\ i.status \notin Terminal /\ i.due < today

\* OverdueActionItemsView.get_items of the reports.
OverdueReport(items, today) ==
    {k \in DOMAIN items : items[k].status \notin Terminal /\ Before(items[k].due, today)}

\* The filter of _related_qs_for_user and of dashboard_action_counts.
Mine(user, i) == user.name \in i.assignees \/ user.name = i.owner

\* overdue_action_items_queryset.
OverdueQuery(user, items, today) ==
    {k \in DOMAIN items :
        /\ items[k].status \in Active /\ Before(items[k].due, today)
        /\ user.roles \cap Viewers # {} \/ Mine(user, items[k])}

\* get_visible_for_user.  NULL in department_id__in matches nothing.
Listed(user, i) ==
    \/ user.roles \cap Managers # {}
    \/ Mine(user, i)
    \/ user.roles \cap Authors # {} /\ i.department # NoDepartment /\ i.department \in user.departments

ListView(user, items) == {k \in DOMAIN items : Listed(user, items[k])}

MyView(user, items) == {k \in ListView(user, items) : Mine(user, items[k])}

\* A manager who contributes to no department sees nothing, any other one all.
DepartmentView(user, items) ==
    IF user.departments = {} THEN {}
    ELSE {k \in ListView(user, items) :
            user.roles \cap Managers # {} \/ items[k].department \in user.departments}

OverdueView(user, items, today) ==
    {k \in OverdueQuery(user, items, today) : Listed(user, items[k])}

\* _action_item_user_is_related.
Related(user, i) == user.name \in {i.owner, i.creator, i.chair} \cup i.assignees

\* can_view_actionitem, which the links of the lists lead to.
MayView(user, i) == user.roles \cap Viewers # {} \/ Related(user, i)

\* dashboard_action_counts, all but the week's.
TotalOpen(items) == {k \in DOMAIN items : items[k].status \in Active}

AssignedMe(user, items) == {k \in TotalOpen(items) : Mine(user, items[k])}

OverdueMine(user, items, today) == {k \in AssignedMe(user, items) : Before(items[k].due, today)}

\* ActionItemRegisterView.get_items of the reports.
Register(items) == DOMAIN items

\* OpenActionItemsView.get_items of the reports.
OpenReport(items) == {k \in DOMAIN items : items[k].status \in Active}

\* DepartmentActionItemsView.get_groups: items of one department name together.
Groups(items) ==
    {{k \in DOMAIN items : items[k].department = d} : d \in {items[k].department : k \in DOMAIN items}}

\* The columns of the Summary sheet, completed and cancelled ones together.
Summary(group, items) ==
    [total |-> Cardinality(group),
     open |-> Cardinality({k \in group : items[k].status \in Active}),
     closed |-> Cardinality({k \in group : items[k].status \in Terminal})]
=============================================================================
