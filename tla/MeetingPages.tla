----------------------------- MODULE MeetingPages -----------------------------
(***************************************************************************)
(* What the pages say about meetings: how far the departments are with     *)
(* their submissions, what is missing in the minutes, which items the      *)
(* approved minutes quote, and how many meetings wait for whom.            *)
(***************************************************************************)
EXTENDS ActionItemLists

\* meeting_readiness_rows: a row for every active department and no other.
Readiness(submissions, active) ==
    [d \in active |-> IF d \in DOMAIN submissions THEN submissions[d] ELSE "NOT_STARTED"]

\* The items of the agenda the payload of a snapshot quotes.
Discussions(agenda) == {k \in DOMAIN agenda : agenda[k].discussion}

Decisions(agenda) == {k \in DOMAIN agenda : agenda[k].decision}

\* Every form strips a text before it stores it, so that an empty text and one
\* of spaces, which only the payload tells apart, are the same.
HasText(item) == item.discussion \/ item.decision

\* agenda_completeness, for a section on departments: those that have items,
\* none of them with text.
MissingDepartments(agenda) ==
    {d \in {agenda[k].department : k \in DOMAIN agenda} \ {NoDepartment} :
        \A k \in DOMAIN agenda : agenda[k].department = d => ~HasText(agenda[k])}

\* For one on action items: every item without text; an item without
\* department is listed twice.
MissingItems(agenda) ==
    [k \in {j \in DOMAIN agenda : ~HasText(agenda[j])} |->
        IF agenda[k].department = NoDepartment THEN 2 ELSE 1]

\* What is missing in a section; nothing is asked of the others.
Missing(section, agenda, linked) ==
    CASE section = "DEPT_UPDATES" -> MissingDepartments(agenda)
      [] section = "ACTION_ITEMS" -> DOMAIN MissingItems(agenda)
      [] section = "SALES"        -> IF linked THEN {} ELSE {"snapshot"}
      [] OTHER                    -> {}

Sections == {"OPENING", "DEPT_UPDATES", "ACTION_ITEMS", "SALES"}

AllPassed(sections, agenda, linked) == \A s \in sections : Missing(s, agenda, linked) = {}

\* meetings_prep_dashboard_data, of the meetings of the next sixty days.
Prepared(count, meetings) ==
    {m \in DOMAIN meetings :
        CASE count = "total"    -> TRUE
          [] count = "pending"  -> meetings[m].status = "FOR_REVIEW"
          [] count = "returned" -> meetings[m].status = "RETURNED"
          [] count = "approved" -> meetings[m].fresh /\ meetings[m].status \in {"APPROVED", "PUBLISHED", "CLOSED"}
          [] count = "ready"    -> meetings[m].status = "APPROVED"}
=============================================================================
