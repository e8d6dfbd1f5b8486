------------------------------- MODULE Reports -------------------------------
(***************************************************************************)
(* The pages made of several queries, and the report files, while the rows *)
(* they read are changed by other requests.  Every query of a page reads   *)
(* what is committed when it runs: nothing holds the rows still.           *)
(*                                                                         *)
(* One page is made at a time.  Sales pages, action item pages, the pages  *)
(* of meetings and report files ask for different tables, so an initial    *)
(* state fills the tables of only one of them.                             *)
(***************************************************************************)
EXTENDS SalesFigures, MeetingPages, Sequences

CONSTANTS
    SalesGroups, SalesTeams,
    TeamOf,         \* the team of each group
    Amounts,        \* figures entered, in cents
    Items,          \* action items
    ItemRows,       \* what the row of an item may be
    Today,          \* the day of the server's clock, the same for every page
    Departments,    \* departments of the meeting pages
    AgendaRows,     \* what an agenda item may be
    Meetings,       \* meetings of the next sixty days
    MeetingRows,    \* what the row of a meeting may be
    Visitors,       \* users with their roles and contributor departments
    MaxChanges      \* bound on the changes during one page

ASSUME TeamsAssumption == TeamOf \in [SalesGroups -> SalesTeams]
ASSUME AmountsAssumption == Amounts \subseteq Int /\ Today \in Nat /\ MaxChanges \in Nat
ASSUME RowsAssumption ==
    /\ IsFiniteSet(Items) /\ IsFiniteSet(Meetings) /\ IsFiniteSet(SalesGroups)
    /\ \A row \in ItemRows : row.status \in Active \cup Terminal

VARIABLES
    shown,      \* active sales groups and active sales teams
    figures,    \* per group: its committed target and actual
    items,      \* committed action items
    minutes,    \* of one meeting: its submissions, and the active departments; or
                \* its agenda, and whether a sales snapshot is linked to it
    meetings,   \* committed meetings
    approved,   \* "yes" or "no": whether the snapshot the files are made of has an approved_at
    page,       \* the page or file being made, or the last one made
    changes     \* history variable: what was changed since the page was begun

tables == <<shown, figures, items, minutes, meetings, approved>>

vars == <<tables, page, changes>>

Tables == {"target", "actual"}

\* States a submission is saved with; one that is saved may still be "not
\* started".
Submitted == {"NOT_STARTED", "SUBMITTED", "RETURNED"}

NoPage ==
    [kind |-> "none", pc |-> "done", user |-> [name |-> "", roles |-> {}, departments |-> {}],
     todo |-> {}, read |-> <<>>, slug |-> "", format |-> "", logged |-> FALSE]

NoChanges == [figures |-> 0, rows |-> 0, count |-> 0]

NothingShown == [groups |-> {}, teams |-> {}]

\* A table that is not filled is <<>>.
Filled(f, i, min, mts, a) ==
    figures = f /\ items = i /\ minutes = min /\ meetings = mts /\ approved = a

Init ==
    /\ page = NoPage /\ changes = NoChanges
    /\ \/ /\ shown \in [groups : SUBSET SalesGroups, teams : SUBSET SalesTeams]
          /\ \E f \in [SalesGroups -> [target : Amounts, actual : Amounts]] :
                Filled(f, <<>>, <<>>, <<>>, "none")
       \/ /\ shown = NothingShown
          /\ \/ \E i \in [Items -> ItemRows] : Filled(<<>>, i, <<>>, <<>>, "none")
             \/ \E d \in SUBSET Departments : \E sub \in [d -> Submitted], active \in SUBSET Departments :
                   Filled(<<>>, <<>>, [submissions |-> sub, active |-> active], <<>>, "none")
             \/ \E k \in SUBSET Items : \E agenda \in [k -> AgendaRows], linked \in BOOLEAN :
                   Filled(<<>>, <<>>, [agenda |-> agenda, linked |-> linked], <<>>, "none")
             \/ \E m \in [Meetings -> MeetingRows] : Filled(<<>>, <<>>, <<>>, m, "none")
             \/ \E a \in {"no", "yes"} : Filled(<<>>, <<>>, <<>>, <<>>, a)

Idle == page.pc = "done"

Begin(p) == page' = p /\ changes' = NoChanges

-----------------------------------------------------------------------------
\* Mutant of TeamGroups: the groups of a team whether active or not.
AllTeamGroups(s) == {g \in SalesGroups : TeamOf[g] \in s.teams}

\* GroupDashboardView: the totals of each active team over its active groups,
\* then the overall totals over all active groups, each row read again.
TeamGroups(s) == {g \in s.groups : TeamOf[g] \in s.teams}

Cells(s) == ({"team"} \X TeamGroups(s) \X Tables) \cup ({"overall"} \X s.groups \X Tables)

StartDashboard ==
    /\ Idle /\ figures # <<>>
    /\ Begin([NoPage EXCEPT !.kind = "dashboard", !.pc = "reading", !.todo = Cells(shown)])
    /\ UNCHANGED tables

\* One query; those of the teams come first.
ReadFigure ==
    /\ page.kind = "dashboard" /\ page.todo # {}
    /\ \E c \in page.todo :
          /\ c[1] = "overall" => \A d \in page.todo : d[1] = "overall"
          /\ page' = [page EXCEPT !.todo = @ \ {c},
                        !.read = [d \in DOMAIN @ \cup {c} |-> IF d = c THEN figures[c[2]][c[3]] ELSE @[d]]]
    /\ UNCHANGED <<tables, changes>>

\* Pages made of a few queries in a fixed order: the counts of the home page,
\* of dashboard_action_counts and of meetings_prep_dashboard_data; the
\* readiness report; and what is missing in the minutes of a meeting.
Queries(kind) ==
    CASE kind = "home"         -> <<"open", "assigned", "overdue">>
      [] kind = "prep"         -> <<"total", "pending", "returned", "approved", "ready">>
      [] kind = "readiness"    -> <<"submissions", "active">>
      [] kind = "completeness" -> <<"agenda", "linked">>

\* What a query would find now.
Count(query, user) ==
    Cardinality(CASE query = "open"     -> TotalOpen(items)
                  [] query = "assigned" -> AssignedMe(user, items)
                  [] query = "overdue"  -> OverdueMine(user, items, Today)
                  [] OTHER              -> Prepared(query, meetings))

\* Mutant of Answer: the second count of the home page keeps the first's filter.
AnswerOpen(kind, query, user) ==
    IF kind \in {"home", "prep"} THEN Count(IF query = "assigned" THEN "open" ELSE query, user)
    ELSE minutes[query]

Answer(kind, query, user) == IF kind \in {"home", "prep"} THEN Count(query, user) ELSE minutes[query]

StartHome ==
    /\ Idle /\ items # <<>>
    /\ \E user \in Visitors :
          Begin([NoPage EXCEPT !.kind = "home", !.pc = "reading", !.user = user,
                               !.todo = DOMAIN Queries("home")])
    /\ UNCHANGED tables

\* The counts of meetings are the same for every user.
StartPrep ==
    /\ Idle /\ meetings # <<>>
    /\ Begin([NoPage EXCEPT !.kind = "prep", !.pc = "reading", !.todo = DOMAIN Queries("prep")])
    /\ UNCHANGED tables

StartReadiness ==
    /\ Idle /\ "submissions" \in DOMAIN minutes
    /\ Begin([NoPage EXCEPT !.kind = "readiness", !.pc = "reading", !.todo = DOMAIN Queries("readiness")])
    /\ UNCHANGED tables

\* MeetingValidationSummaryView and the minutes editor.
StartCompleteness ==
    /\ Idle /\ "agenda" \in DOMAIN minutes
    /\ Begin([NoPage EXCEPT !.kind = "completeness", !.pc = "reading", !.todo = DOMAIN Queries("completeness")])
    /\ UNCHANGED tables

ReadQuery ==
    /\ page.kind \notin {"none", "dashboard", "file"} /\ page.todo # {}
    /\ LET n == Cardinality(DOMAIN page.read) + 1
       IN  page' = [page EXCEPT !.todo = @ \ {n},
                                !.read = Append(@, Answer(page.kind, Queries(page.kind)[n], page.user))]
    /\ UNCHANGED <<tables, changes>>

\* The page is sent.
Respond ==
    /\ page.pc = "reading" /\ page.todo = {}
    /\ page' = [page EXCEPT !.pc = "done"]
    /\ UNCHANGED <<tables, changes>>

-----------------------------------------------------------------------------
\* Report files: the roles that may see a report, and those that may export.
ExportRoles == Managers \cup {"Meeting Chairperson", "Minutes Secretary"}

SalesExportRoles == Managers \cup {"Meeting Chairperson"}

\* The workbook of a sales period is not of the catalogue and asks its own
\* question.
MayViewReport(user, slug) ==
    user.roles \cap (CASE slug = "authorized-audit-report" -> Authors
                       [] slug = "sales-period"            -> SalesExportRoles
                       [] OTHER                            -> Viewers) # {}

Files == ({"html", "excel", "word", "pdf"} \X
          {"management-meeting-minutes", "authorized-audit-report", "action-item-register"})
         \cup {<<"workbook", "sales-period">>}

\* ReportMixin.dispatch.
RequestFile ==
    /\ Idle /\ approved # "none"
    /\ \E user \in Visitors, file \in Files :
          Begin([NoPage EXCEPT !.kind = "file", !.user = user, !.format = file[1], !.slug = file[2],
                               !.pc = IF MayViewReport(user, file[2]) THEN "allowed" ELSE "done"])
    /\ UNCHANGED tables

\* render_to_response of the four formats: only workbooks and documents ask
\* for an exporter; the file is made and its EXPORT event queued.
MakeFile ==
    /\ page.pc = "allowed"
    /\ page' = IF page.format \in {"excel", "word"} /\ page.user.roles \cap ExportRoles = {}
               THEN [page EXCEPT !.pc = "done"]
               ELSE [page EXCEPT !.pc = "made", !.logged = TRUE]
    /\ UNCHANGED <<tables, changes>>

\* Mutant of SendFile: minutes are sent whether approved or not.
SendAnyFile ==
    /\ page.pc = "made"
    /\ page' = [page EXCEPT !.pc = "done", !.read = <<"file">>]
    /\ UNCHANGED <<tables, changes>>

\* ApprovedSnapshotRequiredMixin looks at the snapshot when the file is made:
\* its exception rolls the transaction back and drops the queued event.
SendFile ==
    /\ page.pc = "made"
    /\ page' = IF page.slug = "management-meeting-minutes" /\ approved = "no"
               THEN [page EXCEPT !.pc = "done", !.logged = FALSE]
               ELSE [page EXCEPT !.pc = "done", !.read = <<"file">>]
    /\ UNCHANGED <<tables, changes>>

-----------------------------------------------------------------------------
\* Other requests commit while a page is read.
Changed(f, i) ==
    /\ page.pc = "reading" /\ changes.count < MaxChanges
    /\ changes' = [figures |-> changes.figures + f, rows |-> changes.rows + i, count |-> changes.count + 1]

Distance(x, y) == IF x > y THEN x - y ELSE y - x

SaveFigures ==
    /\ page.kind = "dashboard"
    /\ \E g \in SalesGroups, t \in Tables, a \in Amounts :
          /\ figures' = [figures EXCEPT ![g][t] = a]
          /\ Changed(Distance(a, figures[g][t]), 0)
    /\ UNCHANGED <<shown, items, minutes, meetings, approved, page>>

SaveItem ==
    /\ page.kind = "home"
    /\ \E k \in Items, row \in ItemRows : items' = [items EXCEPT ![k] = row] /\ Changed(0, 1)
    /\ UNCHANGED <<shown, figures, minutes, meetings, approved, page>>

SaveMinutes(m, rows) ==
    /\ page.kind \in {"readiness", "completeness"}
    /\ minutes' = m /\ Changed(0, rows)
    /\ UNCHANGED <<shown, figures, items, meetings, approved, page>>

Put(f, key, value) == [k \in DOMAIN f \cup {key} |-> IF k = key THEN value ELSE f[k]]

\* DeptSubmissionUpsert.form_valid.
SaveSubmission ==
    /\ page.kind = "readiness"
    /\ \E d \in Departments, s \in Submitted :
          SaveMinutes([minutes EXCEPT !.submissions = Put(@, d, s)], 1)

\* The department form has the is_active flag.
SwitchDepartment ==
    /\ page.kind = "readiness"
    /\ \E d \in Departments :
          SaveMinutes([minutes EXCEPT !.active = IF d \in @ THEN @ \ {d} ELSE @ \cup {d}], 1)

\* An item is made or edited; one that is moved changes what is said of two
\* departments.
SaveAgendaItem ==
    /\ page.kind = "completeness"
    /\ \E k \in Items, row \in AgendaRows :
          SaveMinutes([minutes EXCEPT !.agenda = Put(@, k, row)],
                      IF k \in DOMAIN minutes.agenda /\ minutes.agenda[k].department # row.department THEN 2 ELSE 1)

DeleteAgendaItem ==
    /\ page.kind = "completeness"
    /\ \E k \in DOMAIN minutes.agenda :
          SaveMinutes([minutes EXCEPT !.agenda = Restrict(@, DOMAIN @ \ {k})], 1)

\* A sales snapshot is taken for the meeting.
LinkSnapshot ==
    /\ page.kind = "completeness" /\ ~minutes.linked
    /\ SaveMinutes([minutes EXCEPT !.linked = TRUE], 1)

SaveMeeting ==
    /\ page.kind = "prep"
    /\ \E m \in Meetings, row \in MeetingRows : meetings' = [meetings EXCEPT ![m] = row] /\ Changed(0, 1)
    /\ UNCHANGED <<shown, figures, items, minutes, approved, page>>

Next ==
    \/ StartDashboard \/ ReadFigure \/ StartHome \/ StartPrep \/ StartReadiness \/ StartCompleteness
    \/ ReadQuery \/ Respond
    \/ RequestFile \/ MakeFile \/ SendFile
    \/ SaveFigures \/ SaveItem \/ SaveSubmission \/ SwitchDepartment
    \/ SaveAgendaItem \/ DeleteAgendaItem \/ LinkSnapshot \/ SaveMeeting

Spec == Init /\ [][Next]_vars

-----------------------------------------------------------------------------
\* A row of the dashboard, as it was read.
RowRead(stage, g) ==
    Subtotals([target |-> page.read[<<stage, g, "target">>], actual |-> page.read[<<stage, g, "actual">>]])

\* The totals shown: those of the teams together, and the overall ones.
Totals(stage) == Aggregate([g \in {c[2] : c \in {d \in DOMAIN page.read : d[1] = stage}} |-> RowRead(stage, g)])

\* The pages of counts err by no more than was entered while they were made:
\* with nothing entered they show what is.  Nor does the readiness report, or
\* what is missing in a section of the minutes, differ by more from the tables
\* when it is sent, although its queries see them at different moments.
PagesExplained ==
    /\ page.kind \in {"home", "prep"} =>
          \A n \in DOMAIN page.read :
              Distance(page.read[n], Count(Queries(page.kind)[n], page.user)) <= changes.rows
    /\ page.kind = "readiness" /\ page.todo = {} =>
          LET read == Readiness(page.read[1], page.read[2])
              now == Readiness(minutes.submissions, minutes.active)
          IN  Cardinality({d \in DOMAIN read \cup DOMAIN now :
                              d \notin DOMAIN read \cap DOMAIN now \/ read[d] # now[d]}) <= changes.rows
    /\ page.kind = "completeness" /\ page.todo = {} =>
          \A s \in Sections :
              LET read == Missing(s, page.read[1], page.read[2])
                  now == Missing(s, minutes.agenda, minutes.linked)
              IN  Cardinality((read \ now) \cup (now \ read)) <= changes.rows

\* The totals of the active teams leave out active groups of inactive teams,
\* the overall totals do not; beyond that the two totals of the sales
\* dashboard disagree by no more than was entered while the page was made.
DashboardAddsUp ==
    page.kind = "dashboard" /\ page.todo = {} =>
        LET teams   == Totals("team")
            overall == Totals("overall")
            orphans == Aggregate([g \in {h \in shown.groups : TeamOf[h] \notin shown.teams} |->
                                      RowRead("overall", g)])
        IN  \A column \in {"target", "actual", "deficit"} :
               Distance(overall[column], teams[column] + orphans[column]) <= changes.figures

\* The percentage the services show is within half a unit of the exact one,
\* and the one of the models' properties differs from it in ties only; a group
\* behind its target never shows more than 100.00 percent, nor one that has
\* reached it less.  The overall percentage of groups that all have targets
\* lies between theirs, and the totals of weeks with the same figures are the
\* same.
RatiosAgree ==
    figures # <<>> =>
    LET rows == [g \in SalesGroups |-> Subtotals(figures[g])]
        overall == Aggregate(rows)
        weeks == [g \in SalesGroups |-> [committed |-> figures[g].target, actual |-> figures[g].actual]]
    IN  /\ WeeklyTotals(weeks) = [deficit |-> overall.deficit, pct |-> overall.pct]
        /\ \A r \in {rows[g] : g \in SalesGroups} \cup {overall} :
              r.target > 0 =>
                 LET exact == r.actual * 10000
                     off == Distance(2 * r.pct * r.target, 2 * exact)
                 IN  /\ off <= r.target
                     /\ PropertyPercentage(r.target, r.actual) # r.pct => off = r.target
                     /\ r.deficit < 0 => r.pct <= 10000
                     /\ r.deficit >= 0 => r.pct >= 10000
        /\ (\A g \in SalesGroups : rows[g].target > 0) =>
              \E g, h \in SalesGroups : rows[g].pct <= overall.pct /\ overall.pct <= rows[h].pct

\* The open items and the departments' items add up to the register.
GroupsAddUp ==
    LET sum(column) == ColumnTotal([g \in Groups(items) |-> Summary(g, items)], column)
    IN  /\ sum("total") = Cardinality(Register(items))
        /\ sum("open") = Cardinality(OpenReport(items)) /\ sum("open") + sum("closed") = sum("total")

\* What is added up or divided in more than one place agrees: the two totals
\* of the sales dashboard up to what was entered meanwhile, the percentages up
\* to ties, the departments' items with the register.
FiguresAgree == DashboardAddsUp /\ RatiosAgree /\ GroupsAddUp

\* Overdue means the same in the report, the list, the home page and the mark
\* on a row; whoever is shown an item by a list may open it.  What is missing
\* in the minutes is what the snapshot of them would not quote, and minutes in
\* which every item has text have text of every department.
ListsAgree ==
    LET overdue == OverdueReport(items, Today)
    IN  /\ overdue = {k \in DOMAIN items : IsOverdue(items[k], Today)}
        /\ overdue \subseteq OpenReport(items)
        /\ \A user \in Visitors :
              LET mine == {k \in DOMAIN items : Mine(user, items[k])}
              IN  /\ OverdueView(user, items, Today) = overdue \cap ListView(user, items)
                  /\ OverdueMine(user, items, Today) = overdue \cap mine
                  /\ MyView(user, items) = mine
                  /\ \A k \in ListView(user, items) : MayView(user, items[k])
                  /\ DepartmentView(user, items) \subseteq ListView(user, items)
        /\ "agenda" \in DOMAIN minutes =>
              LET agenda == minutes.agenda
                  quoted == Discussions(agenda) \cup Decisions(agenda)
                  departments(on) == {agenda[k].department : k \in on} \ {NoDepartment}
              IN  /\ MissingDepartments(agenda) = departments(DOMAIN agenda) \ departments(quoted)
                  /\ DOMAIN MissingItems(agenda) = DOMAIN agenda \ quoted
                  /\ AllPassed({"ACTION_ITEMS"}, agenda, minutes.linked) =>
                        AllPassed({"ACTION_ITEMS", "DEPT_UPDATES"}, agenda, minutes.linked)

\* Minutes that are not approved are never sent, and the audit log has an
\* EXPORT event of a file if and only if it was sent: nothing remains of one
\* that was made and then refused.
FilesGuarded ==
    page.kind = "file" /\ page.pc = "done" =>
        /\ page.logged = (page.read # <<>>)
        /\ page.logged /\ page.slug = "management-meeting-minutes" => approved = "yes"
        /\ page.logged /\ page.format \in {"excel", "word", "workbook"} => page.user.roles \notin SUBSET {"Viewer", "Department Contributor"}
=============================================================================
