# A verification project for mimom

`mimom` is a Django application for management meetings: it plans meetings and
their agendas, collects the departments' contributions, takes the minutes
through review, approval and publication, follows action items up, and keeps
the sales figures reported in the meetings. This directory holds TLA+ modules
that model it, the TLC runs that check them and TLAPS proofs about them.

## Inventory

The code of interest is `src/apps/` (about 13 500 lines of Python). Every HTTP
request runs in one database transaction (`ATOMIC_REQUESTS`,
`config/settings/base.py:80`) on PostgreSQL at READ COMMITTED. Components talk
through the database only; the one callback mechanism is `on_commit` (audit).

| Component | State | Operations | Talks to | What is hard | What makes it correct |
|---|---|---|---|---|---|
| Meeting workflow (`meetings/services.py`, `views.py`) | `Meeting.status`, `is_locked`, notes, stamps; `MeetingStatusHistory` | transition form, archive, submit, return, resubmit, approve, publish, close, reopen; edit and minutes forms | snapshots, submissions, audit | check before lock, compare under lock, forms saving whole stale rows | the history is a legal, unbroken chain that explains the status |
| Approved snapshots | `ApprovedMeetingSnapshot` (version, trigger, payload) | taken by approve and publish | meeting, agenda, reports | version = newest + 1, failure after the transition was written, edits that race the approval | versions count 1, 2, 3; each snapshot documents one transition; what it shows stays the agenda |
| Department submissions | one row per meeting and department | upsert; swept by return and resubmit | meeting | overwritten in any order | five states; still once the meeting is frozen |
| Permissions (`core/permissions.py`) | none (groups, owner) | predicates | all views | overlapping predicates for one status | who may move a meeting where |
| Agenda order | `AgendaItem.order`, unique per meeting | create, edit, delete, reorder in two phases, carry forward | meeting | `max or -1`, gaps, items missing from the posted list | orders stay distinct and below 2^31 |
| Action items (`action_items/services.py`) | status, progress, blockers, reopened count, history | transition, complete, reopen, edit, delete | audit | no comparison under the lock, stale full-row saves | the history follows the graph, the completion stamp the status |
| Action carry-forward | links, new items | carry forward a batch | references, audit | NULL meeting escapes the unique constraint, conflict in mid-batch | a copy and its link, once per source and meeting |
| Reference allocation | `reference` columns | max + 1, retries, probe insert | meetings, action items | races between max and insert, circles of waits | references are unique, what is probed is kept, requests end |
| Meeting pages | none: readiness, validation, prep dashboard, in several queries | reports, editor, home page | meetings, submissions, sales | each query sees another moment | they err by no more than was changed meanwhile; nothing missing means all quoted |
| Action item lists | none: seven filters over one table | list, my, department, overdue, home page, reports | action items | each query decides for itself what is open, overdue, mine | they agree |
| Sales periods (`sales_updates/`) | period status and weeks, rows of figures | upserts, period form | snapshots | lock checked before the write | a closed period changes only by who passed before |
| Sales snapshots and totals | snapshots, weekly rows | `take_snapshot`, weekly form, dashboards | meetings, reports | check-then-create with NULL, changing number of weeks, two roundings | one snapshot per meeting; the weeks are explained; ratios agree |
| Audit (`audit/services.py`) | queued events, `AuditLog` rows | log, on_commit | all | crash after commit, swallowed failures, order | read in order, the log tells what the rows are, topic by topic, unless two requests told one at a time or an event was lost |
| Accounts and departments (`accounts/`) | users, roles, passwords, assignments, active departments | user, profile, password, assignment and department forms | audit, permissions | stale full-row saves, judgement before the write, assignments saved without a lock and told before the commit, the last administrator | what a stale save can bring back is known; assignments are judged |
| Reports and exports (`reports/`) | none | four formats of each report | snapshots, audit | made and logged before the guard looks | unapproved minutes are never sent, an export is logged iff sent |
| Attendance, attachments, categories, calendar, notifications, Django admin, templates | rows, none | single-row forms, pages | - | little | - |

`PROJECT.json` lists the same components with their status, and under
`hazards` each place where this code is hard to test.

## Modules

| Module | What it is |
|---|---|
| `MeetingRules` | the static rules of meetings: statuses, `VALID_TRANSITIONS`, reasons, roles, permission predicates, which request a view admits and what `transition_meeting` accepts |
| `MeetingWorkflow` | one meeting under concurrent requests, in the steps that are visible to other transactions; properties at its end |
| `MeetingLifecycle` | the abstract specification: a meeting walks the graph edge by edge, all on record, snapshots only in the step that approves or publishes |
| `MeetingFreeze` | `MeetingWorkflow` with history variables that remember what was under way when the meeting was frozen |
| `MeetingClaims` | a sentence of the documents about meetings which the code does not keep |
| `MCMeetingWorkflow`, `MCMeetingFreeze` | small instances for TLC |
| `MeetingWorkflow_proofs` | TLAPS proofs about `MeetingWorkflow` and `MeetingFreeze` |
| `ActionItemRules` | the static rules of action items, likewise |
| `ActionItemWorkflow` | one action item under concurrent requests; properties at its end |
| `ActionItemLifecycle` | the abstract specification: what an item does when requests do not overlap |
| `MCActionItem` | small instances for TLC |
| `ActionItemWorkflow_proofs` | TLAPS proofs about `ActionItemWorkflow` |
| `AgendaOrder` | the agenda of one meeting: items and their orders under concurrent creation, editing, deletion, carry-forward and reordering; properties at its end |
| `AgendaList` | the abstract specification: a list into which blocks are inserted, from which items leave, and which is permuted |
| `MCAgenda` | small instances for TLC |
| `AgendaOrder_proofs` | TLAPS proofs about `AgendaOrder`, and that it implements `AgendaList` |
| `TableFacts` | lemmas the proof modules share: appending a row to a table kept as a sequence, the least and the largest number in a finite table, and sums over the rows of a finite table |
| `ActionCarryForward` | requests that create action items, carry them forward and create meetings: references, probes, links, waits and circles of waits |
| `CarryLedger` | the abstract specification: each request as one step of the tables, with what docs/workflows.md:405-435 promises of a batch: linkage, skipped terminal items, one copy per meeting, all or nothing |
| `MCCarry` | a small instance for TLC |
| `ActionCarryForward_proofs` | TLAPS proofs about `ActionCarryForward`, and that it implements `CarryLedger` |
| `SalesPeriods` | one group's figures of one period, the period's lock, the snapshots taken for meetings and their weekly rows |
| `MCSales` | a small instance for TLC |
| `SalesPeriods_proofs` | TLAPS proofs about `SalesPeriods` |
| `Accounts` | accounts, roles, passwords, assignments and departments under concurrent forms, and the audit log written after each commit |
| `MCAccounts` | a small instance for TLC |
| `Accounts_proofs` | TLAPS proofs about `Accounts` |
| `SalesFigures` | the arithmetic of the sales pages, in whole cents and hundredths of a percent: two roundings, subtotals, totals |
| `ActionItemLists` | the filters of the lists, the home page and the reports of action items, as sets of rows |
| `MeetingPages` | what the readiness report, the validation of minutes, the payload of a snapshot and the prep dashboard say of a meeting |
| `Reports` | pages made of several queries while rows change, and report files; composes `SalesFigures`, `ActionItemLists` and `MeetingPages` |
| `MCReports` | a small instance for TLC |
| `Reports_proofs` | TLAPS proofs about `Reports` |

### How the models correspond to the code

A request is a user's `pc` going through phases. A step is what one
transaction does between two points where another one can be observed.

| Action | Code |
|---|---|
| `Load` | the view fetches the meeting and applies its permission mixins, form and the service's own permission check (`Admitted`) to that copy |
| `Validate`, `Refuse` | the unlocked part of `transition_meeting` (lines 174-207) |
| `Acquire`, `Conflict` | `select_for_update` and the comparison `locked.status != current` |
| `TakeSnapshot` | `create_approved_snapshot` inside `approve_meeting` and `publish_meeting`; the row stays in `pending` until the commit |
| `Commit` | the UPDATE and the INSERTs of the transaction become visible, with the sweep of the submissions by return and resubmit |
| `Rollback` | any uncaught exception, lost connection or dead worker |
| `Reload`, `RefuseEdit`, `Save` | `MeetingUpdateView` and `MinutesEditorView`: a second fetch, the form, a save of every column |
| `SaveAgenda`, `Upsert` | the agenda forms and `dept_submission_upsert` |

Writes inside a transaction are not visible to others, so the transition's
UPDATE, its history row and the sweep happen in `Commit`; what the transaction
reads of its own writes (the snapshot's status) is taken from the request.
The row lock is held from `Acquire` to the end of the request. `Save` waits
for it and then overwrites whatever the holder committed, which is what
PostgreSQL does with an UPDATE by primary key at READ COMMITTED. Inserting
the first submission of a department waits too (its foreign key locks the
meeting row); editing an agenda item or an existing submission does not.

Abstractions: the notes and the agenda are members of `Notes`; a reason is
given or not; time stamps are set or not; the two administrator roles are one
(the meetings app never tells them apart); users are active and hold their
roles throughout. A snapshot payload is the status, notes and agenda it froze.
A snapshot the database refuses is modelled for the reason the code can meet,
a version beyond the column (`VersionLimit`, 32767 in the code).

`MeetingFreeze` adds no behaviour: `Remember` records, beside every step of
`MeetingWorkflow`, which requests had been let through to the agenda or a
submission when the newest snapshot was read (`racing`, `meanwhile`), and
whether a submission changed since the status last did (`refiled`).

`ActionItemWorkflow` follows the same lines; the table has what differs.

| Action | Code |
|---|---|
| `Load` | the view of the transition, complete, reopen, edit or delete endpoint reads the item and admits the request (`Admitted`) |
| `Validate`, `Refuse` | `transition_actionitem` reads the row a second time and judges it (lines 138-186); `checked` is that row |
| `Acquire` | `select_for_update().get(pk=...)`; `held` is the row it returns, and nothing is compared with `checked` |
| `Vanished` | the same `get` when the row was deleted meanwhile |
| `Commit` | lines 190-231: status, stamp and counter from the row that was locked, progress from the row that was judged, the history row |
| `Reload`, `RefuseForm`, `Save` | `ActionItemUpdateView.post`: a second fetch, the form's validity, a save of every column; an UPDATE that finds no row makes Django INSERT one |
| `Delete` | `ActionItemDeleteView`; the history goes with the item |

The row of an item is its status, progress, whether it has blockers, whether
`completed_at` is set, and `reopened_count`. Titles, owners, dates, assignees
and comments are data no property tells apart. What a user is to the item
(related, owner, of its department) stays the same throughout.

`AgendaOrder` adds what comes before the request, a page that ages:

| Action | Code |
|---|---|
| `Open` | the user looks at the page or form and composes what it will post: an order typed, the one the form suggests (`get_initial`), or a permutation of the items shown |
| `Read` | the view's queries: the item of an edit form, the target's largest order (`NextOrder`), the keys of the posted items that still exist (`found`) |
| `Load` | the second query of `AgendaOrderSaveView`, of the rows it found (`loaded`): an item deleted between the two is not moved and still counts in the offset |
| `Save` | the INSERT of the create form, the UPDATE of the edit form (an INSERT when the item is gone), the INSERTs of `carry_forward_agenda_items` |
| `Delete` | `AgendaItemDeleteView` |
| `Reorder` | both `bulk_update`s of `AgendaOrderSaveView`, of the items loaded that are still there |
| `Fail` | `IntegrityError` or `DataError`: what the request would write does not fit |
| `Abandon` | the user does not post, the item is gone (404), another error |

The writes of a request are one step although they are several statements:
whoever meets a row another transaction has written or taken a place from
waits for that transaction's end, so the outcome is that of one order of the
requests, or a failure of one of them. `Fits` checks row by row, because
PostgreSQL checks this constraint immediately: a phase may not even put a row
where another row of the same phase still stands.

`ActionCarryForward` is finer: each INSERT into a unique column is a step of
its own, because it may wait.

| Action | Code |
|---|---|
| `StartCarry`, `StartCreate`, `StartMeeting` | the carry-forward form, the creation forms, the creation of a meeting. A batch (`Batches`) is the sources the form selects in the order of the query, by priority and then creation |
| `Look`, `Skip` | the lookup of an earlier link for the next source (`action_items/services.py:259-267`); a copy that does not validate |
| `Read` | the largest number in use, plus one, as the transaction sees it |
| `Check` | `exists()` for a meeting; `full_clean` for an item, whose ValidationError keeps the candidate and skips the probe |
| `Probe` | the row inserted and deleted again in a savepoint; its index entry holds the number until the transaction ends (`held`) |
| `Save`, `Link` | the INSERT of the row and of the link; an IntegrityError ends the request |
| `Again` | the next of the attempts, or the ValidationError after the last |
| `Victim` | PostgreSQL breaks a circle of two waits (the instance has two users) |
| `Delete` | `ActionItemDeleteView`, with the links that point to the item |

An INSERT that meets the value of an open transaction waits for its end
(`WaitsByNumber`, `WaitsByLink`); NULL targets never meet.

`SalesPeriods`: `LoadFigures`, `LoadPeriod`, `LoadWeekly` and `LoadSnapshot`
read the period (and the meeting's status) and judge it; `SaveFigures`,
`SavePeriod`, `SaveWeekly` write later. `Freeze` reads one row of figures,
`TakeSnapshot` inserts the snapshot with the weeks of the newest earlier one.
`MoveMeeting` is the meeting workflow as seen from here: the snapshot of a
meeting is locked or not.

`Accounts`: `Load*` reads and judges, `Save*` writes in one transaction and
queues the events of the signal handlers and of the view in their order; a save
of an account is one step because its first statement locks the account's row.
No lock serialises two saves of one user's assignments, so that these go
statement by statement: `DeleteRow` (whose event is written at once, within the
transaction), `SaveRow`, `ReadRows` (the `new_values` of the view's event, read
from what is committed and what the transaction has written itself) and
`CommitAssignments`; `Locked` and `Conflict` are the row locks and the unique
index. `WriteEvent`, `LoseEvent`, `Crash` and `Answer` are `on_commit`. `told`
is what the log, read in order, says of the rows, once by the handlers' events,
which name the row they are about, and once by the views', which name the
account; `blurred` is a history variable, the topics (a user's activity, roles,
account or assignments, or one row) of which the log may be wrong for good:
an event of theirs was lost, or two requests told them at a time, the later
commit first or from rows read too early. To tell all of a topic anew clears it.
A row is numbered by the request that made it; the event of a deletion is about
the row that was read. `early` and `stale` of a request are history too: which
deletions the log says already, and which topics it will tell too late. An event
of a deletion is shown in `told` with its commit, since before it the row is
there; if the request is abandoned the event is rolled back with it. The superuser flag is modelled as a role whose holders manage
users, `is_staff` goes with `is_active`, and a row's department is not edited
in the assignments form (rows are added and deleted instead).

`Reports`: `StartDashboard` and `ReadFigure` make the sales dashboard,
`StartHome`, `StartPrep`, `StartReadiness`, `StartCompleteness` and `ReadQuery`
the home page, the counts of meetings, the readiness report and the validation
of minutes, query by query, while `SaveFigures`, `SaveItem`, `SaveSubmission`,
`SwitchDepartment`, `SaveAgendaItem`, `DeleteAgendaItem`, `LinkSnapshot` and
`SaveMeeting` commit changes; `RequestFile`, `MakeFile`, `SendFile` are the
dispatch, the rendering with its queued EXPORT event, and the response that
the guard of the minutes may still refuse. `SalesFigures`,
`ActionItemLists` and `MeetingPages` translate the computations, one operator per method.

## Runs

The runs have at most two users who send requests; a third adds no new pairing
of phases, since one lock holder and one waiter already realise every
conflict. `MaxHistory` stops new requests once the history has that many rows
(`MaxReopened`, once the item was reopened that often); requests in flight
still finish. `Walked` starts meetings in FOR_REVIEW, so that short histories
contain approval, publication, return and reopening. Deadlock is not an error:
when a bound is reached the users stop.

| Run | Question | Bounds |
|---|---|---|
| `meeting_services` | do compare-under-lock, version numbering and legality survive every interleaving of the status endpoints, with rollbacks, agenda edits and submissions, and does the whole implement `MeetingLifecycle`? | admin and chair, one department, the is_locked flag, which only forms write, off, history 7 (three moves after FOR_REVIEW), versions up to 2 so that the column overflows |
| `meeting_buttons` | when only the buttons move the meeting, does an approved (published) meeting have its approval (publication) as newest snapshot, and does that show the agenda? | admin and chair, one department, two agendas, history 7: approve, publish, return and back fit; the notes and the is_locked flag, which no request of the run writes, are fixed |
| `meeting_forms` | what can stale forms do to a meeting in transition, and does every request end? | superuser (who may edit anything) and secretary, two texts, history 6, strong fairness |
| `action_services` | does the row lock alone keep the history one chain and the counter exact, although requests do not look again at what they judged? | superuser and administrator, history 3, reopened 2: two judged reopenings can meet |
| `action_forms` | what do stale edits, deletions and re-insertions do to the completion stamp and to the right to reopen, and when can an item be completed with blockers? | superuser and an author who owns the item, every endpoint, history 2 and reopened 1: complete and reopen fit |
| `action_alone` | do requests that do not overlap implement `ActionItemLifecycle`, and is a completed item without blockers? | a superuser alone, history 3, progress 0 and 100 |
| `agenda` | do orders stay distinct, does a reordering of all the items always fit and place them as posted, and is the agenda a list to its readers? | four items ever made, two users, order 1 typed or the suggested one, carry-forward of two, column up to 20: wide enough that only a wrong offset meets its end (`RoomToPark`) |
| `carry` | does a probe reserve its number, who can wait for whom, do copies and links come in pairs and once per meeting, is each request one step of `CarryLedger`, copies numbered in the order of their sources' ranks, and does every request end? | two users, three items of which one is deletable (so that the largest number can fall), two attempts, overlapping batches into one meeting and into none: circles of waits are reached |
| `sales` | who still writes after a lock, is there one snapshot per meeting, which weeks can a snapshot have? | a superuser and another, one or two weeks, two snapshots, one meeting and none, one row of figures with one amount: the snapshots' properties need more rows of weeks, not more figures |
| `accounts` | what can a stale save bring back, which assignments can an inactive user get, what does the log still tell, is a lock-out final? | three accounts, two of them administrators who act, two departments, one role, two passwords, three requests: enough for two that overlap, one of them stale, and one more to put things right; one event lost or one crash; the departments are interchangeable, and so are the administrators (symmetry) |
| `reports` | do pages made of several queries err by no more than was entered meanwhile, do the totals, the ratios and the departments' sums agree, do the lists agree, are files guarded? | two groups, two teams, figures -1, 1 and 32 cents (1/32 is a tie), two items in every relevant row, two agenda items, two departments, two meetings, five visitors, two changes per page |

Fairness. `meeting_forms`: `FairSpec` assumes strong fairness of the steps of
each request (`Work(u)`). A worker process runs its request to the end, and
PostgreSQL queues the waiters of a row lock, so a request whose next step is
enabled again and again eventually takes it. `carry`: the same, for waiters of
an index entry, and the server breaks circles after `deadlock_timeout`.
Nothing is assumed of the steps that begin a request (users may stop sending
them) or of `Rollback` and `Skip` (failures may or may not happen). The other
runs check safety alone.

### Documents the code does not keep

`claim_on_record` checks one sentence, docs/permissions.md:246-248: a meeting
leaves a non-editable status only through transitions that write a history
row. TLC finds a form, loaded before an approval, that writes the old status
back; `findings` in `PROJECT.json` has the details.

Met while modelling and left without a run of its own, the meetings:

- meetings/services.py:288-289 and docs/workflows.md:305-306 say carried items
  go behind the largest order; `int(last_order_row or -1) + 1` (315) takes a
  largest order of 0 for no row, so into an agenda whose only item stands at 0
  the whole carry-forward is refused by the constraint. The create form
  suggests 0 for the second item in the same way.
- docs/workflows.md:830-831 promises a snapshot at every APPROVED and
  PUBLISHED transition; the transition form and a reopening make those
  transitions without any.
- meetings/models.py:131 lets administrators alone move a locked meeting, while
  `can_transition_meeting` falls back on the author roles.
- `_serialize_sales_for_meeting` (meetings/services.py:572 and after) reads
  `revenue_pct`, `profit_pct`, `orders_pct`, `deliveries_planned` and other
  fields that `GroupPerformanceSnapshot` (sales_updates/models.py:378-473) does
  not have. The AttributeError is caught nowhere, so the approve and publish
  buttons fail for every meeting with a linked sales snapshot, the very thing
  `agenda_completeness` asks for (`LinkSnapshot`) and docs/workflows.md:734
  promises in the payload. In `MeetingWorkflow` such a request is a `Rollback`;
  an approval that succeeds is one of a meeting without that link.
- templates/meetings/validation_summary.html:110 reads `agenda_completeness`
  and `summary`, the view passes `validation_rows`; the prep dashboard's
  template reads `prep_kpi`, the view passes `dashboard_counts`; the home page
  (templates/dashboard/home.html:283) reads `returned` where the counts have
  `returned_for_correction`. What the code computes, and the model with it, is
  not what these pages show: they show nothing, or zero.
- `agenda_completeness` lists an item without department and text twice
  (`MissingItems`), and calls a missing text a missing status.
- An agenda edit between the reading of a snapshot and the commit of its
  approval goes through: the agenda of an approved meeting may differ from what
  was approved. `FrozenWhenApproved` says that nothing else can.
- docs/meeting_status_transitions.md:137 calls unique violations in a
  reordering fixed, which `ReorderAlwaysFits` confirms when all the items are
  posted, while a page older than a deletion and a creation can still meet one.

Action items:

- docs/actionitem_status_transitions.md:80-81 says that two concurrent
  transition calls cannot write twice; both judge before they lock and neither
  looks again.
- docs/permissions.md:341-343 says that a terminal item only leaves by an
  administrator's reopening; an edit form loaded before the completion writes
  the old status back.
- action_items/models.py:181-182 and docs/workflows.md:352 say that completed
  items have no unresolved blockers. They are judged before the lock
  (action_items/services.py:182) and not looked at again: when an edit form
  adds blockers between the two, the completion goes through.
  `BlockersCameBetween` says that this is the only way, and
  `CompletedUnblocked` that requests which do not overlap keep the sentence.
- docs/workflows.md:419-423 calls carrying forward idempotent; without a target
  meeting two requests at once, such as a double click, make two copies.
- A batch is sorted by `priority` (services.py:253), a text column whose values
  sort as HIGH, LOW, MED, URG (models.py:37-40): urgent items come last. The
  weights at services.py:340 are used nowhere. `rank` is the order the query
  has, whichever it is.
- After a `full_clean` that finds the number taken, the candidate is kept, not
  probed, and refused at the INSERT.

Sales:

- `take_snapshot`'s docstring (sales_updates/services.py:240-242) says that
  `unique_together` prevents duplicates; it does not for a snapshot without a
  meeting. The three rows of figures are read one after the other, so a
  snapshot may mix moments.
- A LOCK audit event (docs/workflows.md:549) is written only if the meeting was
  approved before the snapshot was taken.
- After weeks_count has been lowered the weekly page of a snapshot with more
  weeks cannot be saved.
- The two forms of templates/sales_updates/group_period_detail.html (194, 228)
  post neither group nor period, which the form classes require.
- GroupDashboardView without a period fails when there is an active group.
- The dashboard's `profit_pct_actual` is always zero.

Accounts:

- docs/workflows.md section 2 warns of locking the last administrator out;
  nothing prevents it, and `LockoutIsFinal` shows that it is for good.
- The rows of a deactivated department block the whole assignments form.
- Two saves of one user's assignments that overlap make the view's event of the
  one that commits last miss what the other has added (`accounts/views.py:305`
  reads before the commit), though each event is written and each request
  answered; the deletions of `signals.py:146` are logged before their commit.
- The views' events say nothing of an account that its owner's stale save has
  reactivated.

Reports:

- The Excel and Word files of Sales performance read `totals["groups"]` and
  `["total"]` (reports/views.py:914, 937, 982), those of Weekly commitments
  `data["weeks"]` (1059, 1103, 1141): no such keys are returned, the sheets are
  empty.
- `_REPORT_SLUG_PREFIXES` is keyed with underscores while slugs have hyphens.
- `reports_index_data` counts only OPEN items as open, other pages the active
  statuses.
- DepartmentActionItemsView groups by department name, which is not unique, and
  two names may collide in the 31 characters of a sheet's name.
- "Today" is the UTC date, while the application runs in Asia/Manila.
- A manager who contributes to no department sees an empty department list.
- The readiness report leaves out submissions of departments that have been
  deactivated (`Readiness`).
- The Excel and Word minutes read `reference`, `title`, `owner` and `status` of
  action items (reports/views.py:482-500, 515-530), the payload has
  `action_item_reference` and the like: the cells are empty. Their headers read
  the live meeting, which docs/workflows.md:964 rules out.

Where a document merely lists other rules than the code, no run is needed to
see it, and the models follow the code: the adjacency matrix of
docs/actionitem_status_transitions.md:25-35 has fewer edges than
`VALID_TRANSITIONS`; docs/permissions.md:316 keeps the deletion of an action
item, and docs/permissions.md:221-222 the approval and publication of a
meeting, to administrators, while the code lets an item's authors delete it and
meeting chairs approve and publish; docs/workflows.md:592-599 draws a walk for
department submissions while the upsert form offers every state at any time.

## Proofs

`MeetingWorkflow_proofs` proves, for every set of users, role assignment, set
of endpoints, notes, version limit and bound:

| Theorem | Statement |
|---|---|
| `TypeCorrect` | `Spec => []TypeOK` |
| `LockSafe` | `Spec => []LockProtocol` |
| `HistoryIsLegal` | `Spec => []LegalHistory` |
| `VersionsCount` | `Spec => []SnapshotVersions` |
| `StatusIsExplained` | `Spec => []StatusExplained` |
| `ChainUnbroken` | `Spec => []HistoryChain`, if no endpoint saves whole rows (`Ops \cap FormOps = {}`) |
| `ServicesImplementLifecycle` | `Spec => Lifecycle!Spec`, under the same assumption |
| `SnapshotsDocument` | `Spec => []SnapshotsExplained` |
| `ApprovalsRecorded` | `Spec => [](Room => ApprovalsOnRecord)`, if the buttons alone approve, publish and reopen (`Ops \cap Bypasses = {}`) |
| `ApprovalsFreeze` | `FreezeSpec => [](Room => FrozenWhenApproved)`, under the same assumption and for users who are not superusers (`Ordinary`) |

The argument. `LockProtocol` says that between `Acquire` and the end of the
request the row still has the status that was validated. It is not inductive:
it does not know that the request's target was one move away from that status,
nor that the user was entitled to it. `CallsVetted` adds what `Load` and
`Validate` have established for each phase. From the two, the row a `Commit`
appends (`NewEntry`) is a legal move by an entitled user, which gives
`LegalHistory`; its `from` is the current status, which gives the chain and
the refinement. `VersionsInv` strengthens `SnapshotVersions` with the length
of `pending`. `StatusExplained` rests on the history only growing.
The refinement maps the trail to `TrailOf(history)`: only `Commit` changes
the mapped state, every other action is a stutter. `ChainUnbroken` needs its
assumption: `claim_on_record` shows what one form does to the chain.

`SnapshotsDocument` compares two cardinalities, the snapshots of a trigger and
the moves it documents; both grow by one in the same step (`CountsGrow`), since
`InFlight` knows the trigger of the snapshot that waits for its commit.
`ApprovalsRecorded` and `ApprovalsFreeze` need what their assumptions exclude:
the transition form and a reopening reach APPROVED and PUBLISHED without a
snapshot, a form writes an old row back, and a superuser edits whatever the
status. `Room` says that a version is left: once the column is full, the view
catches the refusal and the transition commits alone, so that an approved
meeting has no snapshot of its approval (the bound of `meeting_buttons` is never
reached, and `meeting_services`, where it is, does not ask). `FrozenWhenApproved` becomes inductive as
`FreezeInv`: whoever may still write a frozen meeting was under way when it was
frozen (`WritersKnown`), and the snapshot in flight shows the agenda unless
someone was under way since it was read (`SnapshotFresh`).

`ActionItemWorkflow_proofs` proves, for every set of users, what they are to
the item, endpoints, percentages and bounds:

| Theorem | Statement |
|---|---|
| `TypeCorrect` | `Spec => []TypeOK` |
| `ReopeningIsAdmins` | `Spec => []ReopenedByAdmin` |
| `CompletionStamped` | `Spec => []CompletionAgrees` |
| `ChainUnbroken` | `Spec => []HistoryChain`, if only the status endpoints are served (`Ops \subseteq ServiceOps`) |
| `NoReopeningLost` | `Spec => []ReopeningsCounted`, under the same assumption |
| `SerialImplementsLifecycle` | `Spec => Lifecycle!Spec`, for a single user and without deletion |
| `BlockersOnlyBetween` | `Spec => BlockersCameBetween` |
| `CompletedAreUnblocked` | `Spec => []CompletedUnblocked`, for a single user or without the edit form |

The argument. `RowHeld` says that the lock belongs to exactly the request in
phase `locked`, and that the row is present and still as that request read it;
it is inductive, since every other writer waits. `CallsVetted` carries what
admission and judgement established to the write, which is all that
`ReopenedByAdmin` needs: a reopening asks for an administrator and a reason
from whichever status it was judged in. `CompletionAgrees` speaks of the item
and of the copies in edit forms; it becomes inductive as `RowsAgree`, which
adds that those copies were not terminal when taken, so a form never writes
a completion stamp. With the status endpoints only, a commit is the
only write, and what it appends starts where the held row, by `RowHeld` the
current one, is: that gives the chain without any comparison of what was judged
with what is locked, and, with a lemma on cardinalities, the counter. What the
missing comparison does cost is legality: a second request may write a move its
checks never saw. Only when
requests do not overlap (`Serial`: what was judged or copied is still the item)
is every move an edge of the graph, and then the item implements its
life cycle.

The blockers. `BlockersJudged` says that a completion on its way to the commit
was judged on a row without blockers; a completed item can then only have
those of the row that was locked, which is `BlockersOnlyBetween`. With the
edit form out of the way, or nobody to send it in between, the two rows agree
on them (`BlockersStand`): every other write keeps the blockers of the row it
read (`ItemWrites`), and a form never leaves an item completed.
Without the assumption `BlockersCameBetween` is what remains.

`AgendaOrder_proofs` proves, for every set of users, orders typed, batches,
column width and bound:

| Theorem | Statement |
|---|---|
| `TypeCorrect` | `Spec => []TypeOK`, which says that no two items share an order |
| `ReorderingFits` | `Spec => []ReorderAlwaysFits` |
| `ReorderingPlaces` | `Spec => ReorderedAsPosted` |
| `OrdersImplementList` | `Spec => ImplementsList`: the numbered rows are an `AgendaList` to whoever reads them in order |

The argument. `PostsMeant` adds to `TypeOK` that a posted permutation lists
each item once, that what a request found is on its list and that what it
loaded is what it found, less what was deleted. From it,
positions are distinct numbers below the length of the list
(`PositionsRight`), so each phase writes distinct orders (`PhasesApart`).
Parking at `MaxOrder - n` up to `MaxOrder - n + len - 1` meets no order in use
and stays inside the column when `len <= n + 1`, and once every item is
parked the places from zero on are free. The proof of `ReorderingPlaces`
corrected its property: with three users an item deleted before the request
looked, or between its two queries, can be inserted again by a stale edit form
before the request writes, so the posted order holds of the items loaded, not
of all that exist.

`OrdersImplementList`: the place of an item is one more than the number of items
of a smaller order (`Below`), which `Places` shows to be a bijection with the
positions of the list, so the mapped list has each item once and in order.
A save takes its item out, if it was there, and splices a block in at the place
its order says (`BlockSpliced`); a deletion leaves the order of the rest
(`WithoutBlock`); a reordering keeps the items (`SameItems`).

`ActionCarryForward_proofs` proves, for every set of users, existing items,
forms, meetings, number of attempts and bound:

| Theorem | Statement |
|---|---|
| `ReferencesUnique` | `Spec => []TypeOK`, which says that no two items share a reference |
| `ProbeReservesAlways` | `Spec => []ProbeReserves` |
| `CirclesNeedLinksAlways` | `Spec => []CirclesNeedLinks` |
| `CopiesLinkedAlways` | `Spec => []CopiesLinked` |
| `OneCopyPerMeetingAlways` | `Spec => []OneCopyPerMeeting` |
| `CopiesMatchLinksAlways` | `Spec => []CopiesMatchLinks`, the two above |
| `RequestsImplementLedger` | `Spec => ImplementsLedger`: to whoever reads the tables, each request is one step of `CarryLedger` |

The argument. What is committed says nothing of a transaction that may commit
next. `CarryInv` therefore speaks of every request as well: `Local`, it holds the numbers of its
rows and of its probe, its candidate lies above them, and each of its copies
but the one being made has one link; `Fits`, none of it is committed; `Apart`,
no two requests hold the same number of a table or the same link (links without
a meeting never meet). Then a commit, whichever
comes first, keeps the tables and what the others hold apart. A probe
reserves its number because of `Fits` and `Apart`; a circle of two waits for
numbers would need each to wait for a number below one it holds, which `Local`
excludes, so one of the two waits is for a link.

`RequestsImplementLedger`: `BatchInv` ties each carry-forward to the form it
came from. What is done and what is left of its batch are sources the form
selects, in the order of their ranks (`BatchWell`), and its rows follow them
with rising numbers (`Follows`), since each number lies above those the request
holds. With `CarryInv`, a commit then adds exactly what a `Carry` of the
ledger may add (`BatchIsCarry`): rows that are linked one to one, from sources
the target has no copy of. Every other action of a request leaves the tables as
they are, a stutter of the ledger. The proof goes through every step because
nothing of a batch is visible before its commit.

`SalesPeriods_proofs` proves, for every set of users, amounts, week counts,
meetings and bound:

| Theorem | Statement |
|---|---|
| `SnapshotsTyped` | `Spec => []TypeOK`, which says that a meeting has one snapshot and a snapshot no week twice |
| `WeeksExplainedAlways` | `Spec => []WeeksExplained` |
| `ClosedMeansClosedAlways` | `Spec => ClosedMeansClosed` |
| `LockedWeeksKeptAlways` | `Spec => LockedWeeksKept` |

The argument. `SalesInv` adds to the types what a request carries from its
judgement to its save (`Judged`: it was let through, and the number of weeks it
goes by is one the period has had), and says of the rows of every snapshot that they
are explained by the counts the period has had (`Explained`). `WeeksExplained`
names the least and the largest count, which exist because the counts are
finite; `Explained` is the form that survives a copy of an older snapshot.

`Accounts_proofs` proves, for every set of users, departments, roles, passwords
and number of requests and faults:

| Theorem | Statement |
|---|---|
| `RowsAreApart` | `Spec => []TypeOK`, which says that no two assignments are one row |
| `LogTellsRowsAlways` | `Spec => []LogTellsRows` |
| `OverwritesExplainedAlways` | `Spec => OverwritesExplained` |
| `AssignmentsJudgedAlways` | `Spec => AssignmentsJudged` |
| `LockoutIsFinalAlways` | `Spec => LockoutIsFinal` |

The argument. `RowsApart` says of every row that is known, to the table or to a
request that has read it, whose it is for good; without the copies in requests
it is not inductive, as a stale assignments form inserts a deleted row again.
`LogInv` says of every topic that is not blurred that its events still queued
tell what is so (`Agrees`), and that the log either tells it right or has such an
event to come (`Awaited`). It is inductive only with what a post of assignments
carries between its statements: the rows it has judged and those left to write
(`PostWell`), the events queued for those written, and that of the view, which
is right unless another has committed since (`QueueWell`), the deletions the log
says already, each of a row that is still there and locked, or gone, or with an
event to come (`DeletionsWell`), and that no two have written one row
(`WritesApart`). A commit then either agrees with every queue that is not
overtaken, or blurs the topic.
`LockoutIsFinal` needs no more than the types: its own statement includes the
requests in progress.

`Reports_proofs` proves, for every set of items, meetings, departments, users
and every number of changes while a page is made:

| Theorem | Statement |
|---|---|
| `PagesExplainedAlways` | `Spec => []PagesExplained` |
| `ListsAgreeAlways` | `Spec => []ListsAgree` |
| `FilesGuardedAlways` | `Spec => []FilesGuarded` |
| `FiguresAgreeAlways` | `Spec => []FiguresAgree` |

The argument. A page shows a function of what it read, and functions of tables
may jump. `PagesInv` bounds them all the same: each row that another request
writes moves each count by at most one (`ItemCounts`, `MeetingCounts`), puts at
most one department on the set of those whose row has strayed
(`RowStrays`), and changes what is said of one item and of the departments it
was and is of (`ItemPut`, `ItemTaken`), a move to another department counting as two
rows. What was read is the beginning of the page's list of queries (`Reading`),
and `FilesKept` carries a file's permission from its dispatch to the response.
`ListsAgree` follows from the statuses being active or terminal and not both.

`FiguresAgree` is about sums and rounded quotients. `FiguresInv` compares what
a dashboard read team by team with what it reads for the whole, or with the
tables as long as it has not: the distances, added up over the rows, are
bounded by the amounts that other requests moved the figures by meanwhile
(`changes.figures`); without changes the two readings are equal. The overall
ratio lies between the
least and the largest of its parts (the mediant), and rounding keeps that order
and errs by half a unit. A column's total (`ColumnTotal`) is a sum over a
finite set: its laws, one row more and rows regrouped by team, are proved in
`TableFacts` by induction over the subsets of the set. The library states
induction with an operator parameter, so the induction is stated here over a
set of sets (`GrowingSets`): if a subset is in it whenever its own proper
subsets are, so is the whole finite set.

The assumptions are those named in the modules: nobody is not a user, endpoints
are known ones, percentages lie in 0..100, typed orders fit the column, bounds
are natural numbers, the walk before the start is legal; what exists when the
models begin is finite (week counts, departments, items, meetings, references),
as the rows of a table are; and the statuses of item rows are those of the
model's choices (`RowsAssumption`). `Ordinary`, `Bypasses`, `FormOps` and
`ServiceOps` restrict single theorems, and `Room` two of them, as said above;
the other theorems hold for all endpoints and roles.

Every safety property of a passing run is stated by a theorem. The type
invariants of the meeting and the action item are proved and have no run. Only
model-checked are `RequestsFinish` and `RequestsEnd`, which are liveness under
strong fairness, and the sentence that is violated.

## Not modelled

The Django admin's forms, which leave the status editable and write
no history; rendering and the layout of exports; attachments, attendance,
assignees, comments and categories; the calendar and the list of the
prep dashboard; the remarks of a return; priority and due date, which a
reopening writes back from the row its request loaded first
(`action_items/views.py:547`); login and logout, positions and the pages of the
organisation; the creation and naming of sales groups, teams and periods. The
audit events of the meetings and action items are queued like those of the
accounts, whose model stands for them; the event of a deletion is not written
at all: the override that should write it never runs since Django 4.0
(`action_items/views.py:390`).

## Plan

Done: the meeting workflow, the action item workflow and the agenda order, each
with its abstract specification, runs and proofs, the refinement among them;
what an approval freezes; carrying forward and references, as steps of a
ledger; sales periods, snapshots and figures; accounts and the audit log; the
lists, dashboards, pages of meetings and report files; and a proof of every
safety property the passing runs check. Next, the most important first:

1. What a reopening writes back (priority and due date), in
   `ActionItemWorkflow`.
2. A deletion and the audit event that is never written for it, and the events
   of the meetings' and action items' requests beside their histories.
