--------------------------- MODULE MeetingWorkflow ---------------------------
(***************************************************************************)
(* One meeting served by concurrent requests.                              *)
(*                                                                         *)
(* Every HTTP request runs in one database transaction (ATOMIC_REQUESTS),  *)
(* READ COMMITTED, with row locks: reads take no lock and see what is      *)
(* committed when they run, select_for_update and every UPDATE of the      *)
(* meeting row wait for the row lock, and a request's writes appear all at *)
(* once when it commits.  A ValidationError is caught by the view, so the  *)
(* request still commits what it wrote before; any other exception rolls   *)
(* everything back.                                                        *)
(*                                                                         *)
(* A service request goes Load (the view reads the row and judges it),     *)
(* Validate (transition_meeting reads the row again), Acquire (locks it    *)
(* and compares), TakeSnapshot (approve and publish), Commit.  A form      *)
(* request goes Load, Reload (the generic view fetches its object again),  *)
(* Save (the whole row is written back from that copy).                    *)
(***************************************************************************)
EXTENDS MeetingRules, Integers, Sequences, FiniteSets

CONSTANTS
    Users,          \* users sending requests, one request at a time each
    NoUser,         \* nobody: a free lock, an anonymous history row
    RolesOf,        \* the roles each user holds
    Ops,            \* the endpoints that receive requests
    Departments,    \* departments that may file a submission
    Notes,          \* values of the notes and of the agenda's text
    Walked,         \* the statuses the meeting has walked before Init
    VersionLimit,   \* largest PositiveSmallIntegerField value
    MaxHistory      \* bound: no request starts once the history is this long

Drafting == {"DRAFT", "OPEN_UPDATES", "AGENDA_FINALIZED", "IN_PROGRESS", "FOR_REVIEW"}

ASSUME UsersAssumption == NoUser \notin Users /\ RolesOf \in [Users -> SUBSET Roles]
ASSUME OpsAssumption == Ops \subseteq AllOps
ASSUME NotesAssumption == Notes # {}
ASSUME LimitAssumption == VersionLimit \in Nat /\ MaxHistory \in Nat
ASSUME WalkedAssumption ==
    /\ Walked \in Seq(Drafting)
    /\ Len(Walked) > 0 /\ Walked[1] = "DRAFT"
    /\ \A i \in 1..Len(Walked) - 1 : Walked[i + 1] \in Moves(Walked[i])

VARIABLES
    meeting,    \* the meeting row
    agenda,     \* text of its agenda items
    history,    \* MeetingStatusHistory rows, oldest first
    snapshots,  \* ApprovedMeetingSnapshot rows, oldest first
    subs,       \* DepartmentSubmission state per department
    lock,       \* who holds the lock on the meeting row
    pending,    \* the snapshot row inserted by the lock holder, uncommitted
    pc,         \* per user: phase of the request in progress
    call,       \* per user: what that request asks for
    checked,    \* per user: status transition_meeting has read
    copy        \* per user: the row a form request holds in memory

db      == <<meeting, agenda, history, snapshots, subs>>
session == <<pc, call, checked, copy>>
vars    == <<meeting, agenda, history, snapshots, subs, lock, pending,
             pc, call, checked, copy>>

Rows == [status : Statuses, is_locked : BOOLEAN, notes : Notes,
         published : BOOLEAN, closed : BOOLEAN, archived : BOOLEAN]

HistoryRows == [from : Statuses, to : Statuses, by : Users \cup {NoUser}, reason : BOOLEAN]

SnapshotRows == [version : Nat, trigger : Triggers, status : Statuses,
                 notes : Notes, agenda : Notes]

Calls == [op : AllOps, target : Statuses, reason : BOOLEAN]

Phases == {"idle", "loaded", "checked", "locked", "snapped", "editing"}

NoCall == [op |-> "agenda", target |-> "DRAFT", reason |-> FALSE]

NewRow(locked, text) ==
    [status |-> Walked[Len(Walked)], is_locked |-> locked, notes |-> text,
     published |-> FALSE, closed |-> FALSE, archived |-> FALSE]

BlankRow == NewRow(FALSE, CHOOSE n \in Notes : TRUE)

-----------------------------------------------------------------------------
Init ==
    /\ meeting \in {NewRow(b, n) : b \in BOOLEAN, n \in Notes}
    /\ agenda \in Notes
    /\ history = [i \in 1..Len(Walked) - 1 |->
                    [from |-> Walked[i], to |-> Walked[i + 1], by |-> NoUser, reason |-> FALSE]]
    /\ snapshots = <<>>
    /\ subs = [d \in Departments |-> "NONE"]
    /\ lock = NoUser
    /\ pending = <<>>
    /\ pc = [u \in Users |-> "idle"]
    /\ call = [u \in Users |-> NoCall]
    /\ checked = [u \in Users |-> "DRAFT"]
    /\ copy = [u \in Users |-> BlankRow]

\* The request of u has been answered; its locals are gone.
End(u) ==
    /\ pc' = [pc EXCEPT ![u] = "idle"]
    /\ call' = [call EXCEPT ![u] = NoCall]
    /\ checked' = [checked EXCEPT ![u] = "DRAFT"]
    /\ copy' = [copy EXCEPT ![u] = BlankRow]

\* The view reads the meeting and admits the request.
Load(u) ==
    /\ pc[u] = "idle"
    /\ Len(history) < MaxHistory
    /\ \E op \in Ops, target \in Statuses, reason \in BOOLEAN :
          /\ IF op \in ServiceOps THEN target \in Targets[op] ELSE target = "DRAFT" /\ ~reason
          /\ Admitted(op, RolesOf[u], meeting, target, reason)
          /\ call' = [call EXCEPT ![u] = [op |-> op, target |-> target, reason |-> reason]]
    /\ pc' = [pc EXCEPT ![u] = "loaded"]
    /\ UNCHANGED <<db, lock, pending, checked, copy>>

\* transition_meeting reads the row once more and checks it, without a lock.
Validate(u) ==
    /\ pc[u] = "loaded" /\ call[u].op \in ServiceOps
    /\ TransitionAllowed(call[u].op, RolesOf[u], meeting.status, call[u].target, call[u].reason)
    /\ pc' = [pc EXCEPT ![u] = "checked"]
    /\ checked' = [checked EXCEPT ![u] = meeting.status]
    /\ UNCHANGED <<db, lock, pending, call, copy>>

Refuse(u) ==
    /\ pc[u] = "loaded" /\ call[u].op \in ServiceOps
    /\ ~TransitionAllowed(call[u].op, RolesOf[u], meeting.status, call[u].target, call[u].reason)
    /\ End(u)
    /\ UNCHANGED <<db, lock, pending>>

\* Mutant of Acquire: the status is not compared under the lock.
AcquireUnchecked(u) ==
    /\ pc[u] = "checked" /\ lock = NoUser
    /\ lock' = u
    /\ pc' = [pc EXCEPT ![u] = "locked"]
    /\ UNCHANGED <<db, pending, call, checked, copy>>

\* select_for_update returns once nobody holds the row: the status read under
\* the lock is compared with the one the checks were made on.
Acquire(u) ==
    /\ pc[u] = "checked" /\ lock = NoUser
    /\ meeting.status = checked[u]
    /\ lock' = u
    /\ pc' = [pc EXCEPT ![u] = "locked"]
    /\ UNCHANGED <<db, pending, call, checked, copy>>

Conflict(u) ==
    /\ pc[u] = "checked" /\ lock = NoUser
    /\ meeting.status # checked[u]
    /\ End(u)
    /\ UNCHANGED <<db, lock, pending>>

-----------------------------------------------------------------------------
\* Mutant of NextVersion: the versions are read in ascending order.
NextVersionAscending ==
    IF snapshots = <<>> THEN 1 ELSE snapshots[1].version + 1

NextVersion ==
    IF snapshots = <<>> THEN 1 ELSE snapshots[Len(snapshots)].version + 1

\* Mutant of NewestIsPublish: any earlier publication counts.
AnyIsPublish == \E i \in DOMAIN snapshots : snapshots[i].trigger = "PUBLISH"

NewestIsPublish ==
    snapshots # <<>> /\ snapshots[Len(snapshots)].trigger = "PUBLISH"

\* approve_meeting always takes a snapshot, publish_meeting unless the newest
\* one was taken by a publication already.
WantsSnapshot(u) ==
    \/ call[u].op = "approve"
    \/ call[u].op = "publish" /\ ~NewestIsPublish

\* Mutant of TakeSnapshot: the snapshot is taken before the transition.
TakeSnapshotFirst(u) ==
    /\ pc[u] = "locked" /\ WantsSnapshot(u)
    /\ NextVersion <= VersionLimit
    /\ pending' = <<[version |-> NextVersion,
                     trigger |-> IF call[u].op = "approve" THEN "APPROVE" ELSE "PUBLISH",
                     status |-> meeting.status, notes |-> meeting.notes, agenda |-> agenda]>>
    /\ pc' = [pc EXCEPT ![u] = "snapped"]
    /\ UNCHANGED <<db, lock, call, checked, copy>>

\* create_approved_snapshot reads the meeting as this transaction sees it: the
\* new status, and the notes and agenda committed by now.
TakeSnapshot(u) ==
    /\ pc[u] = "locked" /\ WantsSnapshot(u)
    /\ NextVersion <= VersionLimit
    /\ pending' = <<[version |-> NextVersion,
                     trigger |-> IF call[u].op = "approve" THEN "APPROVE" ELSE "PUBLISH",
                     status |-> call[u].target, notes |-> meeting.notes, agenda |-> agenda]>>
    /\ pc' = [pc EXCEPT ![u] = "snapped"]
    /\ UNCHANGED <<db, lock, call, checked, copy>>

\* A version the column cannot hold fails the model's validation; the service
\* turns that into a ValidationError, the view catches it and the transition
\* commits alone.
SnapshotRefused(u) == WantsSnapshot(u) /\ NextVersion > VersionLimit

\* Mutant of Stamped: the stamps follow the current status only.
StampedAfresh(row, target) ==
    [row EXCEPT !.status = target, !.published = (target = "PUBLISHED"),
                !.closed = (target = "CLOSED"), !.archived = (target = "ARCHIVED")]

\* transition_meeting's UPDATE: the status, and each stamp the first time.
Stamped(row, target) ==
    [row EXCEPT !.status = target,
                !.published = @ \/ target = "PUBLISHED",
                !.closed = @ \/ target = "CLOSED",
                !.archived = @ \/ target = "ARCHIVED"]

\* What return and resubmit do to the department submissions afterwards; a
\* return leaves them alone unless it marks sections or carries remarks.
Swept(op, marked) ==
    [d \in Departments |->
        IF op = "return" /\ marked /\ subs[d] # "NONE" THEN "RETURNED"
        ELSE IF op = "resubmit" /\ subs[d] = "RETURNED" THEN "SUBMITTED"
        ELSE subs[d]]

Commit(u) ==
    /\ \/ pc[u] = "snapped"
       \/ pc[u] = "locked" /\ ~WantsSnapshot(u)
       \/ pc[u] = "locked" /\ SnapshotRefused(u)
    /\ meeting' = Stamped(meeting, call[u].target)
    /\ history' = Append(history, [from |-> checked[u], to |-> call[u].target,
                                   by |-> u, reason |-> call[u].reason])
    /\ snapshots' = snapshots \o pending
    /\ pending' = <<>>
    /\ \E marked \in BOOLEAN : subs' = Swept(call[u].op, marked)
    /\ lock' = NoUser
    /\ End(u)
    /\ UNCHANGED agenda

\* Mutant of Rollback: the snapshot was written outside the transaction.
RollbackKeepsSnapshot(u) ==
    /\ pc[u] # "idle"
    /\ End(u)
    /\ lock' = IF lock = u THEN NoUser ELSE lock
    /\ pending' = IF lock = u THEN <<>> ELSE pending
    /\ snapshots' = IF lock = u THEN snapshots \o pending ELSE snapshots
    /\ UNCHANGED <<meeting, agenda, history, subs>>

\* Mutant of Rollback: the row stays locked.
RollbackKeepsLock(u) ==
    /\ pc[u] # "idle"
    /\ End(u)
    /\ UNCHANGED <<db, lock, pending>>

\* An uncaught exception, a lost connection or a dead worker: the database
\* rolls the transaction back.
Rollback(u) ==
    /\ pc[u] # "idle"
    /\ End(u)
    /\ lock' = IF lock = u THEN NoUser ELSE lock
    /\ pending' = IF lock = u THEN <<>> ELSE pending
    /\ UNCHANGED db

-----------------------------------------------------------------------------
\* UpdateView.post fetches the object a second time; MeetingForm.clean judges
\* that copy, MinutesEditorForm does not look at the status.
Reload(u) ==
    /\ pc[u] = "loaded" /\ call[u].op \in FormOps
    /\ call[u].op = "edit" => meeting.status \notin NonEditable
    /\ copy' = [copy EXCEPT ![u] = meeting]
    /\ pc' = [pc EXCEPT ![u] = "editing"]
    /\ UNCHANGED <<db, lock, pending, call, checked>>

RefuseEdit(u) ==
    /\ pc[u] = "loaded" /\ call[u].op = "edit"
    /\ meeting.status \in NonEditable
    /\ End(u)
    /\ UNCHANGED <<db, lock, pending>>

\* Mutant of Save: the form lists the status among its fields.
SaveWithStatus(u) ==
    /\ pc[u] = "editing" /\ lock = NoUser
    /\ \E text \in Notes, s \in Statuses :
          meeting' = [copy[u] EXCEPT !.notes = text, !.status = s]
    /\ End(u)
    /\ UNCHANGED <<agenda, history, snapshots, subs, lock, pending>>

\* form.save() writes every column of the row from the copy: the posted ones
\* are new, the others as old as the copy.
Save(u) ==
    /\ pc[u] = "editing" /\ lock = NoUser
    /\ \E text \in Notes, flag \in BOOLEAN :
          /\ call[u].op = "minutes" => flag = copy[u].is_locked
          /\ meeting' = [copy[u] EXCEPT !.notes = text, !.is_locked = flag]
    /\ End(u)
    /\ UNCHANGED <<agenda, history, snapshots, subs, lock, pending>>

\* An agenda item is edited; the meeting was judged when it was loaded.
SaveAgenda(u) ==
    /\ pc[u] = "loaded" /\ call[u].op = "agenda"
    /\ agenda' \in Notes
    /\ End(u)
    /\ UNCHANGED <<meeting, history, snapshots, subs, lock, pending>>

\* dept_submission_upsert: any state may be chosen.  Inserting the first row
\* of a department references the meeting row and waits for its lock.
Upsert(u) ==
    /\ pc[u] = "loaded" /\ call[u].op = "upsert"
    /\ \E d \in Departments, s \in SubmissionStates :
          /\ subs[d] = "NONE" => lock = NoUser
          /\ subs' = [subs EXCEPT ![d] = s]
    /\ End(u)
    /\ UNCHANGED <<meeting, agenda, history, snapshots, lock, pending>>

-----------------------------------------------------------------------------
Work(u) ==
    \/ Validate(u) \/ Refuse(u) \/ Acquire(u) \/ Conflict(u)
    \/ TakeSnapshot(u) \/ Commit(u)
    \/ Reload(u) \/ RefuseEdit(u) \/ Save(u) \/ SaveAgenda(u) \/ Upsert(u)

Next == \E u \in Users : Load(u) \/ Work(u) \/ Rollback(u)

Spec == Init /\ [][Next]_vars

\* A worker runs the request it has taken to its end, and PostgreSQL hands a
\* row lock to its waiters in turn.
FairSpec == Spec /\ \A u \in Users : SF_vars(Work(u))

-----------------------------------------------------------------------------
(* Properties.                                                             *)

\* Every variable has its type.
TypeOK ==
    /\ meeting \in Rows /\ agenda \in Notes
    /\ history \in Seq(HistoryRows) /\ snapshots \in Seq(SnapshotRows)
    /\ subs \in [Departments -> SubmissionStates \cup {"NONE"}]
    /\ lock \in Users \cup {NoUser}
    /\ pending \in Seq(SnapshotRows)
    /\ pc \in [Users -> Phases] /\ call \in [Users -> Calls]
    /\ checked \in [Users -> Statuses] /\ copy \in [Users -> Rows]

\* The compare-under-lock of transition_meeting: from the moment a request
\* holds the row until it commits, the status it validated is the status of
\* the row, its target is one move away, and only the holder has a snapshot
\* in flight.
LockProtocol ==
    /\ \A u \in Users : pc[u] \in {"locked", "snapped"} <=> lock = u
    /\ \A u \in Users : lock = u => /\ checked[u] = meeting.status
                                    /\ call[u].target \in Moves(meeting.status)
    /\ pending # <<>> <=> \E u \in Users : lock = u /\ pc[u] = "snapped"

\* However requests interleave, every MeetingStatusHistory row is a move of
\* VALID_TRANSITIONS, made by someone entitled to it: a return carries its
\* reason and a reviewer's name, an archive an administrator's, and whoever
\* is not an author or the owner only ever submits.
LegalHistory ==
    \A i \in DOMAIN history :
        LET row == history[i]
        IN  /\ row.to \in Moves(row.from)
            /\ row.to = "RETURNED" =>
                  row.reason /\ row.by \in Users /\ IsReviewer(RolesOf[row.by])
            /\ row.to = "ARCHIVED" => row.by \in Users /\ IsAdmin(RolesOf[row.by])
            /\ row.by \in Users /\ row.to # "FOR_REVIEW" =>
                  IsAuthor(RolesOf[row.by]) \/ "OWNER" \in RolesOf[row.by]

\* The unique (meeting, version) constraint never fires: versions count 1, 2,
\* 3, ... in the order of commits and the one in flight is the next.
SnapshotVersions ==
    /\ \A i \in DOMAIN snapshots : snapshots[i].version = i
    /\ pending # <<>> => pending[1].version = Len(snapshots) + 1

\* No snapshot without the transition it documents: there are at most as many
\* APPROVE (PUBLISH) snapshots as moves to APPROVED (PUBLISHED), and each
\* froze the meeting in that very status.
SnapshotsExplained ==
    /\ \A i \in DOMAIN snapshots :
          snapshots[i].status = IF snapshots[i].trigger = "APPROVE" THEN "APPROVED" ELSE "PUBLISHED"
    /\ \A pair \in {<<"APPROVE", "APPROVED">>, <<"PUBLISH", "PUBLISHED">>} :
          Cardinality({i \in DOMAIN snapshots : snapshots[i].trigger = pair[1]})
             <= Cardinality({i \in DOMAIN history : history[i].to = pair[2]})

Reached(s) == s = "DRAFT" \/ \E i \in DOMAIN history : history[i].to = s

\* Even stale forms cannot invent a past: the status of the row, and of every
\* copy a form may still write back, was reached by a recorded move, and a
\* stamp is only set on a meeting that was moved to that status.
StatusExplained ==
    \A row \in {meeting} \cup {copy[u] : u \in {v \in Users : pc[v] = "editing"}} :
        /\ Reached(row.status)
        /\ row.published => Reached("PUBLISHED")
        /\ row.closed => Reached("CLOSED")
        /\ row.archived => Reached("ARCHIVED")

\* With no form saving whole rows, the history is the life of the meeting: it
\* starts at DRAFT, each row leaves from where the previous one arrived, the
\* last one arrives at the current status, and the stamps say what was reached.
HistoryChain ==
    LET arrived(i) == IF i = 0 THEN "DRAFT" ELSE history[i].to
    IN  /\ \A i \in DOMAIN history : history[i].from = arrived(i - 1)
        /\ meeting.status = arrived(Len(history))
        /\ meeting.published <=> Reached("PUBLISHED")
        /\ meeting.closed <=> Reached("CLOSED")
        /\ meeting.archived <=> Reached("ARCHIVED")

\* When approvals and publications go through their own endpoints only, an
\* approved (published) meeting has an approval (publication) as its newest
\* snapshot: a publication after a re-approval is never skipped as a duplicate.
ApprovalsOnRecord ==
    LET newest == snapshots[Len(snapshots)].trigger
    IN  /\ meeting.status = "APPROVED" => snapshots # <<>> /\ newest = "APPROVE"
        /\ meeting.status = "PUBLISHED" => snapshots # <<>> /\ newest = "PUBLISH"

\* Every status on record, oldest first.
TrailOf(h) == <<"DRAFT">> \o [i \in DOMAIN h |-> h[i].to]
Trail == TrailOf(history)

\* The meeting as its readers are promised it, see MeetingLifecycle.
Lifecycle == INSTANCE MeetingLifecycle WITH
    status <- meeting.status, trail <- Trail, versions <- Len(snapshots)

\* Every service step is a step of the life cycle or leaves it alone.
ImplementsLifecycle == Lifecycle!Spec

\* Every request is answered: a waiter on the row lock gets it or is refused,
\* whatever the other requests do and wherever they fail.
RequestsFinish == \A u \in Users : pc[u] # "idle" ~> pc[u] = "idle"

=============================================================================
