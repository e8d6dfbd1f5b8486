----------------------------- MODULE SalesPeriods -----------------------------
(***************************************************************************)
(* The figures of one sales group for one reporting period, entered by     *)
(* concurrent requests, the snapshots of them taken for meetings, and the  *)
(* weekly commitments of each snapshot.                                    *)
(*                                                                         *)
(* Every view reads the period (the weekly view also the status of the     *)
(* snapshot's meeting), judges that copy, and writes later without a lock: *)
(* Load, then one of the saves.  take_snapshot looks for an existing       *)
(* snapshot, reads the three rows of figures one after the other, inserts  *)
(* the snapshot and copies the weeks of the newest earlier one.            *)
(***************************************************************************)
EXTENDS Integers, Sequences, FiniteSets, FiniteSetsExt

CONSTANTS
    Users,          \* users who may edit sales data, one request each
    Superusers,     \* those of them a closed period does not stop
    Tables,         \* rows of figures: target, delivery and order performance
    Amounts,        \* figures entered
    Statuses,       \* statuses of the period: CLOSED and what counts as open
    WeekCounts,     \* permitted numbers of weeks (4 and 5 in the code)
    Meetings,       \* meetings a snapshot may be taken for
    NoMeeting,      \* the NULL of a snapshot's meeting
    MaxSnapshots    \* bound: no snapshot is begun once there are that many

ASSUME UsersAssumption == Superusers \subseteq Users
ASSUME AmountsAssumption == Amounts \subseteq Nat
ASSUME StatusesAssumption == "CLOSED" \in Statuses /\ Statuses \subseteq {"DRAFT", "OPEN", "CLOSED"}
ASSUME WeeksAssumption == WeekCounts \subseteq Nat \ {0} /\ WeekCounts # {} /\ IsFiniteSet(WeekCounts)
ASSUME MeetingsAssumption == NoMeeting \notin Meetings /\ MaxSnapshots \in Nat

VARIABLES
    period,     \* status and weeks_count of the reporting period
    counts,     \* history variable: the weeks_counts it has had
    figures,    \* the committed row of each table
    snapshots,  \* committed snapshots, oldest first
    approved,   \* meetings in a status that locks their snapshots
    req         \* per user: the request in progress

vars == <<period, counts, figures, snapshots, approved, req>>

Periods == [status : Statuses, weeks : WeekCounts]

Absent == [present |-> FALSE, amount |-> 0]

Rows == {Absent} \cup [present : {TRUE}, amount : Amounts]

WeekRows == [week : Nat, committed : Amounts \cup {0}]

Snapshots ==
    [meeting : Meetings \cup {NoMeeting}, frozen : [Tables -> Amounts \cup {0}], weeks : Seq(WeekRows)]

Ops == {"figures", "period", "snapshot", "weekly"}

NoRequest ==
    [pc |-> "idle", op |-> "period", closed |-> FALSE, weeks |-> 0, meeting |-> NoMeeting,
     frozen |-> <<>>, table |-> "", found |-> FALSE, target |-> 0, locked |-> FALSE]

-----------------------------------------------------------------------------
Init ==
    /\ period \in [status : Statuses \ {"CLOSED"}, weeks : WeekCounts]
    /\ counts = {period.weeks}
    /\ figures = [t \in Tables |-> Absent]
    /\ snapshots = <<>>
    /\ approved = {}
    /\ req = [u \in Users |-> NoRequest]

Step(u, r) == req' = [req EXCEPT ![u] = r]

End(u) == Step(u, NoRequest)

IsLocked(p) == p.status = "CLOSED"

\* The three upsert views: period, lock and row are read; a locked period is
\* refused.
LoadFigures(u) ==
    /\ req[u].pc = "idle" /\ ~IsLocked(period)
    /\ \E t \in Tables :
          Step(u, [NoRequest EXCEPT !.pc = "judged", !.op = "figures",
                                    !.closed = IsLocked(period), !.table = t, !.found = figures[t].present])
    /\ UNCHANGED <<period, counts, figures, snapshots, approved>>

\* ReportingPeriodUpdateView.dispatch.
LoadPeriod(u) ==
    /\ req[u].pc = "idle" /\ (~IsLocked(period) \/ u \in Superusers)
    /\ Step(u, [NoRequest EXCEPT !.pc = "judged", !.op = "period", !.closed = IsLocked(period)])
    /\ UNCHANGED <<period, counts, figures, snapshots, approved>>

IsSnapshotLocked(s) == s.meeting \in approved

\* Mutant of WeeklyRefused: only the meeting is looked at.
WeeklyRefusedByMeeting(s) == IsSnapshotLocked(s)

\* Mutant of WeeklyRefused: only the period is looked at.
WeeklyRefusedByPeriod(s) == IsLocked(period)

WeeklyRefused(s) == IsSnapshotLocked(s) \/ IsLocked(period)

\* SnapshotWeeklySaveView reads the snapshot, its meeting and its period.
LoadWeekly(u) ==
    /\ req[u].pc = "idle"
    /\ \E i \in DOMAIN snapshots :
          /\ ~WeeklyRefused(snapshots[i])
          /\ Step(u, [NoRequest EXCEPT !.pc = "judged", !.op = "weekly",
                        !.closed = IsLocked(period), !.weeks = period.weeks,
                        !.target = i, !.locked = IsSnapshotLocked(snapshots[i])])
    /\ UNCHANGED <<period, counts, figures, snapshots, approved>>

\* SnapshotCreateView: whatever the period's status; a snapshot there already
\* is returned (the request changes nothing, and is not begun).
LoadSnapshot(u) ==
    /\ req[u].pc = "idle" /\ Len(snapshots) < MaxSnapshots
    /\ \E mt \in Meetings \cup {NoMeeting} :
          /\ \A i \in DOMAIN snapshots : snapshots[i].meeting # mt
          /\ Step(u, [NoRequest EXCEPT !.pc = "freezing", !.op = "snapshot",
                                       !.weeks = period.weeks, !.meeting = mt])
    /\ UNCHANGED <<period, counts, figures, snapshots, approved>>

-----------------------------------------------------------------------------
\* target.save(): an UPDATE of the row found, else an INSERT, which fails if
\* another request has made the row meanwhile (the error ends the request).
SaveFigures(u) ==
    /\ req[u].pc = "judged" /\ req[u].op = "figures"
    /\ LET t == req[u].table
       IN  IF figures[t].present # req[u].found
           THEN UNCHANGED figures
           ELSE \E a \in Amounts :
                  figures' = [figures EXCEPT ![t] = [present |-> TRUE, amount |-> a]]
    /\ End(u)
    /\ UNCHANGED <<period, counts, snapshots, approved>>

\* The form posts every column of the period.
SavePeriod(u) ==
    /\ req[u].pc = "judged" /\ req[u].op = "period"
    /\ period' \in Periods
    /\ counts' = counts \cup {period'.weeks}
    /\ End(u)
    /\ UNCHANGED <<figures, snapshots, approved>>

\* Mutant of WeekAllowed: the weeks_count that clean() falls back on.
WeekAllowedByDefault(n, weeks) == n \in 1..Max(WeekCounts)

WeekAllowed(n, weeks) == n \in 1..weeks

\* Row k of the formset is posted with any week number and amount; k beyond
\* the rows is one of the extra forms.
Edited(rows, k, n, a) ==
    IF k \in DOMAIN rows THEN [rows EXCEPT ![k] = [week |-> n, committed |-> a]]
                         ELSE Append(rows, [week |-> n, committed |-> a])

WeeksDistinct(rows) == \A j, k \in DOMAIN rows : rows[j].week = rows[k].week => j = k

\* The formset: every form shown must be valid, whether it was changed or not,
\* and no two rows of a snapshot may have the same week.  One form changes.
SaveWeekly(u) ==
    /\ req[u].pc = "judged" /\ req[u].op = "weekly"
    /\ LET i == req[u].target
           rows == snapshots[i].weeks
           extra == {k \in {Len(rows) + 1} : Len(rows) < req[u].weeks}
       IN  \E k \in DOMAIN rows \cup extra, n \in 1..Max(WeekCounts), a \in Amounts :
              LET after == Edited(rows, k, n, a)
              IN  /\ \A j \in DOMAIN after : WeekAllowed(after[j].week, req[u].weeks)
                  /\ WeeksDistinct(after)
                  /\ snapshots' = [snapshots EXCEPT ![i].weeks = after]
    /\ End(u)
    /\ UNCHANGED <<period, counts, figures, approved>>

\* The rows of figures are read one after the other, absent ones as zero.
Freeze(u) ==
    /\ req[u].pc = "freezing"
    /\ \E t \in Tables \ DOMAIN req[u].frozen :
          Step(u, [req[u] EXCEPT !.frozen =
                     [s \in DOMAIN @ \cup {t} |->
                        IF s = t THEN figures[t].amount ELSE @[s]]])
    /\ UNCHANGED <<period, counts, figures, snapshots, approved>>

\* Rows 1, 2, ... for a first snapshot, with nothing committed.
Seeded(n) == [k \in 1..n |-> [week |-> k, committed |-> 0]]

\* The weeks of the newest snapshot of the group and period, or seeded ones.
WeeksFor(count) ==
    IF snapshots = <<>> THEN Seeded(count) ELSE snapshots[Len(snapshots)].weeks

\* Mutant of Collides: the constraint does not include the meeting.
NeverCollides(mt) == FALSE

\* unique (group, period, meeting): NULL meetings never collide.
Collides(mt) == mt # NoMeeting /\ \E i \in DOMAIN snapshots : snapshots[i].meeting = mt

\* The INSERTs of the snapshot and its weeks; an IntegrityError ends the request.
TakeSnapshot(u) ==
    /\ req[u].pc = "freezing" /\ DOMAIN req[u].frozen = Tables
    /\ IF Collides(req[u].meeting)
       THEN UNCHANGED snapshots
       ELSE snapshots' = Append(snapshots, [meeting |-> req[u].meeting,
                                            frozen |-> req[u].frozen,
                                            weeks |-> WeeksFor(req[u].weeks)])
    /\ End(u)
    /\ UNCHANGED <<period, counts, figures, approved>>

\* An invalid form, a failed request: nothing is written.
Abandon(u) ==
    /\ req[u].pc # "idle" /\ End(u)
    /\ UNCHANGED <<period, counts, figures, snapshots, approved>>

\* The meeting workflow approves or reopens a meeting.
MoveMeeting(mt) ==
    /\ approved' = IF mt \in approved THEN approved \ {mt} ELSE approved \cup {mt}
    /\ UNCHANGED <<period, counts, figures, snapshots, req>>

Next ==
    \/ \E u \in Users :
          \/ LoadFigures(u) \/ LoadPeriod(u) \/ LoadWeekly(u) \/ LoadSnapshot(u)
          \/ SaveFigures(u) \/ SavePeriod(u) \/ SaveWeekly(u)
          \/ Freeze(u) \/ TakeSnapshot(u) \/ Abandon(u)
    \/ \E mt \in Meetings : MoveMeeting(mt)

Spec == Init /\ [][Next]_vars

-----------------------------------------------------------------------------
\* Types; a meeting has at most one snapshot of the group and period, however
\* many requests take it at once (take_snapshot looks first, the constraint
\* decides); and no snapshot has a week twice.
TypeOK ==
    /\ period \in Periods /\ counts \subseteq WeekCounts /\ approved \subseteq Meetings
    /\ figures \in [Tables -> Rows]
    /\ snapshots \in Seq(Snapshots)
    /\ \A i, j \in DOMAIN snapshots :
          snapshots[i].meeting = snapshots[j].meeting /\ i # j
             => snapshots[i].meeting = NoMeeting
    /\ \A i \in DOMAIN snapshots :
          LET rows == snapshots[i].weeks
          IN  Cardinality({rows[k].week : k \in DOMAIN rows}) = Len(rows)

\* Closing a period stops everybody who has not passed the check before: while
\* it is closed, its figures, its snapshots' weeks and the period itself change
\* only by the period form of a superuser, or by a request that was judged
\* while the period was open and saves late.
ClosedMeansClosed ==
    [][period.status = "CLOSED"
         /\ \/ period' # period \/ figures' # figures
            \/ \E i \in DOMAIN snapshots : snapshots'[i] # snapshots[i]
       => \E u \in Users :
             /\ req[u].pc = "judged" /\ req'[u].pc = "idle"
             /\ \/ ~req[u].closed
                \/ u \in Superusers /\ figures' = figures /\ snapshots' = snapshots]_vars

\* A snapshot whose meeting has been approved is what the minutes print.  Its
\* weeks change only by a request that is still in progress since before the
\* approval; its figures and its meeting never.
LockedWeeksKept ==
    [][\A i \in DOMAIN snapshots :
          /\ snapshots'[i].frozen = snapshots[i].frozen
          /\ snapshots'[i].meeting = snapshots[i].meeting
          /\ snapshots'[i].weeks # snapshots[i].weeks
                => \E u \in Users :
                     req[u].target = i /\ ~req[u].locked /\ req'[u].pc = "idle"]_vars

\* Whatever the period's weeks_count is changed to between taking, copying and
\* editing snapshots, every snapshot keeps at least as many weeks as the period
\* once had, and no week beyond what it once had.
WeeksExplained ==
    \A i \in DOMAIN snapshots :
        LET rows == snapshots[i].weeks
        IN  /\ Len(rows) >= Min(counts)
            /\ \A k \in DOMAIN rows : rows[k].week \in 1..Max(counts)
=============================================================================
