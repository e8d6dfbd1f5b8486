------------------------- MODULE SalesPeriods_proofs -------------------------
(***************************************************************************)
(* Proofs about SalesPeriods for any users, amounts, week counts, meetings *)
(* and bound.                                                              *)
(***************************************************************************)
EXTENDS SalesPeriods, TableFacts

Requests ==
    [pc : {"idle", "judged", "freezing"}, op : Ops, closed : BOOLEAN, weeks : Nat,
     meeting : Meetings \cup {NoMeeting},
     frozen : UNION {[T -> Amounts \cup {0}] : T \in SUBSET Tables},
     table : Tables \cup {""}, found : BOOLEAN, target : Nat, locked : BOOLEAN]

\* What a request carries from its judgement to its save: it was let through,
\* and the number of weeks it goes by is one the period has had.
Judged(u) ==
    /\ req[u].pc = "judged" /\ req[u].op = "figures" => req[u].table \in Tables /\ ~req[u].closed
    /\ req[u].pc = "judged" /\ req[u].op = "period" => ~req[u].closed \/ u \in Superusers
    /\ req[u].pc = "judged" /\ req[u].op = "weekly" =>
          /\ req[u].target \in DOMAIN snapshots /\ req[u].weeks \in counts
          /\ ~req[u].closed /\ ~req[u].locked
    /\ req[u].pc = "freezing" => req[u].weeks \in counts

\* The rows of a snapshot, by the counts the period has had.
Explained(rows, cs) ==
    /\ WeeksDistinct(rows)
    /\ \E c \in cs : Len(rows) >= c
    /\ \A k \in DOMAIN rows : \E c \in cs : rows[k].week \in 1..c

SalesInv ==
    /\ period \in Periods /\ counts \subseteq WeekCounts /\ period.weeks \in counts
    /\ approved \subseteq Meetings
    /\ figures \in [Tables -> Rows]
    /\ snapshots \in Seq(Snapshots)
    /\ \A i, j \in DOMAIN snapshots :
          snapshots[i].meeting = snapshots[j].meeting /\ i # j
             => snapshots[i].meeting = NoMeeting
    /\ \A i \in DOMAIN snapshots : Explained(snapshots[i].weeks, counts)
    /\ req \in [Users -> Requests]
    /\ \A u \in Users : Judged(u)

-----------------------------------------------------------------------------
(* The operators.                                                           *)

LEMMA NoRequestTyped == NoRequest \in Requests /\ NoRequest.pc = "idle"
<1>1. <<>> \in [{} -> Amounts \cup {0}]
  OBVIOUS
<1> QED
  BY <1>1 DEF NoRequest, Requests, Ops

LEMMA RowFields == \A row \in Rows : row.present \in BOOLEAN /\ row.amount \in Amounts \cup {0}
<1> SUFFICES ASSUME NEW row \in Rows
             PROVE  row.present \in BOOLEAN /\ row.amount \in Amounts \cup {0}
  OBVIOUS
<1>1. CASE row = Absent
  BY <1>1 DEF Absent
<1>2. CASE row \in [present : {TRUE}, amount : Amounts]
  <2>1. row.present = TRUE /\ row.amount \in Amounts
    BY <1>2
  <2> QED
    BY <2>1
<1> QED
  BY <1>1, <1>2 DEF Rows

\* The largest of a finite set of counts.
LEMMA MaxInTable ==
    ASSUME NEW S, IsFiniteSet(S), S \subseteq Nat, S # {}
    PROVE  Max(S) \in S /\ Max(S) \in Nat /\ \A c \in S : c <= Max(S)
<1>1. \E m \in S : \A x \in S : m >= x
  BY LargestNumber
<1>2. Max(S) \in S /\ \A x \in S : Max(S) >= x
  BY <1>1 DEF Max
<1> QED
  BY <1>2

\* The rows of weeks are typed and their numbers all differ: as many weeks as rows.
LEMMA WeeksCounted ==
    ASSUME NEW rows \in Seq(WeekRows), WeeksDistinct(rows)
    PROVE  Cardinality({rows[k].week : k \in DOMAIN rows}) = Len(rows)
<1> DEFINE weeks == {rows[k].week : k \in DOMAIN rows}
           f == [k \in 1..Len(rows) |-> rows[k].week]
<1>1. DOMAIN rows = 1..Len(rows) /\ Len(rows) \in Nat
  OBVIOUS
<1>2. f \in Bijection(1..Len(rows), weeks)
  <2>1. f \in [1..Len(rows) -> weeks]
    BY <1>1
  <2>2. \A k \in DOMAIN rows : f[k] = rows[k].week
    BY <1>1
  <2>3. f \in Injection(1..Len(rows), weeks)
    BY <1>1, <2>1, <2>2 DEF Injection, IsInjective, WeeksDistinct
  <2>4. f \in Surjection(1..Len(rows), weeks)
    BY <1>1, <2>1, <2>2 DEF Surjection
  <2> QED
    BY <2>3, <2>4 DEF Bijection
<1>3. ExistsBijection(1..Len(rows), weeks)
  BY <1>2 DEF ExistsBijection
<1> QED
  BY <1>1, <1>3, FS_CountingElements

\* Seeded rows are the weeks of a count the period has.
LEMMA SeededRows ==
    ASSUME NEW n \in Nat \ {0}
    PROVE  /\ Seeded(n) \in Seq(WeekRows) /\ Len(Seeded(n)) = n
           /\ WeeksDistinct(Seeded(n))
           /\ \A k \in DOMAIN Seeded(n) : Seeded(n)[k].week \in 1..n
<1>1. \A k \in 1..n : [week |-> k, committed |-> 0] \in WeekRows
  BY DEF WeekRows
<1>2. Seeded(n) \in [1..n -> WeekRows] /\ \A k \in 1..n : Seeded(n)[k].week = k
  BY <1>1 DEF Seeded
<1>3. Seeded(n) \in Seq(WeekRows) /\ Len(Seeded(n)) = n /\ DOMAIN Seeded(n) = 1..n
  BY <1>2
<1> QED
  BY <1>2, <1>3 DEF WeeksDistinct

\* A form changes one row or adds one.
LEMMA EditedRows ==
    ASSUME NEW rows \in Seq(WeekRows), NEW k \in DOMAIN rows \cup {Len(rows) + 1},
           NEW n \in Nat, NEW a \in Amounts
    PROVE  Edited(rows, k, n, a) \in Seq(WeekRows) /\ Len(Edited(rows, k, n, a)) >= Len(rows)
<1>1. Len(rows) \in Nat /\ DOMAIN rows = 1..Len(rows) /\ rows \in [1..Len(rows) -> WeekRows]
  OBVIOUS
<1> DEFINE row == [week |-> n, committed |-> a]
<1>4. row \in WeekRows
  BY DEF WeekRows
<1> HIDE DEF row
<1>2. CASE k \in DOMAIN rows
  <2>1. [rows EXCEPT ![k] = row] \in [1..Len(rows) -> WeekRows]
    BY <1>1, <1>4
  <2>2. /\ [rows EXCEPT ![k] = row] \in Seq(WeekRows)
        /\ Len([rows EXCEPT ![k] = row]) = Len(rows)
    BY <1>1, <1>4, <2>1
  <2> QED
    BY <1>2, <2>2 DEF Edited, row
<1>3. CASE k \notin DOMAIN rows
  BY <1>1, <1>4, <1>3 DEF Edited, row
<1> QED
  BY <1>2, <1>3

\* More counts explain as much.
LEMMA StillExplained ==
    ASSUME NEW rows, NEW cs, NEW ds, Explained(rows, cs), cs \subseteq ds
    PROVE  Explained(rows, ds)
  BY DEF Explained

-----------------------------------------------------------------------------
(* The actions.                                                             *)

LEMMA Starts == Init => SalesInv
<1> SUFFICES ASSUME Init PROVE SalesInv
  OBVIOUS
<1>1. period \in Periods /\ counts \subseteq WeekCounts /\ period.weeks \in counts
  BY DEF Init, Periods
<1>2. figures \in [Tables -> Rows]
  BY DEF Init, Rows
<1>3. snapshots \in Seq(Snapshots) /\ DOMAIN snapshots = {}
  BY DEF Init
<1>4. req \in [Users -> Requests]
  BY NoRequestTyped DEF Init
<1>5. \A u \in Users : Judged(u)
  BY NoRequestTyped DEF Init, Judged
<1> QED
  BY <1>1, <1>2, <1>3, <1>4, <1>5 DEF Init, SalesInv

\* A request that only changes itself, judged the way it must be.
LEMMA StepKeeps ==
    ASSUME SalesInv, NEW u \in Users, NEW r \in Requests, Step(u, r),
           UNCHANGED <<period, counts, figures, snapshots, approved>>, Judged(u)'
    PROVE  SalesInv'
<1>1. req' \in [Users -> Requests] /\ \A v \in Users : v # u => req'[v] = req[v]
  BY DEF SalesInv, Step
<1>2. \A v \in Users : v # u => Judged(v)'
  BY <1>1 DEF SalesInv, Judged
<1>3. \A i \in DOMAIN snapshots : Explained(snapshots[i].weeks, counts')
  BY StillExplained DEF SalesInv
<1> QED
  BY <1>1, <1>2, <1>3 DEF SalesInv

\* The end of a request leaves the others as they were, judged by tables that
\* still have what they went by.
LEMMA EndKeeps ==
    ASSUME SalesInv, NEW u \in Users, End(u), counts \subseteq counts',
           DOMAIN snapshots \subseteq DOMAIN snapshots'
    PROVE  req' \in [Users -> Requests] /\ \A v \in Users : Judged(v)'
<1>1. req' \in [Users -> Requests] /\ req'[u] = NoRequest /\ \A v \in Users : v # u => req'[v] = req[v]
  BY NoRequestTyped DEF SalesInv, End, Step
<1>2. Judged(u)'
  BY <1>1, NoRequestTyped DEF Judged
<1>3. \A v \in Users : v # u => Judged(v)'
  BY <1>1 DEF SalesInv, Judged
<1> QED
  BY <1>1, <1>2, <1>3

LEMMA LoadFiguresKeeps ==
    ASSUME SalesInv, NEW u \in Users, LoadFigures(u)
    PROVE  SalesInv'
<1>1. PICK t \in Tables :
         Step(u, [NoRequest EXCEPT !.pc = "judged", !.op = "figures",
                    !.closed = IsLocked(period), !.table = t, !.found = figures[t].present])
  BY DEF LoadFigures
<1> DEFINE r == [NoRequest EXCEPT !.pc = "judged", !.op = "figures",
                    !.closed = IsLocked(period), !.table = t, !.found = figures[t].present]
<1>2. figures[t].present \in BOOLEAN /\ IsLocked(period) = FALSE
  <2>1. figures[t] \in Rows
    BY DEF SalesInv
  <2>2. ~IsLocked(period)
    BY DEF LoadFigures
  <2> QED
    BY <2>1, <2>2, RowFields DEF IsLocked
<1>3. r \in Requests
  BY <1>2, NoRequestTyped DEF Requests, Ops
<1>4. req'[u] = r
  BY <1>1 DEF SalesInv, Step
<1>5. r.pc = "judged" /\ r.op = "figures" /\ r.table = t /\ r.closed = FALSE
  BY <1>2 DEF NoRequest
<1>6. Judged(u)'
  BY <1>4, <1>5 DEF Judged
<1> QED
  BY <1>1, <1>3, <1>6, StepKeeps DEF LoadFigures

LEMMA LoadPeriodKeeps ==
    ASSUME SalesInv, NEW u \in Users, LoadPeriod(u)
    PROVE  SalesInv'
<1> DEFINE r == [NoRequest EXCEPT !.pc = "judged", !.op = "period", !.closed = IsLocked(period)]
<1>1. r \in Requests
  BY NoRequestTyped DEF Requests, Ops, IsLocked
<1>2. req'[u] = r
  BY DEF SalesInv, Step, LoadPeriod
<1>3. r.pc = "judged" /\ r.op = "period" /\ r.closed = IsLocked(period)
  BY DEF NoRequest
<1>4. Judged(u)'
  BY <1>2, <1>3 DEF Judged, LoadPeriod
<1> QED
  BY <1>1, <1>4, StepKeeps DEF LoadPeriod

LEMMA LoadWeeklyKeeps ==
    ASSUME SalesInv, NEW u \in Users, LoadWeekly(u)
    PROVE  SalesInv'
<1>1. PICK i \in DOMAIN snapshots :
         /\ ~WeeklyRefused(snapshots[i])
         /\ Step(u, [NoRequest EXCEPT !.pc = "judged", !.op = "weekly",
                       !.closed = IsLocked(period), !.weeks = period.weeks,
                       !.target = i, !.locked = IsSnapshotLocked(snapshots[i])])
  BY DEF LoadWeekly
<1> DEFINE r == [NoRequest EXCEPT !.pc = "judged", !.op = "weekly",
                       !.closed = IsLocked(period), !.weeks = period.weeks,
                       !.target = i, !.locked = IsSnapshotLocked(snapshots[i])]
<1>2. IsLocked(period) = FALSE /\ IsSnapshotLocked(snapshots[i]) = FALSE
  <2>1. ~IsLocked(period) /\ ~IsSnapshotLocked(snapshots[i])
    BY <1>1 DEF WeeklyRefused
  <2> QED
    BY <2>1 DEF IsLocked, IsSnapshotLocked
<1>3. i \in Nat /\ period.weeks \in Nat /\ period.weeks \in counts
  <2>1. DOMAIN snapshots = 1..Len(snapshots) /\ Len(snapshots) \in Nat
    BY DEF SalesInv
  <2>2. period.weeks \in WeekCounts /\ period.weeks \in counts
    BY DEF SalesInv
  <2> HIDE DEF r
  <2>3. i \in Nat
    BY <2>1
  <2> QED
    BY <2>2, <2>3, WeeksAssumption
<1>4. r \in Requests
  BY <1>2, <1>3, NoRequestTyped DEF Requests, Ops
<1>5. req'[u] = r
  BY <1>1 DEF SalesInv, Step
<1>6. /\ r.pc = "judged" /\ r.op = "weekly" /\ r.closed = FALSE /\ r.locked = FALSE
      /\ r.target = i /\ r.weeks = period.weeks
  BY <1>2 DEF NoRequest
<1>7. UNCHANGED <<period, counts, figures, snapshots, approved>>
  BY DEF LoadWeekly
<1>8. Judged(u)'
  BY <1>3, <1>5, <1>6, <1>7 DEF Judged
<1> QED
  BY <1>1, <1>4, <1>7, <1>8, StepKeeps

LEMMA LoadSnapshotKeeps ==
    ASSUME SalesInv, NEW u \in Users, LoadSnapshot(u)
    PROVE  SalesInv'
<1>1. PICK mt \in Meetings \cup {NoMeeting} :
         Step(u, [NoRequest EXCEPT !.pc = "freezing", !.op = "snapshot",
                                   !.weeks = period.weeks, !.meeting = mt])
  BY DEF LoadSnapshot
<1> DEFINE r == [NoRequest EXCEPT !.pc = "freezing", !.op = "snapshot",
                                  !.weeks = period.weeks, !.meeting = mt]
<1>2. period.weeks \in Nat /\ period.weeks \in counts
  BY WeeksAssumption DEF SalesInv, Periods
<1>3. r \in Requests
  BY <1>2, NoRequestTyped DEF Requests, Ops
<1>4. req'[u] = r /\ UNCHANGED <<period, counts, figures, snapshots, approved>>
  BY <1>1 DEF SalesInv, Step, LoadSnapshot
<1>5. r.pc = "freezing" /\ r.op = "snapshot" /\ r.weeks = period.weeks
  BY DEF NoRequest
<1>6. Judged(u)'
  BY <1>2, <1>4, <1>5 DEF Judged
<1> QED
  BY <1>1, <1>3, <1>4, <1>6, StepKeeps

LEMMA SaveFiguresKeeps ==
    ASSUME SalesInv, NEW u \in Users, SaveFigures(u)
    PROVE  SalesInv'
<1>1. figures' \in [Tables -> Rows]
  <2>1. \A a \in Amounts : [present |-> TRUE, amount |-> a] \in Rows
    BY DEF Rows
  <2> QED
    BY <2>1 DEF SaveFigures, SalesInv
<1>2. UNCHANGED <<period, counts, snapshots, approved>> /\ End(u)
  BY DEF SaveFigures
<1>3. req' \in [Users -> Requests] /\ \A v \in Users : Judged(v)'
  BY <1>2, EndKeeps
<1>4. \A i \in DOMAIN snapshots : Explained(snapshots[i].weeks, counts')
  BY <1>2, StillExplained DEF SalesInv
<1> QED
  BY <1>1, <1>2, <1>3, <1>4 DEF SalesInv

LEMMA SavePeriodKeeps ==
    ASSUME SalesInv, NEW u \in Users, SavePeriod(u)
    PROVE  SalesInv'
<1>1. /\ period' \in Periods /\ counts' = counts \cup {period'.weeks} /\ End(u)
      /\ UNCHANGED <<figures, snapshots, approved>>
  BY DEF SavePeriod
<1>2. counts' \subseteq WeekCounts /\ period'.weeks \in counts'
  BY <1>1 DEF SalesInv, Periods
<1>3. req' \in [Users -> Requests] /\ \A v \in Users : Judged(v)'
  BY <1>1, EndKeeps
<1>4. \A i \in DOMAIN snapshots : Explained(snapshots[i].weeks, counts')
  BY <1>1, StillExplained DEF SalesInv
<1> QED
  BY <1>1, <1>2, <1>3, <1>4 DEF SalesInv

LEMMA FreezeKeeps ==
    ASSUME SalesInv, NEW u \in Users, Freeze(u)
    PROVE  SalesInv'
<1> DEFINE q == req[u]
           f(t) == [s \in DOMAIN q.frozen \cup {t} |->
                      IF s = t THEN figures[t].amount ELSE q.frozen[s]]
<1>1. PICK t \in Tables : Step(u, [q EXCEPT !.frozen = f(t)])
  BY DEF Freeze
<1> DEFINE r == [q EXCEPT !.frozen = f(t)]
<1>2. q \in Requests /\ q.pc = "freezing" /\ q.weeks \in counts
  BY DEF SalesInv, Freeze, Judged
<1>3. figures[t].amount \in Amounts \cup {0}
  BY RowFields DEF SalesInv
<1>4. PICK T \in SUBSET Tables : q.frozen \in [T -> Amounts \cup {0}]
  BY <1>2 DEF Requests
<1>5. f(t) \in [T \cup {t} -> Amounts \cup {0}] /\ T \cup {t} \in SUBSET Tables
  BY <1>3, <1>4
<1> HIDE DEF f
<1>6. r \in Requests
  BY <1>2, <1>5 DEF Requests
<1>7. req'[u] = r /\ r.pc = "freezing" /\ r.weeks = q.weeks
  BY <1>1, <1>2 DEF SalesInv, Step, Requests
<1>8. UNCHANGED <<period, counts, figures, snapshots, approved>>
  BY DEF Freeze
<1>9. Judged(u)'
  BY <1>2, <1>7, <1>8 DEF Judged
<1> QED
  BY <1>1, <1>6, <1>8, <1>9, StepKeeps

\* The row that is added is one more snapshot, with its weeks explained.
LEMMA TakeSnapshotKeeps ==
    ASSUME SalesInv, NEW u \in Users, TakeSnapshot(u)
    PROVE  SalesInv'
<1> DEFINE q == req[u]
           s == [meeting |-> q.meeting, frozen |-> q.frozen, weeks |-> WeeksFor(q.weeks)]
<1>1. /\ q \in Requests /\ q.pc = "freezing" /\ q.weeks \in counts /\ DOMAIN q.frozen = Tables
      /\ q.weeks \in Nat \ {0} /\ End(u) /\ UNCHANGED <<period, counts, figures, approved>>
  BY WeeksAssumption DEF SalesInv, Judged, TakeSnapshot
<1>2. CASE Collides(q.meeting)
  <2>1. UNCHANGED snapshots
    BY <1>2 DEF TakeSnapshot
  <2>2. req' \in [Users -> Requests] /\ \A v \in Users : Judged(v)'
    BY <1>1, <2>1, EndKeeps
  <2>3. \A i \in DOMAIN snapshots : Explained(snapshots[i].weeks, counts')
    BY <1>1, <2>1, StillExplained DEF SalesInv
  <2> QED
    BY <1>1, <2>1, <2>2, <2>3 DEF SalesInv
<1>3. CASE ~ Collides(q.meeting)
  <2>1. snapshots' = Append(snapshots, s)
    BY <1>3 DEF TakeSnapshot
  <2>2. q.frozen \in [Tables -> Amounts \cup {0}] /\ q.meeting \in Meetings \cup {NoMeeting}
    BY <1>1 DEF Requests
  <2>3. WeeksFor(q.weeks) \in Seq(WeekRows) /\ Explained(s.weeks, counts)
    <3>1. CASE snapshots = <<>>
      <4>1. WeeksFor(q.weeks) = Seeded(q.weeks)
        BY <3>1 DEF WeeksFor
      <4> QED
        BY <1>1, <4>1, SeededRows DEF Explained
    <3>2. CASE snapshots # <<>>
      <4>1. Len(snapshots) \in DOMAIN snapshots /\ WeeksFor(q.weeks) = snapshots[Len(snapshots)].weeks
        BY <3>2 DEF WeeksFor, SalesInv
      <4>2. \A i \in DOMAIN snapshots : snapshots[i] \in Snapshots /\ Explained(snapshots[i].weeks, counts)
        BY DEF SalesInv
      <4>3. snapshots[Len(snapshots)].weeks \in Seq(WeekRows)
        BY <4>1, <4>2 DEF Snapshots
      <4> QED
        BY <4>1, <4>2, <4>3
    <3> QED
      BY <3>1, <3>2
  <2>4. s \in Snapshots /\ s.meeting = q.meeting
    BY <2>2, <2>3 DEF Snapshots
  <2> HIDE DEF s
  <2>5. /\ snapshots' \in Seq(Snapshots)
        /\ \A i \in DOMAIN snapshots : i \in DOMAIN snapshots' /\ snapshots'[i] = snapshots[i]
        /\ \A i \in DOMAIN snapshots' : \/ i = Len(snapshots) + 1 /\ snapshots'[i] = s
                                        \/ i \in DOMAIN snapshots /\ snapshots'[i] = snapshots[i]
    BY <2>1, <2>4, AppendRows DEF SalesInv
  <2>6. req' \in [Users -> Requests] /\ \A v \in Users : Judged(v)'
    BY <1>1, <2>5, EndKeeps
  <2>7. \A i \in DOMAIN snapshots' : Explained(snapshots'[i].weeks, counts')
    <3>1. Explained(s.weeks, counts')
      BY <1>1, <2>3, StillExplained
    <3>2. \A i \in DOMAIN snapshots : Explained(snapshots[i].weeks, counts')
      BY <1>1, StillExplained DEF SalesInv
    <3>3. ASSUME NEW i \in DOMAIN snapshots' PROVE Explained(snapshots'[i].weeks, counts')
      <4>1. CASE snapshots'[i] = s
        BY <3>1, <4>1
      <4>2. CASE i \in DOMAIN snapshots /\ snapshots'[i] = snapshots[i]
        BY <3>2, <4>2
      <4> QED
        BY <2>5, <4>1, <4>2
    <3> QED
      BY <3>3
  <2>8. \A i, j \in DOMAIN snapshots' :
           snapshots'[i].meeting = snapshots'[j].meeting /\ i # j
              => snapshots'[i].meeting = NoMeeting
    BY <1>3, <2>4, <2>5 DEF Collides, SalesInv
  <2> QED
    BY <1>1, <2>5, <2>6, <2>7, <2>8 DEF SalesInv
<1> QED
  BY <1>2, <1>3

\* The rows after an edit, valid and distinct, replace those of the snapshot.
LEMMA SaveWeeklyKeeps ==
    ASSUME SalesInv, NEW u \in Users, SaveWeekly(u)
    PROVE  SalesInv'
<1> DEFINE i == req[u].target
           rows == snapshots[i].weeks
           extra == {k \in {Len(rows) + 1} : Len(rows) < req[u].weeks}
<1>1. PICK k \in DOMAIN rows \cup extra, n \in 1..Max(WeekCounts), a \in Amounts :
         /\ \A j \in DOMAIN Edited(rows, k, n, a) :
               WeekAllowed(Edited(rows, k, n, a)[j].week, req[u].weeks)
         /\ WeeksDistinct(Edited(rows, k, n, a))
         /\ snapshots' = [snapshots EXCEPT ![i].weeks = Edited(rows, k, n, a)]
  BY DEF SaveWeekly
<1> DEFINE after == Edited(rows, k, n, a)
<1>2. /\ i \in DOMAIN snapshots /\ req[u].weeks \in counts /\ req[u].weeks \in Nat
      /\ snapshots[i] \in Snapshots /\ Explained(rows, counts) /\ End(u)
      /\ UNCHANGED <<period, counts, figures, approved>>
  <2>1. /\ req[u].pc = "judged" /\ req[u].op = "weekly" /\ Judged(u) /\ req[u] \in Requests
        /\ End(u) /\ UNCHANGED <<period, counts, figures, approved>>
    BY DEF SalesInv, SaveWeekly
  <2>2. i \in DOMAIN snapshots /\ req[u].weeks \in counts /\ req[u].weeks \in Nat
    BY <2>1 DEF Judged, Requests
  <2> QED
    BY <2>1, <2>2 DEF SalesInv
<1>3. rows \in Seq(WeekRows)
  BY <1>2 DEF Snapshots
<1>4. k \in DOMAIN rows \cup {Len(rows) + 1}
  OBVIOUS
<1>5. Max(WeekCounts) \in Nat
  BY WeeksAssumption, MaxInTable
<1>6. after \in Seq(WeekRows) /\ Len(after) >= Len(rows)
  <2>1. n \in Nat
    BY <1>5
  <2> HIDE DEF rows
  <2> QED
    BY <1>3, <1>4, <2>1, EditedRows
<1> HIDE DEF rows, extra, i
<1>7. Explained(after, counts)
  <2>1. WeeksDistinct(after) /\ \A j \in DOMAIN after : after[j].week \in 1..req[u].weeks
    BY <1>1 DEF WeekAllowed
  <2>2. PICK c \in counts : Len(rows) >= c
    BY <1>2 DEF Explained
  <2>3. Len(after) \in Nat /\ Len(rows) \in Nat /\ c \in Nat
    BY <1>3, <1>6, WeeksAssumption DEF SalesInv
  <2>4. Len(after) >= c
    BY <1>6, <2>2, <2>3
  <2> QED
    BY <1>2, <2>1, <2>4 DEF Explained
<1> HIDE DEF after
<1>8. /\ snapshots' = [snapshots EXCEPT ![i] = [snapshots[i] EXCEPT !.weeks = after]]
      /\ [snapshots[i] EXCEPT !.weeks = after] \in Snapshots
      /\ [snapshots[i] EXCEPT !.weeks = after].weeks = after
      /\ [snapshots[i] EXCEPT !.weeks = after].meeting = snapshots[i].meeting
  BY <1>1, <1>2, <1>6 DEF Snapshots, after
<1>9. /\ snapshots' \in Seq(Snapshots) /\ DOMAIN snapshots' = DOMAIN snapshots
      /\ \A j \in DOMAIN snapshots :
            /\ snapshots'[j].meeting = snapshots[j].meeting
            /\ snapshots'[j].weeks = IF j = i THEN after ELSE snapshots[j].weeks
  <2> DEFINE s == [snapshots[i] EXCEPT !.weeks = after]
  <2>1. snapshots \in Seq(Snapshots) /\ s \in Snapshots /\ snapshots' = [snapshots EXCEPT ![i] = s]
        /\ s.weeks = after /\ s.meeting = snapshots[i].meeting
    BY <1>8 DEF SalesInv
  <2> HIDE DEF s
  <2>2. snapshots' \in Seq(Snapshots) /\ DOMAIN snapshots' = DOMAIN snapshots
    BY <2>1, <1>2
  <2> QED
    BY <1>2, <2>1, <2>2
<1>10. req' \in [Users -> Requests] /\ \A v \in Users : Judged(v)'
  BY <1>2, <1>9, EndKeeps
<1>11. \A j \in DOMAIN snapshots' : Explained(snapshots'[j].weeks, counts')
  BY <1>2, <1>7, <1>9 DEF SalesInv
<1>12. \A j, l \in DOMAIN snapshots' :
          snapshots'[j].meeting = snapshots'[l].meeting /\ j # l
             => snapshots'[j].meeting = NoMeeting
  BY <1>9 DEF SalesInv
<1> QED
  BY <1>2, <1>9, <1>10, <1>11, <1>12 DEF SalesInv

\* A request that is given up, a meeting that moves: no row changes.
LEMMA QuietKeeps ==
    ASSUME SalesInv, UNCHANGED <<period, counts, figures, snapshots>>, approved' \subseteq Meetings,
           req' \in [Users -> Requests] /\ \A v \in Users : Judged(v)'
    PROVE  SalesInv'
  BY DEF SalesInv

LEMMA AbandonKeeps ==
    ASSUME SalesInv, NEW u \in Users, Abandon(u)
    PROVE  SalesInv'
<1>1. /\ End(u) /\ UNCHANGED <<period, counts, figures, snapshots, approved>>
      /\ approved \subseteq Meetings
  BY DEF Abandon, SalesInv
<1>2. req' \in [Users -> Requests] /\ \A v \in Users : Judged(v)'
  BY <1>1, EndKeeps
<1> QED
  BY <1>1, <1>2, QuietKeeps

LEMMA MoveMeetingKeeps ==
    ASSUME SalesInv, NEW mt \in Meetings, MoveMeeting(mt)
    PROVE  SalesInv'
<1>1. approved' \subseteq Meetings /\ UNCHANGED <<period, counts, figures, snapshots, req>>
  BY DEF MoveMeeting, SalesInv
<1>2. req' \in [Users -> Requests] /\ \A v \in Users : Judged(v)'
  BY <1>1 DEF SalesInv, Judged
<1> QED
  BY <1>1, <1>2, QuietKeeps

LEMMA NextKeeps == SalesInv /\ [Next]_vars => SalesInv'
<1>1. ASSUME SalesInv, UNCHANGED vars PROVE SalesInv'
  <2>1. approved' \subseteq Meetings /\ UNCHANGED <<period, counts, figures, snapshots, req>>
    BY <1>1 DEF vars, SalesInv
  <2>2. req' \in [Users -> Requests] /\ \A v \in Users : Judged(v)'
    BY <1>1, <2>1 DEF SalesInv, Judged
  <2> QED
    BY <1>1, <2>1, <2>2, QuietKeeps
<1>2. ASSUME SalesInv, Next PROVE SalesInv'
  BY <1>2, LoadFiguresKeeps, LoadPeriodKeeps, LoadWeeklyKeeps, LoadSnapshotKeeps,
     SaveFiguresKeeps, SavePeriodKeeps, SaveWeeklyKeeps, FreezeKeeps, TakeSnapshotKeeps,
     AbandonKeeps, MoveMeetingKeeps DEF Next
<1> QED
  BY <1>1, <1>2

LEMMA SalesInvariant == Spec => []SalesInv
  BY Starts, NextKeeps, PTL DEF Spec

\* A snapshot that is taken leaves the others alone.
LEMMA SnapshotsStay ==
    ASSUME SalesInv, NEW u \in Users, TakeSnapshot(u)
    PROVE  \A i \in DOMAIN snapshots : snapshots'[i] = snapshots[i]
<1> DEFINE s == [meeting |-> req[u].meeting, frozen |-> req[u].frozen, weeks |-> WeeksFor(req[u].weeks)]
<1>1. UNCHANGED snapshots \/ snapshots' = Append(snapshots, s)
  BY DEF TakeSnapshot
<1> HIDE DEF s
<1>2. snapshots \in Seq(Snapshots)
  BY DEF SalesInv
<1> QED
  BY <1>1, <1>2

-----------------------------------------------------------------------------
(* The theorems.                                                            *)

\* One snapshot per meeting, whoever takes it, and no week twice in one.
THEOREM SnapshotsTyped == Spec => []TypeOK
<1>1. SalesInv => TypeOK
  <2> SUFFICES ASSUME SalesInv PROVE TypeOK
    OBVIOUS
  <2>1. ASSUME NEW i \in DOMAIN snapshots
        PROVE  Cardinality({snapshots[i].weeks[k].week : k \in DOMAIN snapshots[i].weeks})
                  = Len(snapshots[i].weeks)
    <3>1. snapshots[i] \in Snapshots /\ WeeksDistinct(snapshots[i].weeks)
      BY DEF SalesInv, Explained
    <3>2. snapshots[i].weeks \in Seq(WeekRows)
      BY <3>1 DEF Snapshots
    <3> QED
      BY <3>1, <3>2, WeeksCounted
  <2> QED
    BY <2>1 DEF SalesInv, TypeOK
<1> QED
  BY <1>1, SalesInvariant, PTL

\* Every snapshot has as many weeks as some count the period had, and no week
\* beyond the largest.
THEOREM WeeksExplainedAlways == Spec => []WeeksExplained
<1>1. SalesInv => WeeksExplained
  <2> SUFFICES ASSUME SalesInv, NEW i \in DOMAIN snapshots
               PROVE  /\ Len(snapshots[i].weeks) >= Min(counts)
                      /\ \A k \in DOMAIN snapshots[i].weeks :
                            snapshots[i].weeks[k].week \in 1..Max(counts)
    BY DEF WeeksExplained
  <2>1. counts \subseteq Nat /\ counts # {} /\ IsFiniteSet(counts)
    BY WeeksAssumption, FS_Subset DEF SalesInv
  <2>2. Max(counts) \in Nat /\ \A c \in counts : c <= Max(counts)
    BY <2>1, MaxInTable
  <2>3. Min(counts) \in Nat /\ \A c \in counts : Min(counts) <= c
    <3>1. \E m \in counts : \A c \in counts : m <= c
      BY <2>1, LeastNumber
    <3> QED
      BY <2>1, <3>1 DEF Min
  <2>4. Explained(snapshots[i].weeks, counts) /\ snapshots[i].weeks \in Seq(WeekRows)
    <3>1. snapshots[i] \in Snapshots
      BY DEF SalesInv
    <3> QED
      BY <3>1 DEF SalesInv, Snapshots
  <2> DEFINE rows == snapshots[i].weeks
  <2> HIDE DEF rows
  <2>5. Len(rows) >= Min(counts)
    <3>1. PICK c \in counts : Len(rows) >= c
      BY <2>4 DEF rows, Explained
    <3>2. Len(rows) \in Nat
      BY <2>4 DEF rows
    <3> QED
      BY <2>1, <2>3, <3>1, <3>2
  <2>6. ASSUME NEW k \in DOMAIN rows PROVE rows[k].week \in 1..Max(counts)
    <3>1. PICK c \in counts : rows[k].week \in 1..c
      BY <2>4 DEF rows, Explained
    <3> QED
      BY <2>1, <2>2, <3>1
  <2> QED
    BY <2>5, <2>6 DEF rows
<1> QED
  BY <1>1, SalesInvariant, PTL

\* What was read before the closing may still be saved, and nothing else: every
\* other way into the rows of a closed period is the superuser's period form.
THEOREM ClosedMeansClosedAlways == Spec => ClosedMeansClosed
<1> DEFINE Late == \E u \in Users :
             /\ req[u].pc = "judged" /\ req'[u].pc = "idle"
             /\ \/ ~req[u].closed
                \/ u \in Superusers /\ figures' = figures /\ snapshots' = snapshots
           Touched == \/ period' # period \/ figures' # figures
                      \/ \E i \in DOMAIN snapshots : snapshots'[i] # snapshots[i]
<1>1. ASSUME SalesInv, NEW u \in Users, End(u) PROVE req'[u].pc = "idle"
  BY <1>1, NoRequestTyped DEF SalesInv, End, Step
<1>2. ASSUME SalesInv, NEW u \in Users, SaveFigures(u) PROVE Late
  <2>1. req[u].pc = "judged" /\ ~req[u].closed /\ End(u)
    BY <1>2 DEF SaveFigures, SalesInv, Judged
  <2> QED
    BY <1>1, <1>2, <2>1
<1>3. ASSUME SalesInv, NEW u \in Users, SavePeriod(u) PROVE Late
  <2>1. /\ req[u].pc = "judged" /\ (~req[u].closed \/ u \in Superusers) /\ End(u)
        /\ UNCHANGED <<figures, snapshots>>
    BY <1>3 DEF SavePeriod, SalesInv, Judged
  <2> QED
    BY <1>1, <1>3, <2>1
<1>4. ASSUME SalesInv, NEW u \in Users, SaveWeekly(u) PROVE Late
  <2>1. req[u].pc = "judged" /\ ~req[u].closed /\ End(u)
    BY <1>4 DEF SaveWeekly, SalesInv, Judged
  <2> QED
    BY <1>1, <1>4, <2>1
<1>5. ASSUME SalesInv, NEW u \in Users, TakeSnapshot(u) PROVE ~Touched
  BY <1>5, SnapshotsStay DEF TakeSnapshot
<1>6. ASSUME SalesInv, Next, Touched PROVE Late
  <2>1. ASSUME NEW u \in Users, LoadFigures(u) \/ LoadPeriod(u) \/ LoadWeekly(u) \/ LoadSnapshot(u)
                                \/ Freeze(u) \/ Abandon(u)
        PROVE  ~Touched
    BY <2>1 DEF LoadFigures, LoadPeriod, LoadWeekly, LoadSnapshot, Freeze, Abandon
  <2>2. ASSUME NEW mt \in Meetings, MoveMeeting(mt)
        PROVE  ~Touched
    BY <2>2 DEF MoveMeeting
  <2> HIDE DEF Touched, Late
  <2> QED
    BY <1>2, <1>3, <1>4, <1>5, <1>6, <2>1, <2>2 DEF Next
<1>7. SalesInv /\ [Next]_vars =>
         [period.status = "CLOSED"
            /\ \/ period' # period \/ figures' # figures
               \/ \E i \in DOMAIN snapshots : snapshots'[i] # snapshots[i]
          => \E u \in Users :
                /\ req[u].pc = "judged" /\ req'[u].pc = "idle"
                /\ \/ ~req[u].closed
                   \/ u \in Superusers /\ figures' = figures /\ snapshots' = snapshots]_vars
  BY <1>6
<1> QED
  BY <1>7, SalesInvariant, PTL DEF Spec, ClosedMeansClosed

\* The figures and the meeting of a snapshot never change, and its weeks only
\* by a request that read it before its meeting was approved.
THEOREM LockedWeeksKeptAlways == Spec => LockedWeeksKept
<1> DEFINE Kept == \A i \in DOMAIN snapshots :
             /\ snapshots'[i].frozen = snapshots[i].frozen
             /\ snapshots'[i].meeting = snapshots[i].meeting
             /\ snapshots'[i].weeks # snapshots[i].weeks
                   => \E u \in Users :
                        req[u].target = i /\ ~req[u].locked /\ req'[u].pc = "idle"
<1>1. ASSUME SalesInv, NEW u \in Users, SaveWeekly(u) PROVE Kept
  <2>1. /\ req[u].target \in DOMAIN snapshots /\ ~req[u].locked /\ End(u)
        /\ snapshots \in Seq(Snapshots)
    BY <1>1 DEF SaveWeekly, SalesInv, Judged
  <2>2. req'[u].pc = "idle"
    BY <1>1, <2>1, NoRequestTyped DEF SalesInv, End, Step
  <2>3. PICK after : snapshots' = [snapshots EXCEPT ![req[u].target].weeks = after]
    BY <1>1 DEF SaveWeekly
  <2>4. \A i \in DOMAIN snapshots :
           /\ i # req[u].target => snapshots'[i] = snapshots[i]
           /\ i = req[u].target => snapshots'[i] = [snapshots[i] EXCEPT !.weeks = after]
    BY <2>3
  <2>5. \A i \in DOMAIN snapshots :
           /\ [snapshots[i] EXCEPT !.weeks = after].frozen = snapshots[i].frozen
           /\ [snapshots[i] EXCEPT !.weeks = after].meeting = snapshots[i].meeting
    OBVIOUS
  <2> QED
    BY <2>1, <2>2, <2>4, <2>5
<1>2. ASSUME SalesInv, NEW u \in Users, TakeSnapshot(u) PROVE Kept
  BY <1>2, SnapshotsStay
<1>3. ASSUME SalesInv, Next PROVE Kept
  <2>1. ASSUME NEW u \in Users, LoadFigures(u) \/ LoadPeriod(u) \/ LoadWeekly(u) \/ LoadSnapshot(u)
                                \/ SaveFigures(u) \/ SavePeriod(u) \/ Freeze(u) \/ Abandon(u)
        PROVE  UNCHANGED snapshots
    BY <2>1 DEF LoadFigures, LoadPeriod, LoadWeekly, LoadSnapshot, SaveFigures, SavePeriod,
                Freeze, Abandon
  <2>2. ASSUME NEW mt \in Meetings, MoveMeeting(mt)
        PROVE  UNCHANGED snapshots
    BY <2>2 DEF MoveMeeting
  <2>3. UNCHANGED snapshots => Kept
    OBVIOUS
  <2> HIDE DEF Kept
  <2> QED
    BY <1>1, <1>2, <1>3, <2>1, <2>2, <2>3 DEF Next
<1>4. SalesInv /\ [Next]_vars =>
         [\A i \in DOMAIN snapshots :
             /\ snapshots'[i].frozen = snapshots[i].frozen
             /\ snapshots'[i].meeting = snapshots[i].meeting
             /\ snapshots'[i].weeks # snapshots[i].weeks
                   => \E u \in Users :
                        req[u].target = i /\ ~req[u].locked /\ req'[u].pc = "idle"]_vars
  BY <1>3
<1> QED
  BY <1>4, SalesInvariant, PTL DEF Spec, LockedWeeksKept
=============================================================================
