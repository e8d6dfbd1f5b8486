----------------------- MODULE MeetingWorkflow_proofs -----------------------
(***************************************************************************)
(* Proofs about MeetingWorkflow and MeetingFreeze for any users, roles,    *)
(* endpoints, texts, departments and bounds.                               *)
(***************************************************************************)
EXTENDS MeetingFreeze, TableFacts, TLAPS

\* The blank copy of an idle request is a row, and so is a new meeting.
LEMMA RowsTyped ==
    /\ Walked[Len(Walked)] \in Drafting
    /\ BlankRow \in Rows
    /\ \A b \in BOOLEAN, n \in Notes : NewRow(b, n) \in Rows
<1>1. Walked[Len(Walked)] \in Drafting
  BY WalkedAssumption
<1>2. Walked[Len(Walked)] \in Statuses
  BY <1>1 DEF Drafting, Statuses
<1>3. (CHOOSE n \in Notes : TRUE) \in Notes
  BY NotesAssumption
<1> QED
  BY <1>1, <1>2, <1>3 DEF BlankRow, NewRow, Rows

LEMMA InitTyped == Init => TypeOK
<1> SUFFICES ASSUME Init PROVE TypeOK
  OBVIOUS
<1>1. meeting \in Rows
  BY RowsTyped DEF Init
<1>2. history \in Seq(HistoryRows)
  <2>1. Len(Walked) - 1 \in Nat
    BY WalkedAssumption
  <2>2. \A i \in 1..Len(Walked) - 1 :
           [from |-> Walked[i], to |-> Walked[i + 1], by |-> NoUser, reason |-> FALSE]
             \in HistoryRows
    BY WalkedAssumption DEF HistoryRows, Drafting, Statuses
  <2> QED
    BY <2>1, <2>2 DEF Init
<1>3. NoCall \in Calls
  BY DEF NoCall, Calls, AllOps, DirectOps, Statuses
<1> QED
  BY <1>1, <1>2, <1>3, RowsTyped DEF Init, TypeOK, Phases, Statuses

\* The answers leave the locals of every request typed.
LEMMA EndTyped ==
    ASSUME TypeOK, NEW u \in Users, End(u)
    PROVE  /\ pc' \in [Users -> Phases] /\ call' \in [Users -> Calls]
           /\ checked' \in [Users -> Statuses] /\ copy' \in [Users -> Rows]
<1>1. NoCall \in Calls
  BY DEF NoCall, Calls, AllOps, DirectOps, Statuses
<1> QED
  BY <1>1, RowsTyped DEF End, TypeOK, Phases, Statuses

LEMMA StampedTyped ==
    \A row \in Rows, t \in Statuses : Stamped(row, t) \in Rows /\ Stamped(row, t).status = t
<1> SUFFICES ASSUME NEW row \in Rows, NEW t \in Statuses
             PROVE  Stamped(row, t) \in Rows /\ Stamped(row, t).status = t
  OBVIOUS
<1> QED
  BY DEF Stamped, Rows

\* Every action leaves every variable in its type.
LEMMA StepTyped == TypeOK /\ [Next]_vars => TypeOK'
<1> SUFFICES ASSUME TypeOK, [Next]_vars PROVE TypeOK'
  OBVIOUS
<1> USE DEF TypeOK
<1>1. ASSUME NEW u \in Users, Load(u) PROVE TypeOK'
  <2>1. PICK op \in Ops, target \in Statuses, reason \in BOOLEAN :
           call' = [call EXCEPT ![u] = [op |-> op, target |-> target, reason |-> reason]]
    BY <1>1 DEF Load
  <2>2. [op |-> op, target |-> target, reason |-> reason] \in Calls
    BY OpsAssumption DEF Calls
  <2> QED
    BY <1>1, <2>1, <2>2 DEF Load, db, Phases
<1>2. ASSUME NEW u \in Users, Validate(u) PROVE TypeOK'
  BY <1>2 DEF Validate, db, Phases, Rows
<1>3. ASSUME NEW u \in Users, Refuse(u) \/ Conflict(u) \/ RefuseEdit(u) PROVE TypeOK'
  <2>1. End(u) /\ UNCHANGED <<db, lock, pending>>
    BY <1>3 DEF Refuse, Conflict, RefuseEdit
  <2> QED
    BY <2>1, EndTyped DEF db
<1>4. ASSUME NEW u \in Users, Acquire(u) PROVE TypeOK'
  BY <1>4 DEF Acquire, db, Phases
<1>5. ASSUME NEW u \in Users, TakeSnapshot(u) PROVE TypeOK'
  <2>1. NextVersion \in Nat
    <3>1. snapshots # <<>> => snapshots[Len(snapshots)] \in SnapshotRows
      OBVIOUS
    <3> QED
      BY <3>1 DEF NextVersion, SnapshotRows
  <2>2. call[u].target \in Statuses /\ meeting.notes \in Notes
    BY DEF Calls, Rows
  <2>3. pending' \in Seq(SnapshotRows)
    BY <1>5, <2>1, <2>2 DEF TakeSnapshot, SnapshotRows, Triggers
  <2> QED
    BY <1>5, <2>3 DEF TakeSnapshot, db, Phases
<1>6. ASSUME NEW u \in Users, Commit(u) PROVE TypeOK'
  <2>1. call[u].target \in Statuses /\ call[u].reason \in BOOLEAN /\ checked[u] \in Statuses
    BY DEF Calls
  <2>2. meeting' \in Rows
    BY <1>6, <2>1, StampedTyped DEF Commit
  <2>3. history' \in Seq(HistoryRows)
    BY <1>6, <2>1 DEF Commit, HistoryRows
  <2>4. snapshots' \in Seq(SnapshotRows)
    BY <1>6 DEF Commit
  <2>5. subs' \in [Departments -> SubmissionStates \cup {"NONE"}]
    BY <1>6 DEF Commit, Swept, SubmissionStates
  <2> QED
    BY <1>6, <2>2, <2>3, <2>4, <2>5, EndTyped DEF Commit
<1>7. ASSUME NEW u \in Users, Rollback(u) PROVE TypeOK'
  BY <1>7, EndTyped DEF Rollback, db
<1>8. ASSUME NEW u \in Users, Reload(u) PROVE TypeOK'
  BY <1>8 DEF Reload, db, Phases
<1>9. ASSUME NEW u \in Users, Save(u) PROVE TypeOK'
  <2>1. \A text \in Notes, flag \in BOOLEAN :
           [copy[u] EXCEPT !.notes = text, !.is_locked = flag] \in Rows
    BY DEF Rows
  <2>2. meeting' \in Rows
    BY <1>9, <2>1 DEF Save
  <2> QED
    BY <1>9, <2>2, EndTyped DEF Save
<1>10. ASSUME NEW u \in Users, SaveAgenda(u) PROVE TypeOK'
  BY <1>10, EndTyped DEF SaveAgenda
<1>11. ASSUME NEW u \in Users, Upsert(u) PROVE TypeOK'
  <2>1. subs' \in [Departments -> SubmissionStates \cup {"NONE"}]
    BY <1>11 DEF Upsert
  <2> QED
    BY <1>11, <2>1, EndTyped DEF Upsert
<1>12. CASE UNCHANGED vars
  BY <1>12 DEF vars
<1> QED
  BY <1>1, <1>2, <1>3, <1>4, <1>5, <1>6, <1>7, <1>8, <1>9, <1>10, <1>11, <1>12 DEF Next, Work

\* Type correctness of the workflow.
THEOREM TypeCorrect == Spec => []TypeOK
  BY InitTyped, StepTyped, PTL DEF Spec

-----------------------------------------------------------------------------
(* What the phase of a request says about what it asks for.                *)

\* What Load established: the endpoint is served, and the user holds the role
\* his target calls for.
Entitled(u) ==
    /\ call[u].op \in Ops
    /\ call[u].op \in ServiceOps =>
          /\ call[u].target \in Targets[call[u].op]
          /\ call[u].target = "RETURNED" => IsReviewer(RolesOf[u])
          /\ call[u].target = "ARCHIVED" => IsAdmin(RolesOf[u])
          /\ call[u].target # "FOR_REVIEW" =>
                IsAuthor(RolesOf[u]) \/ "OWNER" \in RolesOf[u]

\* What Validate established about the status it read.
Validated(u) ==
    /\ call[u].op \in ServiceOps
    /\ call[u].target \in Moves(checked[u])
    /\ call[u].target = "RETURNED" => call[u].reason

CallsVetted ==
    \A u \in Users :
        /\ pc[u] # "idle" => Entitled(u)
        /\ pc[u] \in {"checked", "locked", "snapped"} => Validated(u)
        /\ pc[u] = "snapped" => call[u].op \in {"approve", "publish"}
        /\ pc[u] = "editing" => call[u].op \in FormOps

\* Whatever row a view judged, the requests it lets through are entitled.
LEMMA AdmittedEntitled ==
    ASSUME NEW R, NEW row, NEW op \in ServiceOps, NEW target \in Targets[op],
           NEW reason \in BOOLEAN, Admitted(op, R, row, target, reason)
    PROVE  /\ target = "RETURNED" => IsReviewer(R)
           /\ target = "ARCHIVED" => IsAdmin(R)
           /\ target # "FOR_REVIEW" => IsAuthor(R) \/ "OWNER" \in R
<1> USE DEF HoldsAny, IsAdmin, IsReviewer, IsAuthor
<1>1. IsAdmin(R) => IsReviewer(R) /\ IsAuthor(R)
  OBVIOUS
<1>2. IsReviewer(R) => IsAuthor(R)
  OBVIOUS
<1>3. CASE op = "transition"
  <2>1. CanTransition(R, row, target) /\ TransitionFormValid(R, row, target, reason)
    BY <1>3 DEF Admitted
  <2>2. CanEdit(R, row) => IsAuthor(R) \/ "OWNER" \in R
    BY DEF CanEdit
  <2> QED
    BY <1>1, <2>1, <2>2 DEF CanTransition, TransitionFormValid
<1>4. CASE op \in {"archive", "reopen"}
  <2>1. IsAdmin(R)
    BY <1>4 DEF Admitted
  <2> QED
    BY <1>1, <2>1
<1>5. CASE op \in {"submit", "resubmit"}
  BY <1>5 DEF Targets
<1>6. CASE op \in {"return", "close", "approve", "publish"}
  <2>1. IsReviewer(R)
    BY <1>6 DEF Admitted
  <2>2. target # "ARCHIVED"
    BY <1>6 DEF Targets
  <2> QED
    BY <1>2, <2>1, <2>2
<1> QED
  BY <1>3, <1>4, <1>5, <1>6 DEF ServiceOps

\* Every move to RETURNED is one that requires a reason.
LEMMA ReturnsNeedReason ==
    \A s \in Statuses : "RETURNED" \in Moves(s) => <<s, "RETURNED">> \in ReasonEdges
  BY DEF Statuses, Moves, ValidTransitions, ReasonEdges

\* A request that goes on to another phase or ends leaves the others alone.
LEMMA CallsVettedStep == TypeOK /\ CallsVetted /\ [Next]_vars => CallsVetted'
<1> SUFFICES ASSUME TypeOK, CallsVetted, [Next]_vars PROVE CallsVetted'
  OBVIOUS
<1> USE DEF CallsVetted, Entitled, Validated
<1>1. ASSUME NEW u \in Users, Load(u) PROVE CallsVetted'
  <2>1. PICK op \in Ops, target \in Statuses, reason \in BOOLEAN :
           /\ op \in ServiceOps => target \in Targets[op]
           /\ Admitted(op, RolesOf[u], meeting, target, reason)
           /\ call' = [call EXCEPT ![u] = [op |-> op, target |-> target, reason |-> reason]]
    BY <1>1 DEF Load
  <2>2. call'[u].op = op /\ call'[u].target = target
    BY <2>1 DEF TypeOK
  <2>3. Entitled(u)'
    BY <2>1, <2>2, AdmittedEntitled
  <2>4. pc' = [pc EXCEPT ![u] = "loaded"] /\ checked' = checked
    BY <1>1 DEF Load
  <2>5. \A v \in Users \ {u} : pc'[v] = pc[v] /\ call'[v] = call[v] /\ checked'[v] = checked[v]
    BY <2>1, <2>4 DEF TypeOK
  <2>6. pc'[u] = "loaded"
    BY <2>4 DEF TypeOK
  <2> QED
    BY <2>3, <2>5, <2>6
<1>2. ASSUME NEW u \in Users, Validate(u) PROVE CallsVetted'
  <2>1. /\ pc' = [pc EXCEPT ![u] = "checked"] /\ call' = call
        /\ checked' = [checked EXCEPT ![u] = meeting.status]
        /\ pc[u] = "loaded" /\ call[u].op \in ServiceOps
        /\ TransitionAllowed(call[u].op, RolesOf[u], meeting.status, call[u].target, call[u].reason)
    BY <1>2 DEF Validate
  <2>2. meeting.status \in Statuses
    BY DEF TypeOK, Rows
  <2>3. Validated(u)'
    BY <2>1, <2>2, ReturnsNeedReason DEF TypeOK, TransitionAllowed
  <2>4. \A v \in Users \ {u} : pc'[v] = pc[v] /\ call'[v] = call[v] /\ checked'[v] = checked[v]
    BY <2>1 DEF TypeOK
  <2>5. pc'[u] = "checked" /\ call'[u] = call[u]
    BY <2>1 DEF TypeOK
  <2> QED
    BY <2>1, <2>3, <2>4, <2>5
<1>3. ASSUME NEW u \in Users, End(u) PROVE CallsVetted'
  <2>1. \A v \in Users \ {u} : pc'[v] = pc[v] /\ call'[v] = call[v] /\ checked'[v] = checked[v]
    BY <1>3 DEF End, TypeOK
  <2>2. pc'[u] = "idle"
    BY <1>3 DEF End, TypeOK
  <2> QED
    BY <2>1, <2>2
<1>4. ASSUME NEW u \in Users, Acquire(u) \/ TakeSnapshot(u) PROVE CallsVetted'
  <2>1. /\ call' = call /\ checked' = checked /\ pc[u] \in {"checked", "locked"}
        /\ TakeSnapshot(u) => call[u].op \in {"approve", "publish"}
    BY <1>4 DEF Acquire, TakeSnapshot, WantsSnapshot
  <2>2. /\ pc'[u] \in {"locked", "snapped"} /\ \A v \in Users \ {u} : pc'[v] = pc[v]
        /\ pc'[u] = "snapped" => TakeSnapshot(u)
    BY <1>4 DEF Acquire, TakeSnapshot, TypeOK
  <2> QED
    BY <2>1, <2>2
<1>5. ASSUME NEW u \in Users, Reload(u) PROVE CallsVetted'
  <2>1. call' = call /\ checked' = checked /\ pc[u] = "loaded" /\ call[u].op \in FormOps
    BY <1>5 DEF Reload
  <2>2. pc'[u] = "editing" /\ \A v \in Users \ {u} : pc'[v] = pc[v]
    BY <1>5 DEF Reload, TypeOK
  <2> QED
    BY <2>1, <2>2
<1>6. CASE UNCHANGED vars
  BY <1>6 DEF vars
<1> QED
  BY <1>1, <1>2, <1>3, <1>4, <1>5, <1>6
     DEF Next, Work, Refuse, Conflict, Commit, Rollback, RefuseEdit, Save, SaveAgenda, Upsert

LEMMA VettedAlways == Spec => []CallsVetted
<1>1. Init => CallsVetted
  BY DEF Init, CallsVetted
<1> QED
  BY <1>1, TypeCorrect, CallsVettedStep, PTL DEF Spec

-----------------------------------------------------------------------------
(* The row lock.                                                           *)

\* A request that does not hold the lock may change phase without disturbing
\* the protocol, as long as its new phase does not hold the lock either.
LEMMA LockUndisturbed ==
    ASSUME TypeOK, LockProtocol, NEW u \in Users, lock # u,
           \/ lock = NoUser
           \/ meeting' = meeting,
           lock' = lock, pending' = pending,
           pc' \in [Users -> Phases], pc'[u] \notin {"locked", "snapped"},
           \A v \in Users \ {u} :
               pc'[v] = pc[v] /\ call'[v] = call[v] /\ checked'[v] = checked[v]
    PROVE  LockProtocol'
<1>1. \A v \in Users : pc'[v] \in {"locked", "snapped"} <=> lock' = v
  BY DEF LockProtocol
<1>2. \A v \in Users : lock' = v => /\ checked'[v] = meeting'.status
                                    /\ call'[v].target \in Moves(meeting'.status)
  BY UsersAssumption DEF LockProtocol
<1>3. pending' # <<>> <=> \E v \in Users : lock' = v /\ pc'[v] = "snapped"
  BY DEF LockProtocol
<1> QED
  BY <1>1, <1>2, <1>3 DEF LockProtocol

\* What End does to the locals, in one place.
LEMMA EndLocals ==
    ASSUME TypeOK, NEW u \in Users, End(u)
    PROVE  /\ pc' \in [Users -> Phases] /\ pc'[u] = "idle"
           /\ \A v \in Users \ {u} : /\ pc'[v] = pc[v] /\ call'[v] = call[v]
                                     /\ checked'[v] = checked[v] /\ copy'[v] = copy[v]
  BY DEF End, TypeOK, Phases

LEMMA LockStep == TypeOK /\ CallsVetted /\ LockProtocol /\ [Next]_vars => LockProtocol'
<1> SUFFICES ASSUME TypeOK, CallsVetted, LockProtocol, [Next]_vars PROVE LockProtocol'
  OBVIOUS
<1>1. ASSUME NEW u \in Users, Load(u) PROVE LockProtocol'
  <2>1. lock # u
    BY <1>1 DEF Load, LockProtocol
  <2>2. /\ meeting' = meeting /\ lock' = lock /\ pending' = pending
        /\ pc' \in [Users -> Phases] /\ pc'[u] = "loaded"
        /\ \A v \in Users \ {u} : pc'[v] = pc[v] /\ call'[v] = call[v] /\ checked'[v] = checked[v]
    BY <1>1 DEF Load, db, TypeOK, Phases
  <2> QED
    BY <2>1, <2>2, LockUndisturbed
<1>2. ASSUME NEW u \in Users, Validate(u) \/ Reload(u) PROVE LockProtocol'
  <2>1. lock # u
    BY <1>2 DEF Validate, Reload, LockProtocol
  <2>2. /\ meeting' = meeting /\ lock' = lock /\ pending' = pending
        /\ pc' \in [Users -> Phases] /\ pc'[u] \in {"checked", "editing"}
        /\ \A v \in Users \ {u} : pc'[v] = pc[v] /\ call'[v] = call[v] /\ checked'[v] = checked[v]
    BY <1>2 DEF Validate, Reload, db, TypeOK, Phases
  <2> QED
    BY <2>1, <2>2, LockUndisturbed
<1>3. ASSUME NEW u \in Users, Refuse(u) \/ Conflict(u) \/ RefuseEdit(u) PROVE LockProtocol'
  <2>1. lock # u
    BY <1>3 DEF Refuse, Conflict, RefuseEdit, LockProtocol
  <2>2. End(u) /\ meeting' = meeting /\ lock' = lock /\ pending' = pending
    BY <1>3 DEF Refuse, Conflict, RefuseEdit, db
  <2> QED
    BY <2>1, <2>2, EndLocals, LockUndisturbed
<1>4. ASSUME NEW u \in Users, Acquire(u) PROVE LockProtocol'
  <2>1. /\ lock = NoUser /\ lock' = u /\ meeting' = meeting /\ pending' = pending
        /\ call' = call /\ checked' = checked /\ meeting.status = checked[u]
    BY <1>4 DEF Acquire, db
  <2>2. pc'[u] = "locked" /\ \A v \in Users \ {u} : pc'[v] = pc[v]
    BY <1>4 DEF Acquire, TypeOK
  <2>3. call[u].target \in Moves(checked[u])
    BY <1>4 DEF Acquire, CallsVetted, Validated
  <2>4. \A v \in Users : pc[v] \notin {"locked", "snapped"}
    BY <2>1, UsersAssumption DEF LockProtocol
  <2>5. pending = <<>>
    BY <2>1, UsersAssumption DEF LockProtocol
  <2> QED
    BY <2>1, <2>2, <2>3, <2>4, <2>5 DEF LockProtocol
<1>5. ASSUME NEW u \in Users, TakeSnapshot(u) PROVE LockProtocol'
  <2>1. /\ lock' = lock /\ meeting' = meeting /\ call' = call /\ checked' = checked
        /\ pc[u] = "locked" /\ pending' # <<>>
    BY <1>5 DEF TakeSnapshot, db
  <2>2. pc'[u] = "snapped" /\ \A v \in Users \ {u} : pc'[v] = pc[v]
    BY <1>5 DEF TakeSnapshot, TypeOK
  <2>3. lock = u
    BY <2>1 DEF LockProtocol
  <2> QED
    BY <2>1, <2>2, <2>3 DEF LockProtocol
<1>6. ASSUME NEW u \in Users, Commit(u) PROVE LockProtocol'
  <2>1. lock = u /\ lock' = NoUser /\ pending' = <<>> /\ End(u)
    BY <1>6 DEF Commit, LockProtocol
  <2>2. \A v \in Users : pc'[v] \notin {"locked", "snapped"}
    BY <2>1, EndLocals DEF LockProtocol
  <2> QED
    BY <2>1, <2>2, UsersAssumption DEF LockProtocol
<1>7. ASSUME NEW u \in Users, Rollback(u) PROVE LockProtocol'
  <2>1. End(u) /\ meeting' = meeting
    BY <1>7 DEF Rollback, db
  <2>2. CASE lock = u
    <3>1. lock' = NoUser /\ pending' = <<>>
      BY <1>7, <2>2 DEF Rollback
    <3>2. \A v \in Users : pc'[v] \notin {"locked", "snapped"}
      BY <2>1, <2>2, EndLocals DEF LockProtocol
    <3> QED
      BY <3>1, <3>2, UsersAssumption DEF LockProtocol
  <2>3. CASE lock # u
    <3>1. lock' = lock /\ pending' = pending
      BY <1>7, <2>3 DEF Rollback
    <3> QED
      BY <2>1, <2>3, <3>1, EndLocals, LockUndisturbed
  <2> QED
    BY <2>2, <2>3
<1>8. ASSUME NEW u \in Users, Save(u) PROVE LockProtocol'
  <2>1. lock = NoUser /\ lock' = lock /\ pending' = pending /\ End(u)
    BY <1>8 DEF Save
  <2> QED
    BY <2>1, UsersAssumption, EndLocals, LockUndisturbed
<1>9. ASSUME NEW u \in Users, SaveAgenda(u) \/ Upsert(u) PROVE LockProtocol'
  <2>1. lock # u
    BY <1>9 DEF SaveAgenda, Upsert, LockProtocol
  <2>2. End(u) /\ meeting' = meeting /\ lock' = lock /\ pending' = pending
    BY <1>9 DEF SaveAgenda, Upsert
  <2> QED
    BY <2>1, <2>2, EndLocals, LockUndisturbed
<1>10. CASE UNCHANGED vars
  BY <1>10 DEF vars, LockProtocol
<1> QED
  BY <1>1, <1>2, <1>3, <1>4, <1>5, <1>6, <1>7, <1>8, <1>9, <1>10 DEF Next, Work

\* What a request validated still holds when it commits, whatever ran between
\* its check and its lock, stale form saves included.
THEOREM LockSafe == Spec => []LockProtocol
<1>1. Init => LockProtocol
  BY UsersAssumption DEF Init, LockProtocol
<1> QED
  BY <1>1, TypeCorrect, VettedAlways, LockStep, PTL DEF Spec

-----------------------------------------------------------------------------
(* The history.                                                            *)

\* Only a commit writes to the history or to the snapshots.
LEMMA OnlyCommitWrites ==
    [Next]_vars => \/ UNCHANGED <<history, snapshots>>
                   \/ \E u \in Users : Commit(u)
<1> SUFFICES ASSUME [Next]_vars, ~(\E u \in Users : Commit(u))
             PROVE  UNCHANGED <<history, snapshots>>
  OBVIOUS
<1>1. ASSUME NEW u \in Users, Load(u) \/ Rollback(u) PROVE UNCHANGED <<history, snapshots>>
  BY <1>1 DEF Load, Rollback, db
<1>2. ASSUME NEW u \in Users, Work(u) PROVE UNCHANGED <<history, snapshots>>
  BY <1>2 DEF Work, Validate, Refuse, Acquire, Conflict, TakeSnapshot, Reload, RefuseEdit,
              Save, SaveAgenda, Upsert, db
<1>3. CASE UNCHANGED vars
  BY <1>3 DEF vars
<1> QED
  BY <1>1, <1>2, <1>3 DEF Next

\* The row a commit appends.
NewEntry(u) == [from |-> checked[u], to |-> call[u].target, by |-> u, reason |-> call[u].reason]

LEMMA CommitAppends ==
    ASSUME TypeOK, CallsVetted, LockProtocol, NEW u \in Users, Commit(u)
    PROVE  /\ lock = u /\ history' = Append(history, NewEntry(u))
           /\ NewEntry(u) \in HistoryRows
           /\ NewEntry(u).from = meeting.status
           /\ meeting' = Stamped(meeting, NewEntry(u).to) /\ meeting'.status = NewEntry(u).to
           /\ NewEntry(u).to \in Moves(NewEntry(u).from)
<1>1. lock = u
  BY DEF Commit, LockProtocol
<1>2. /\ history' = Append(history, NewEntry(u))
      /\ meeting' = Stamped(meeting, NewEntry(u).to)
  BY DEF Commit, NewEntry
<1>3. NewEntry(u) \in HistoryRows
  BY DEF TypeOK, NewEntry, HistoryRows, Calls
<1>4. NewEntry(u).from = meeting.status /\ NewEntry(u).to \in Moves(NewEntry(u).from)
  BY <1>1 DEF LockProtocol, NewEntry
<1>5. meeting'.status = NewEntry(u).to
  BY <1>2, StampedTyped DEF TypeOK, NewEntry, Calls
<1> QED
  BY <1>1, <1>2, <1>3, <1>4, <1>5

\* LegalHistory, one row at a time.
LegalEntry(row) ==
    /\ row.to \in Moves(row.from)
    /\ row.to = "RETURNED" => row.reason /\ row.by \in Users /\ IsReviewer(RolesOf[row.by])
    /\ row.to = "ARCHIVED" => row.by \in Users /\ IsAdmin(RolesOf[row.by])
    /\ row.by \in Users /\ row.to # "FOR_REVIEW" =>
          IsAuthor(RolesOf[row.by]) \/ "OWNER" \in RolesOf[row.by]

LEMMA InitLegal == Init => LegalHistory
<1> SUFFICES ASSUME Init, NEW i \in DOMAIN history PROVE LegalEntry(history[i])
  BY DEF LegalHistory, LegalEntry
<1>1. i \in 1..Len(Walked) - 1
  BY WalkedAssumption DEF Init
<1>2. history[i] = [from |-> Walked[i], to |-> Walked[i + 1], by |-> NoUser, reason |-> FALSE]
  BY <1>1 DEF Init
<1>3. Walked[i + 1] \in Moves(Walked[i])
  BY <1>1, WalkedAssumption
<1>4. Walked[i + 1] \in Drafting
  BY <1>1, WalkedAssumption
<1>5. Walked[i + 1] \notin {"RETURNED", "ARCHIVED"}
  BY <1>4 DEF Drafting
<1> QED
  BY <1>2, <1>3, <1>5, UsersAssumption DEF LegalEntry

LEMMA LegalStep ==
    TypeOK /\ CallsVetted /\ LockProtocol /\ LegalHistory /\ [Next]_vars => LegalHistory'
<1> SUFFICES ASSUME TypeOK, CallsVetted, LockProtocol, LegalHistory, [Next]_vars
             PROVE  LegalHistory'
  OBVIOUS
<1>1. CASE UNCHANGED <<history, snapshots>>
  BY <1>1 DEF LegalHistory
<1>2. ASSUME NEW u \in Users, Commit(u) PROVE LegalHistory'
  <2>1. history' = Append(history, NewEntry(u)) /\ NewEntry(u).to \in Moves(NewEntry(u).from)
    BY <1>2, CommitAppends
  <2>2. pc[u] \in {"locked", "snapped"}
    BY <1>2 DEF Commit
  <2>3. Entitled(u) /\ Validated(u)
    BY <2>2 DEF CallsVetted
  <2>4. LegalEntry(NewEntry(u))
    BY <2>1, <2>3 DEF Entitled, Validated, LegalEntry, NewEntry
  <2>5. \A i \in DOMAIN history' : \/ history'[i] = NewEntry(u)
                                   \/ i \in DOMAIN history /\ history'[i] = history[i]
    <3>1. NewEntry(u) \in HistoryRows /\ history \in Seq(HistoryRows)
      BY <1>2, CommitAppends DEF TypeOK
    <3> QED
      BY <2>1, <3>1, AppendRows
  <2>6. ASSUME NEW i \in DOMAIN history' PROVE LegalEntry(history'[i])
    <3>1. CASE history'[i] = NewEntry(u)
      BY <3>1, <2>4
    <3>2. CASE i \in DOMAIN history /\ history'[i] = history[i]
      <4>1. LegalEntry(history[i])
        BY <3>2 DEF LegalHistory, LegalEntry
      <4> QED
        BY <3>2, <4>1
    <3> QED
      BY <2>5, <3>1, <3>2
  <2> QED
    BY <2>6 DEF LegalHistory, LegalEntry
<1> QED
  BY <1>1, <1>2, OnlyCommitWrites

\* Every recorded move is a legal one made by someone entitled to it, for any
\* mix of users, endpoints and stale copies.
THEOREM HistoryIsLegal == Spec => []LegalHistory
  BY InitLegal, LegalStep, TypeCorrect, VettedAlways, LockSafe, PTL DEF Spec

-----------------------------------------------------------------------------
(* Versions.                                                               *)

VersionsInv == SnapshotVersions /\ Len(pending) <= 1

\* A commit inserts the one snapshot in flight, or none.
LEMMA CommitSnapshots ==
    ASSUME TypeOK, VersionsInv, NEW u \in Users, Commit(u)
    PROVE  \/ pending = <<>> /\ snapshots' = snapshots
           \/ /\ pending # <<>> /\ pending[1] \in SnapshotRows
              /\ pending[1].version = Len(snapshots) + 1
              /\ snapshots' = Append(snapshots, pending[1])
<1>1. /\ snapshots \in Seq(SnapshotRows) /\ pending \in Seq(SnapshotRows)
      /\ snapshots' = snapshots \o pending
  BY DEF TypeOK, Commit
<1>2. CASE pending = <<>>
  BY <1>1, <1>2, ConcatEmptySeq
<1>3. CASE pending # <<>>
  <2>1. Len(pending) \in Nat /\ Len(pending) # 0
    BY <1>1, <1>3, EmptySeq
  <2>2. Len(pending) = 1
    <3>1. Len(pending) <= 1
      BY DEF VersionsInv
    <3> QED
      BY <2>1, <3>1, SmallNaturals
  <2>3. pending[1] \in SnapshotRows
    BY <1>1, <2>2, ElementOfSeq
  <2>4. pending = <<pending[1]>>
    <3>1. <<pending[1]>> \in Seq(SnapshotRows) /\ Len(<<pending[1]>>) = 1
      BY <2>3
    <3>2. \A i \in 1..1 : pending[i] = <<pending[1]>>[i]
      OBVIOUS
    <3> QED
      BY <1>1, <2>2, <3>1, <3>2, SeqEqual
  <2>5. snapshots' = Append(snapshots, pending[1])
    BY <1>1, <2>3, <2>4, AppendIsConcat
  <2> QED
    BY <1>3, <2>3, <2>5 DEF VersionsInv, SnapshotVersions
<1> QED
  BY <1>2, <1>3

LEMMA VersionsStep ==
    TypeOK /\ LockProtocol /\ VersionsInv /\ [Next]_vars => VersionsInv'
<1> SUFFICES ASSUME TypeOK, LockProtocol, VersionsInv, [Next]_vars PROVE VersionsInv'
  OBVIOUS
<1> USE DEF VersionsInv, SnapshotVersions
<1>1. /\ snapshots \in Seq(SnapshotRows) /\ pending \in Seq(SnapshotRows)
      /\ Len(snapshots) \in Nat /\ Len(pending) \in Nat
  BY DEF TypeOK
<1>2. ASSUME NEW u \in Users, TakeSnapshot(u) PROVE VersionsInv'
  <2>1. NextVersion = Len(snapshots) + 1
    BY <1>1 DEF NextVersion
  <2>2. snapshots' = snapshots /\ pending'[1].version = NextVersion /\ Len(pending') = 1
    BY <1>2 DEF TakeSnapshot, db
  <2> QED
    BY <2>1, <2>2
<1>3. ASSUME NEW u \in Users, Commit(u) PROVE VersionsInv'
  <2>1. pending' = <<>>
    BY <1>3 DEF Commit
  <2>2. CASE pending = <<>> /\ snapshots' = snapshots
    BY <1>1, <2>1, <2>2
  <2>3. CASE /\ pending # <<>> /\ pending[1] \in SnapshotRows
             /\ pending[1].version = Len(snapshots) + 1
             /\ snapshots' = Append(snapshots, pending[1])
    <3>1. \A i \in DOMAIN snapshots' : \/ i = Len(snapshots) + 1 /\ snapshots'[i] = pending[1]
                                       \/ i \in DOMAIN snapshots /\ snapshots'[i] = snapshots[i]
      BY <1>1, <2>3, AppendRows
    <3> QED
      BY <2>1, <2>3, <3>1
  <2> QED
    BY <1>3, <2>2, <2>3, CommitSnapshots
<1>4. ASSUME NEW u \in Users, Rollback(u) PROVE VersionsInv'
  BY <1>1, <1>4 DEF Rollback, db
<1>5. CASE UNCHANGED <<snapshots, pending>>
  BY <1>5
<1>6. ASSUME NEW u \in Users, Load(u) \/ (Work(u) /\ ~TakeSnapshot(u) /\ ~Commit(u))
      PROVE  UNCHANGED <<snapshots, pending>>
  BY <1>6 DEF Load, Work, Validate, Refuse, Acquire, Conflict, Reload, RefuseEdit,
              Save, SaveAgenda, Upsert, db
<1>7. CASE UNCHANGED vars
  BY <1>5, <1>7 DEF vars
<1> QED
  BY <1>2, <1>3, <1>4, <1>5, <1>6, <1>7 DEF Next

\* The strengthened version invariant holds always.
LEMMA VersionsAlways == Spec => []VersionsInv
<1>1. Init => VersionsInv
  BY DEF Init, VersionsInv, SnapshotVersions
<1> QED
  BY <1>1, VersionsStep, TypeCorrect, LockSafe, PTL DEF Spec


\* Two approvals or publications never compute the same version: the unique
\* constraint on (meeting, version) is a second guard that is never needed.
THEOREM VersionsCount == Spec => []SnapshotVersions
<1>1. VersionsInv => SnapshotVersions
  BY DEF VersionsInv
<1> QED
  BY <1>1, VersionsAlways, PTL

-----------------------------------------------------------------------------
(* Stale copies.                                                           *)

RowExplained(row) ==
    /\ Reached(row.status)
    /\ row.published => Reached("PUBLISHED")
    /\ row.closed => Reached("CLOSED")
    /\ row.archived => Reached("ARCHIVED")

LEMMA ExplainedRows ==
    StatusExplained <=> /\ RowExplained(meeting)
                        /\ \A u \in Users : pc[u] = "editing" => RowExplained(copy[u])
  BY DEF StatusExplained, RowExplained

\* A status reached stays reached.
LEMMA ReachedGrows ==
    ASSUME TypeOK, CallsVetted, LockProtocol, [Next]_vars, NEW s, Reached(s)
    PROVE  Reached(s)'
<1>1. CASE UNCHANGED <<history, snapshots>>
  BY <1>1 DEF Reached
<1>2. ASSUME NEW u \in Users, Commit(u) PROVE Reached(s)'
  <2>1. /\ history' = Append(history, NewEntry(u)) /\ NewEntry(u) \in HistoryRows
        /\ history \in Seq(HistoryRows)
    BY <1>2, CommitAppends DEF TypeOK
  <2>2. \A i \in DOMAIN history : i \in DOMAIN history' /\ history'[i] = history[i]
    BY <2>1, AppendRows
  <2> QED
    BY <2>2 DEF Reached
<1> QED
  BY <1>1, <1>2, OnlyCommitWrites

LEMMA ExplainedInit == Init => StatusExplained
<1> SUFFICES ASSUME Init PROVE StatusExplained
  OBVIOUS
<1>1. PICK b \in BOOLEAN, n \in Notes : meeting = NewRow(b, n)
  BY DEF Init
<1>2. \A i \in 1..Len(Walked) - 1 : i \in DOMAIN history /\ history[i].to = Walked[i + 1]
  <2> SUFFICES ASSUME NEW i \in 1..Len(Walked) - 1
               PROVE  i \in DOMAIN history /\ history[i].to = Walked[i + 1]
    OBVIOUS
  <2> QED
    BY DEF Init
<1>4. Reached(Walked[Len(Walked)])
  <2>1. CASE Len(Walked) = 1
    BY <2>1, WalkedAssumption DEF Reached
  <2>2. CASE Len(Walked) # 1
    <3>1. Len(Walked) \in Nat /\ Len(Walked) # 0
      BY WalkedAssumption
    <3>2. Len(Walked) - 1 \in 1..Len(Walked) - 1 /\ Len(Walked) - 1 + 1 = Len(Walked)
      BY <2>2, <3>1, SmallNaturals
    <3> QED
      BY <1>2, <3>2 DEF Reached
  <2> QED
    BY <2>1, <2>2
<1>3. RowExplained(meeting)
  BY <1>1, <1>4 DEF NewRow, RowExplained
<1> QED
  BY <1>3, ExplainedRows DEF Init

LEMMA ExplainedStep ==
    TypeOK /\ CallsVetted /\ LockProtocol /\ StatusExplained /\ [Next]_vars => StatusExplained'
<1> SUFFICES ASSUME TypeOK, CallsVetted, LockProtocol, StatusExplained, [Next]_vars
             PROVE  StatusExplained'
  OBVIOUS
<1>1. /\ RowExplained(meeting)
      /\ \A v \in Users : pc[v] = "editing" => RowExplained(copy[v])
  BY ExplainedRows
<1>2. \A row : RowExplained(row) => RowExplained(row)'
  <2>1. ASSUME NEW row, RowExplained(row) PROVE RowExplained(row)'
    BY <2>1, ReachedGrows DEF RowExplained
  <2> QED
    BY <2>1
<1>3. ASSUME UNCHANGED meeting,
             \A v \in Users : pc'[v] = "editing" => pc[v] = "editing" /\ copy'[v] = copy[v]
      PROVE  StatusExplained'
  BY <1>1, <1>2, <1>3 DEF StatusExplained, RowExplained
<1>4. ASSUME NEW u \in Users, Reload(u) PROVE StatusExplained'
  <2>1. meeting' = meeting /\ copy'[u] = meeting
    BY <1>4 DEF Reload, db, TypeOK
  <2>2. \A v \in Users \ {u} : pc'[v] = pc[v] /\ copy'[v] = copy[v]
    BY <1>4 DEF Reload, TypeOK
  <2> QED
    BY <1>1, <1>2, <2>1, <2>2 DEF StatusExplained, RowExplained
<1>5. ASSUME NEW u \in Users, Save(u) PROVE StatusExplained'
  <2>1. PICK text \in Notes, flag \in BOOLEAN :
           meeting' = [copy[u] EXCEPT !.notes = text, !.is_locked = flag]
    BY <1>5 DEF Save
  <2>2. RowExplained(copy[u])
    BY <1>1, <1>5 DEF Save
  <2>3. /\ meeting'.status = copy[u].status /\ meeting'.published = copy[u].published
        /\ meeting'.closed = copy[u].closed /\ meeting'.archived = copy[u].archived
    BY <2>1 DEF TypeOK, Rows
  <2>4. RowExplained(meeting)'
    BY <1>2, <2>2, <2>3 DEF RowExplained
  <2>5. \A v \in Users : pc'[v] = "editing" => pc[v] = "editing" /\ copy'[v] = copy[v]
    BY <1>5, EndLocals DEF Save
  <2> QED
    BY <1>1, <1>2, <2>4, <2>5 DEF StatusExplained, RowExplained
<1>6. ASSUME NEW u \in Users, Commit(u) PROVE StatusExplained'
  <2>1. /\ history' = Append(history, NewEntry(u)) /\ NewEntry(u) \in HistoryRows
        /\ history \in Seq(HistoryRows)
        /\ meeting' = Stamped(meeting, NewEntry(u).to) /\ NewEntry(u).to \in Statuses
    BY <1>6, CommitAppends DEF TypeOK, HistoryRows
  <2>2. Len(history) + 1 \in DOMAIN history' /\ history'[Len(history) + 1] = NewEntry(u)
    BY <2>1, AppendRows
  <2> PICK t : t = NewEntry(u).to
    OBVIOUS
  <2>3. Reached(t)'
    BY <2>2 DEF Reached
  <2>4. /\ meeting'.status = t
        /\ meeting'.published = (meeting.published \/ t = "PUBLISHED")
        /\ meeting'.closed = (meeting.closed \/ t = "CLOSED")
        /\ meeting'.archived = (meeting.archived \/ t = "ARCHIVED")
    BY <2>1 DEF Stamped, TypeOK, Rows
  <2>5. RowExplained(meeting)'
    BY <1>1, <1>2, <2>3, <2>4 DEF RowExplained
  <2>6. \A v \in Users : pc'[v] = "editing" => pc[v] = "editing" /\ copy'[v] = copy[v]
    BY <1>6, EndLocals DEF Commit
  <2> QED
    BY <1>1, <1>2, <2>5, <2>6 DEF StatusExplained, RowExplained
<1>7. ASSUME NEW u \in Users,
             Load(u) \/ Rollback(u) \/ Validate(u) \/ Refuse(u) \/ Acquire(u) \/ Conflict(u)
               \/ TakeSnapshot(u) \/ RefuseEdit(u) \/ SaveAgenda(u) \/ Upsert(u)
      PROVE  StatusExplained'
  <2>1. meeting' = meeting
    BY <1>7 DEF Load, Rollback, Validate, Refuse, Acquire, Conflict, TakeSnapshot, RefuseEdit,
                SaveAgenda, Upsert, db
  <2>2. CASE End(u)
    BY <1>3, <2>1, <2>2, EndLocals
  <2>3. CASE Load(u) \/ Validate(u) \/ Acquire(u) \/ TakeSnapshot(u)
    <3>1. /\ copy' = copy /\ pc'[u] \in {"loaded", "checked", "locked", "snapped"}
          /\ \A v \in Users \ {u} : pc'[v] = pc[v]
      BY <2>3 DEF Load, Validate, Acquire, TakeSnapshot, TypeOK
    <3> QED
      BY <1>3, <2>1, <3>1
  <2> QED
    BY <1>7, <2>2, <2>3 DEF Rollback, Refuse, Conflict, RefuseEdit, SaveAgenda, Upsert
<1>8. CASE UNCHANGED vars
  BY <1>3, <1>8 DEF vars
<1> QED
  BY <1>4, <1>5, <1>6, <1>7, <1>8 DEF Next, Work

\* However stale a form's copy, it cannot give the meeting a status or a stamp
\* that no recorded move ever gave it.
THEOREM StatusIsExplained == Spec => []StatusExplained
  BY ExplainedInit, ExplainedStep, TypeCorrect, VettedAlways, LockSafe, PTL DEF Spec

-----------------------------------------------------------------------------
(* The chain of transitions, when no form saves whole rows.                *)

\* Without the two full-row forms only a commit writes the meeting.
LEMMA OnlyCommitMoves ==
    ASSUME Ops \cap FormOps = {}, CallsVetted, [Next]_vars
    PROVE  \/ UNCHANGED <<meeting, history, snapshots>>
           \/ \E u \in Users : Commit(u)
<1> SUFFICES ASSUME ~(\E u \in Users : Commit(u))
             PROVE  UNCHANGED <<meeting, history, snapshots>>
  OBVIOUS
<1>1. \A u \in Users : ~Save(u)
  BY DEF Save, CallsVetted, Entitled
<1>2. ASSUME NEW u \in Users, Load(u) \/ Rollback(u)
      PROVE  UNCHANGED <<meeting, history, snapshots>>
  BY <1>2 DEF Load, Rollback, db
<1>3. ASSUME NEW u \in Users, Work(u) PROVE UNCHANGED <<meeting, history, snapshots>>
  BY <1>1, <1>3 DEF Work, Validate, Refuse, Acquire, Conflict, TakeSnapshot, Reload, RefuseEdit,
                    SaveAgenda, Upsert, db
<1>4. CASE UNCHANGED vars
  BY <1>4 DEF vars
<1> QED
  BY <1>2, <1>3, <1>4 DEF Next

\* Where the meeting was after i transitions.
Arrived(i) == IF i = 0 THEN "DRAFT" ELSE history[i].to

LEMMA ChainParts ==
    HistoryChain <=> /\ \A i \in DOMAIN history : history[i].from = Arrived(i - 1)
                     /\ meeting.status = Arrived(Len(history))
                     /\ meeting.published <=> Reached("PUBLISHED")
                     /\ meeting.closed <=> Reached("CLOSED")
                     /\ meeting.archived <=> Reached("ARCHIVED")
  BY DEF HistoryChain, Arrived

LEMMA ChainInit == Init => HistoryChain
<1> SUFFICES ASSUME Init PROVE HistoryChain
  OBVIOUS
<1>1. \A i \in 1..Len(Walked) - 1 : /\ history[i].from = Walked[i]
                                    /\ history[i].to = Walked[i + 1]
                                    /\ Walked[i + 1] \in Drafting
  <2> SUFFICES ASSUME NEW i \in 1..Len(Walked) - 1
               PROVE  /\ history[i].from = Walked[i] /\ history[i].to = Walked[i + 1]
                      /\ Walked[i + 1] \in Drafting
    OBVIOUS
  <2> QED
    BY WalkedAssumption DEF Init
<1>2. /\ Len(Walked) \in Nat /\ Len(Walked) # 0 /\ Len(Walked) - 1 \in Nat /\ Walked[1] = "DRAFT"
      /\ DOMAIN history = 1..Len(Walked) - 1 /\ Len(history) = Len(Walked) - 1
  BY WalkedAssumption DEF Init
<1>3. \A i \in DOMAIN history : history[i].from = Arrived(i - 1)
  <2> SUFFICES ASSUME NEW i \in 1..Len(Walked) - 1 PROVE history[i].from = Arrived(i - 1)
    BY <1>2
  <2>1. CASE i = 1
    BY <2>1, <1>1, <1>2 DEF Arrived
  <2>2. CASE i # 1
    <3>1. i - 1 \in 1..Len(Walked) - 1 /\ i - 1 + 1 = i /\ i - 1 # 0
      BY <2>2, <1>2
    <3> QED
      BY <3>1, <1>1 DEF Arrived
  <2> QED
    BY <2>1, <2>2
<1>4. Walked[Len(Walked)] = Arrived(Len(history))
  <2>1. CASE Len(Walked) = 1
    BY <2>1, <1>2 DEF Arrived
  <2>2. CASE Len(Walked) # 1
    <3>1. Len(Walked) - 1 \in 1..Len(Walked) - 1 /\ Len(Walked) - 1 + 1 = Len(Walked)
      BY <2>2, <1>2, SmallNaturals
    <3>2. Len(Walked) - 1 # 0
      BY <2>2, <1>2
    <3> QED
      BY <1>1, <1>2, <3>1, <3>2 DEF Arrived
  <2> QED
    BY <2>1, <2>2
<1>5. \A s \in {"PUBLISHED", "CLOSED", "ARCHIVED"} : ~Reached(s)
  BY <1>1, <1>2 DEF Reached, Drafting
<1>6. PICK b \in BOOLEAN, n \in Notes : meeting = NewRow(b, n)
  BY DEF Init
<1>7. /\ meeting.status = Walked[Len(Walked)]
      /\ ~meeting.published /\ ~meeting.closed /\ ~meeting.archived
  BY <1>6 DEF NewRow
<1> QED
  BY <1>3, <1>4, <1>5, <1>7, ChainParts

LEMMA ChainStep ==
    ASSUME Ops \cap FormOps = {}, TypeOK, CallsVetted, LockProtocol, HistoryChain, [Next]_vars
    PROVE  HistoryChain'
<1>1. CASE UNCHANGED <<meeting, history, snapshots>>
  BY <1>1 DEF HistoryChain, Reached
<1>2. ASSUME NEW u \in Users, Commit(u) PROVE HistoryChain'
  <2>1. /\ history' = Append(history, NewEntry(u)) /\ NewEntry(u) \in HistoryRows
        /\ history \in Seq(HistoryRows) /\ NewEntry(u).from = meeting.status
        /\ meeting' = Stamped(meeting, NewEntry(u).to) /\ meeting'.status = NewEntry(u).to
    BY <1>2, CommitAppends DEF TypeOK
  <2> PICK e : e = NewEntry(u)
    OBVIOUS
  <2>2. /\ DOMAIN history' = 1..Len(history) + 1 /\ Len(history') = Len(history) + 1
        /\ DOMAIN history = 1..Len(history) /\ Len(history) \in Nat
        /\ history'[Len(history) + 1] = e
        /\ \A i \in DOMAIN history : history'[i] = history[i]
    BY <2>1, AppendRows
  <2>3. ASSUME NEW i \in 0..Len(history) PROVE Arrived(i)' = Arrived(i)
    BY <2>2, <2>3 DEF Arrived
  <2>4. e.from = Arrived(Len(history))
    BY <2>1, ChainParts
  <2>5. \A i \in DOMAIN history' : history'[i].from = Arrived(i - 1)'
    <3> SUFFICES ASSUME NEW i \in 1..Len(history) + 1
                 PROVE  history'[i].from = Arrived(i - 1)'
      BY <2>2
    <3>1. i - 1 \in 0..Len(history)
      BY <2>2
    <3>2. Arrived(i - 1)' = Arrived(i - 1)
      BY <2>3, <3>1
    <3>3. CASE i = Len(history) + 1
      BY <2>2, <2>4, <3>2, <3>3
    <3>4. CASE i \in 1..Len(history)
      <4>1. history[i].from = Arrived(i - 1)
        BY <2>2, <3>4, ChainParts
      <4> QED
        BY <2>2, <3>2, <3>4, <4>1
    <3>5. i = Len(history) + 1 \/ i \in 1..Len(history)
      BY <2>2
    <3> QED
      BY <3>3, <3>4, <3>5
  <2>6. meeting'.status = Arrived(Len(history))'
    <3>1. Len(history') # 0
      BY <2>2
    <3> QED
      BY <2>1, <2>2, <3>1 DEF Arrived
  <2>7. \A s \in {"PUBLISHED", "CLOSED", "ARCHIVED"} : Reached(s)' <=> (Reached(s) \/ e.to = s)
    BY <2>2 DEF Reached
  <2>8. /\ meeting'.published = (meeting.published \/ e.to = "PUBLISHED")
        /\ meeting'.closed = (meeting.closed \/ e.to = "CLOSED")
        /\ meeting'.archived = (meeting.archived \/ e.to = "ARCHIVED")
    BY <2>1 DEF Stamped, TypeOK, Rows
  <2>9. /\ meeting'.published <=> Reached("PUBLISHED")'
        /\ meeting'.closed <=> Reached("CLOSED")'
        /\ meeting'.archived <=> Reached("ARCHIVED")'
    BY <2>7, <2>8, ChainParts
  <2> QED
    BY <2>5, <2>6, <2>9 DEF HistoryChain, Arrived
<1> QED
  BY <1>1, <1>2, OnlyCommitMoves

\* If no full-row form is served, the history of the meeting is an unbroken
\* chain of moves from DRAFT to its status, and its stamps follow the chain.
THEOREM ChainUnbroken ==
    ASSUME Ops \cap FormOps = {}
    PROVE  Spec => []HistoryChain
<1>1. TypeOK /\ CallsVetted /\ LockProtocol /\ HistoryChain /\ [Next]_vars => HistoryChain'
  BY ChainStep
<1> QED
  BY <1>1, ChainInit, TypeCorrect, VettedAlways, LockSafe, PTL DEF Spec

-----------------------------------------------------------------------------
(* The workflow implements the life cycle.                                 *)

\* What the refinement mapping makes of a history.
LEMMA TrailShape ==
    ASSUME NEW h \in Seq(HistoryRows)
    PROVE  /\ TrailOf(h) \in Seq(Statuses) /\ Len(TrailOf(h)) = Len(h) + 1
           /\ TrailOf(h)[1] = "DRAFT"
           /\ \A i \in DOMAIN h : TrailOf(h)[i + 1] = h[i].to
<1> DEFINE moves == [i \in DOMAIN h |-> h[i].to]
<1>1. DOMAIN h = 1..Len(h) /\ Len(h) \in Nat
  OBVIOUS
<1>2. ASSUME NEW i \in DOMAIN h PROVE h[i].to \in Statuses
  <2>1. h[i] \in HistoryRows
    BY <1>1
  <2> QED
    BY <2>1 DEF HistoryRows
<1>3. moves \in Seq(Statuses) /\ Len(moves) = Len(h)
  BY <1>1, <1>2
<1>4. <<"DRAFT">> \in Seq(Statuses) /\ Len(<<"DRAFT">>) = 1
  BY DEF Statuses
<1>5. \A i \in DOMAIN h : moves[i] = h[i].to
  OBVIOUS
<1>6. TrailOf(h) = <<"DRAFT">> \o moves
  BY DEF TrailOf
<1> HIDE DEF moves
<1>7. /\ TrailOf(h) \in Seq(Statuses) /\ Len(TrailOf(h)) = 1 + Len(h)
      /\ \A i \in 1..1 + Len(h) :
            TrailOf(h)[i] = IF i <= 1 THEN <<"DRAFT">>[i] ELSE moves[i - 1]
  BY <1>3, <1>4, <1>6, ConcatProperties
<1>8. TrailOf(h)[1] = "DRAFT"
  BY <1>1, <1>7
<1>9. ASSUME NEW i \in DOMAIN h PROVE TrailOf(h)[i + 1] = h[i].to
  <2>1. i + 1 \in 1..1 + Len(h) /\ ~(i + 1 <= 1) /\ i + 1 - 1 = i
    BY <1>1
  <2> QED
    BY <1>5, <1>7, <2>1
<1> QED
  BY <1>1, <1>7, <1>8, <1>9

LEMMA RefinedInit == Init => Lifecycle!Init
<1> SUFFICES ASSUME Init PROVE Lifecycle!Init
  OBVIOUS
<1>1. TypeOK /\ HistoryChain /\ LegalHistory
  BY InitTyped, ChainInit, InitLegal
<1>2. /\ Trail \in Seq(Statuses) /\ Len(Trail) = Len(history) + 1 /\ Trail[1] = "DRAFT"
      /\ \A i \in DOMAIN history : Trail[i + 1] = history[i].to
      /\ DOMAIN history = 1..Len(history) /\ Len(history) \in Nat
  BY <1>1, TrailShape DEF TypeOK, Trail
<1>3. \A i \in 0..Len(history) : Trail[i + 1] = Arrived(i)
  BY <1>2 DEF Arrived
<1>4. ASSUME NEW i \in 1..Len(history) PROVE Trail[i + 1] \in Moves(Trail[i])
  <2>1. history[i].to \in Moves(history[i].from) /\ history[i].from = Arrived(i - 1)
    BY <1>1, <1>2, ChainParts DEF LegalHistory
  <2>2. i - 1 \in 0..Len(history) /\ i - 1 + 1 = i
    BY <1>2
  <2>3. Trail[i] = Arrived(i - 1)
    BY <1>3, <2>2
  <2> QED
    BY <1>2, <2>1, <2>3
<1>5. Trail[Len(Trail)] = meeting.status
  <2>1. Len(history) \in 0..Len(history)
    BY <1>2
  <2> QED
    BY <1>1, <1>2, <1>3, <2>1, ChainParts
<1>6. Len(Trail) > 0 /\ Len(Trail) - 1 = Len(history)
  BY <1>2
<1>7. Len(snapshots) = 0
  BY DEF Init
<1> QED
  BY <1>2, <1>4, <1>5, <1>6, <1>7 DEF Lifecycle!Init, Lifecycle!Moves, Lifecycle!ValidTransitions, Lifecycle!Statuses,
      Moves, ValidTransitions, Statuses

LEMMA RefinedStep ==
    ASSUME Ops \cap FormOps = {}, TypeOK, CallsVetted, LockProtocol, VersionsInv, [Next]_vars
    PROVE  [Lifecycle!Next]_(<<meeting.status, Trail, Len(snapshots)>>)
<1>1. CASE UNCHANGED <<meeting, history, snapshots>>
  BY <1>1 DEF Trail
<1>2. ASSUME NEW u \in Users, Commit(u) PROVE Lifecycle!Next
  <2>1. /\ history' = Append(history, NewEntry(u)) /\ NewEntry(u) \in HistoryRows
        /\ history \in Seq(HistoryRows) /\ NewEntry(u).from = meeting.status
        /\ meeting'.status = NewEntry(u).to /\ NewEntry(u).to \in Moves(NewEntry(u).from)
        /\ lock = u
    BY <1>2, CommitAppends DEF TypeOK
  <2> PICK e : e = NewEntry(u)
    OBVIOUS
  <2>2. e.to \in Statuses /\ e.to = call[u].target
    BY <2>1 DEF HistoryRows, NewEntry
  <2>3. Trail' = Append(Trail, e.to)
    <3>1. TypeOK'
      BY StepTyped
    <3>2. /\ Trail \in Seq(Statuses) /\ Len(Trail) = Len(history) + 1 /\ Trail[1] = "DRAFT"
          /\ \A i \in DOMAIN history : Trail[i + 1] = history[i].to
      BY TrailShape DEF TypeOK, Trail
    <3>3. /\ Trail' \in Seq(Statuses) /\ Len(Trail') = Len(history') + 1 /\ Trail'[1] = "DRAFT"
          /\ \A i \in DOMAIN history' : Trail'[i + 1] = history'[i].to
      BY <3>1, TrailShape DEF TypeOK, Trail
    <3>4. /\ DOMAIN history' = 1..Len(history) + 1 /\ Len(history') = Len(history) + 1
          /\ DOMAIN history = 1..Len(history) /\ Len(history) \in Nat
          /\ history'[Len(history) + 1] = e
          /\ \A i \in DOMAIN history : history'[i] = history[i]
      BY <2>1, AppendRows
    <3> DEFINE grown == Append(Trail, e.to)
    <3>5. /\ grown \in Seq(Statuses) /\ Len(grown) = Len(Trail) + 1
          /\ grown[Len(Trail) + 1] = e.to
          /\ \A i \in 1..Len(Trail) : grown[i] = Trail[i]
      BY <2>2, <3>2, AppendProperties
    <3> HIDE DEF grown
    <3>6. ASSUME NEW i \in 1..Len(Trail') PROVE Trail'[i] = grown[i]
      <4>1. CASE i = 1
        BY <3>2, <3>3, <3>4, <3>5, <4>1
      <4>2. CASE i = Len(history) + 2
        <5>1. i - 1 = Len(history) + 1 /\ i - 1 \in DOMAIN history' /\ i - 1 + 1 = i
          BY <3>4, <4>2
        <5> QED
          BY <3>2, <3>3, <3>4, <3>5, <4>2, <5>1
      <4>3. CASE i \in 2..Len(history) + 1
        <5>1. i - 1 \in DOMAIN history /\ i - 1 \in DOMAIN history' /\ i - 1 + 1 = i
          BY <3>4, <4>3
        <5>2. i \in 1..Len(Trail)
          BY <3>2, <3>4, <4>3
        <5> QED
          BY <3>2, <3>3, <3>4, <3>5, <5>1, <5>2
      <4>4. i = 1 \/ i = Len(history) + 2 \/ i \in 2..Len(history) + 1
        BY <3>3, <3>4
      <4> QED
        BY <4>1, <4>2, <4>3, <4>4
    <3>7. Len(Trail') = Len(grown)
      BY <3>2, <3>3, <3>4, <3>5
    <3> QED
      BY <3>3, <3>5, <3>6, <3>7, SeqEqual DEF grown
  <2>4. \/ Len(snapshots') = Len(snapshots)
        \/ e.to \in {"APPROVED", "PUBLISHED"} /\ Len(snapshots') = Len(snapshots) + 1
    <3>1. CASE pending = <<>> /\ snapshots' = snapshots
      BY <3>1
    <3>2. CASE pending # <<>> /\ pending[1] \in SnapshotRows /\ snapshots' = Append(snapshots, pending[1])
      <4>1. Len(snapshots') = Len(snapshots) + 1
        BY <3>2, AppendProperties DEF TypeOK
      <4>2. pc[u] = "snapped"
        BY <2>1, <3>2, UsersAssumption DEF LockProtocol
      <4>3. call[u].op \in {"approve", "publish"} /\ call[u].target \in Targets[call[u].op]
        BY <4>2 DEF CallsVetted, Entitled, ServiceOps
      <4> QED
        BY <2>2, <4>1, <4>3 DEF Targets
    <3> QED
      BY <1>2, <3>1, <3>2, CommitSnapshots
  <2>5. Lifecycle!Moves(meeting.status) = Moves(meeting.status) /\ Lifecycle!Statuses = Statuses
    BY DEF Lifecycle!Moves, Lifecycle!ValidTransitions, Lifecycle!Statuses,
           Moves, ValidTransitions, Statuses
  <2>6. Lifecycle!Move(e.to)
    BY <2>1, <2>3, <2>4, <2>5 DEF Lifecycle!Move
  <2> QED
    BY <2>2, <2>5, <2>6 DEF Lifecycle!Next
<1> QED
  BY <1>1, <1>2, OnlyCommitMoves

\* If no full-row form is served, the request protocol with its locks, stale
\* reads and rollbacks implements the life cycle, for any number of users.
THEOREM ServicesImplementLifecycle ==
    ASSUME Ops \cap FormOps = {}
    PROVE  Spec => ImplementsLifecycle
<1>1. TypeOK /\ CallsVetted /\ LockProtocol /\ VersionsInv /\ [Next]_vars
         => [Lifecycle!Next]_(<<meeting.status, Trail, Len(snapshots)>>)
  BY RefinedStep
<1> QED
  BY <1>1, RefinedInit, TypeCorrect, VettedAlways, LockSafe, VersionsAlways,
     PTL DEF Spec, ImplementsLifecycle, Lifecycle!Spec

-----------------------------------------------------------------------------
(* Snapshots and the transitions they document.                             *)

\* The status a snapshot of a trigger freezes.
Documents(trigger) == IF trigger = "APPROVE" THEN "APPROVED" ELSE "PUBLISHED"

\* The snapshot in flight is of the transition that is to commit with it.
InFlight ==
    \A u \in Users :
        pc[u] = "snapped" => /\ pending[1].trigger = IF call[u].op = "approve" THEN "APPROVE" ELSE "PUBLISH"
                             /\ pending[1].status = call[u].target
                             /\ call[u].target = Documents(pending[1].trigger)

\* One more row that counts, or none that does.
LEMMA CountsGrow ==
    ASSUME NEW S, NEW s \in Seq(S), NEW e \in S, NEW A \in SUBSET DOMAIN s, NEW B,
           B \subseteq A \cup {Len(s) + 1}
    PROVE  /\ IsFiniteSet(A) /\ Cardinality(A) \in Nat /\ Cardinality(B) \in Nat
           /\ Cardinality(B) <= Cardinality(A) + 1
           /\ A \subseteq B => Cardinality(A) <= Cardinality(B)
           /\ B = A \cup {Len(s) + 1} => Cardinality(B) = Cardinality(A) + 1
<1>1. Len(s) \in Nat /\ DOMAIN s = 1..Len(s) /\ Len(s) + 1 \notin A
  OBVIOUS
<1>2. IsFiniteSet(1..Len(s))
  BY <1>1, FS_Interval
<1>3. IsFiniteSet(A) /\ Cardinality(A) \in Nat
  BY <1>1, <1>2, FS_Subset, FS_CardinalityType
<1>4. /\ IsFiniteSet(A \cup {Len(s) + 1})
      /\ Cardinality(A \cup {Len(s) + 1}) = Cardinality(A) + 1
  BY <1>1, <1>3, FS_AddElement
<1>5. /\ IsFiniteSet(B) /\ Cardinality(B) \in Nat
      /\ Cardinality(B) <= Cardinality(A \cup {Len(s) + 1})
  BY <1>4, FS_Subset, FS_CardinalityType
<1>6. A \subseteq B => Cardinality(A) <= Cardinality(B)
  BY <1>5, FS_Subset
<1> QED
  BY <1>3, <1>4, <1>5, <1>6

LEMMA InFlightStep ==
    ASSUME TypeOK, CallsVetted, LockProtocol, InFlight, [Next]_vars
    PROVE  InFlight'
<1>1. ASSUME NEW u \in Users, TakeSnapshot(u) PROVE InFlight'
  <2>1. /\ pending' = <<[version |-> NextVersion,
                         trigger |-> IF call[u].op = "approve" THEN "APPROVE" ELSE "PUBLISH",
                         status |-> call[u].target, notes |-> meeting.notes, agenda |-> agenda]>>
        /\ pc' = [pc EXCEPT ![u] = "snapped"] /\ call' = call /\ pc[u] = "locked"
        /\ call[u].op \in {"approve", "publish"}
    BY <1>1 DEF TakeSnapshot, WantsSnapshot
  <2>2. call[u].target = IF call[u].op = "approve" THEN "APPROVED" ELSE "PUBLISHED"
    <3>1. call[u].op \in ServiceOps /\ call[u].target \in Targets[call[u].op]
      BY <2>1 DEF CallsVetted, Entitled, ServiceOps
    <3> QED
      BY <2>1, <3>1 DEF Targets
  <2>3. /\ pending'[1].trigger = IF call[u].op = "approve" THEN "APPROVE" ELSE "PUBLISH"
        /\ pending'[1].status = call[u].target
    BY <2>1
  <2>4. \A v \in Users : pc'[v] = "snapped" => v = u
    BY <2>1 DEF LockProtocol, TypeOK
  <2> QED
    BY <2>1, <2>2, <2>3, <2>4 DEF InFlight, Documents
<1>2. ASSUME NEW u \in Users, Commit(u) PROVE InFlight'
  <2>1. lock = u /\ End(u)
    BY <1>2 DEF Commit, LockProtocol
  <2>2. \A v \in Users : pc'[v] # "snapped"
    BY <2>1, EndLocals DEF LockProtocol
  <2> QED
    BY <2>2 DEF InFlight
<1>3. ASSUME NEW u \in Users, Rollback(u) PROVE InFlight'
  <2>1. End(u) /\ (lock # u => pending' = pending)
    BY <1>3 DEF Rollback
  <2>2. ASSUME NEW v \in Users, pc'[v] = "snapped"
        PROVE  pc[v] = "snapped" /\ call'[v] = call[v] /\ pending' = pending
    <3>1. v # u /\ pc[v] = "snapped" /\ call'[v] = call[v]
      BY <2>1, <2>2, EndLocals
    <3>2. lock = v
      BY <3>1 DEF LockProtocol
    <3> QED
      BY <2>1, <3>1, <3>2
  <2> QED
    BY <2>2 DEF InFlight
<1>4. ASSUME NEW u \in Users, pending' = pending, pc' \in [Users -> Phases], pc'[u] # "snapped",
             \A v \in Users \ {u} : pc'[v] = pc[v] /\ call'[v] = call[v]
      PROVE  InFlight'
  BY <1>4 DEF InFlight
<1>5. ASSUME NEW u \in Users, Load(u) \/ Validate(u) \/ Acquire(u) \/ Reload(u) PROVE InFlight'
  <2>1. /\ pending' = pending /\ pc' \in [Users -> Phases] /\ pc'[u] # "snapped"
        /\ \A v \in Users \ {u} : pc'[v] = pc[v] /\ call'[v] = call[v]
    BY <1>5 DEF Load, Validate, Acquire, Reload, TypeOK, Phases
  <2> QED
    BY <1>4, <2>1
<1>6. ASSUME NEW u \in Users, Refuse(u) \/ Conflict(u) \/ RefuseEdit(u) \/ Save(u) \/ SaveAgenda(u) \/ Upsert(u)
      PROVE  InFlight'
  <2>1. pending' = pending /\ End(u)
    BY <1>6 DEF Refuse, Conflict, RefuseEdit, Save, SaveAgenda, Upsert
  <2> QED
    BY <1>4, <2>1, EndLocals
<1>7. CASE UNCHANGED vars
  BY <1>7 DEF vars, InFlight
<1> QED
  BY <1>1, <1>2, <1>3, <1>5, <1>6, <1>7 DEF Next, Work

LEMMA InFlightAlways == Spec => []InFlight
<1>1. Init => InFlight
  BY DEF Init, InFlight
<1>2. TypeOK /\ CallsVetted /\ LockProtocol /\ InFlight /\ [Next]_vars => InFlight'
  BY InFlightStep
<1> QED
  BY <1>1, <1>2, TypeCorrect, VettedAlways, LockSafe, PTL DEF Spec

\* A snapshot is inserted with the row of the transition it documents.
LEMMA CommitDocuments ==
    ASSUME TypeOK, CallsVetted, LockProtocol, VersionsInv, InFlight, NEW u \in Users, Commit(u)
    PROVE  /\ pending = <<>> => snapshots' = snapshots
           /\ pending # <<>> =>
                 /\ pending[1] \in SnapshotRows /\ snapshots' = Append(snapshots, pending[1])
                 /\ pending[1].status = NewEntry(u).to /\ NewEntry(u).to = Documents(pending[1].trigger)
                 /\ pending[1].trigger = IF call[u].op = "approve" THEN "APPROVE" ELSE "PUBLISH"
<1>1. lock = u
  BY CommitAppends
<1>2. pending # <<>> => pc[u] = "snapped"
  BY <1>1 DEF LockProtocol
<1>3. NewEntry(u).to = call[u].target
  BY DEF NewEntry
<1> QED
  BY <1>2, <1>3, CommitSnapshots DEF InFlight

SnapshotsOf(trigger) == {i \in DOMAIN snapshots : snapshots[i].trigger = trigger}

MovesTo(s) == {i \in DOMAIN history : history[i].to = s}

Explained(trail, taken) ==
    /\ \A i \in DOMAIN taken : taken[i].status = Documents(taken[i].trigger)
    /\ Cardinality({i \in DOMAIN taken : taken[i].trigger = "APPROVE"})
          <= Cardinality({i \in DOMAIN trail : trail[i].to = "APPROVED"})
    /\ Cardinality({i \in DOMAIN taken : taken[i].trigger = "PUBLISH"})
          <= Cardinality({i \in DOMAIN trail : trail[i].to = "PUBLISHED"})

LEMMA ExplainedParts ==
    /\ SnapshotsExplained <=> Explained(history, snapshots)
    /\ SnapshotsExplained' <=> Explained(history', snapshots')
<1>1. \A trigger : Documents(trigger) = IF trigger = "APPROVE" THEN "APPROVED" ELSE "PUBLISHED"
  BY DEF Documents
<1> DEFINE pairs == {<<"APPROVE", "APPROVED">>, <<"PUBLISH", "PUBLISHED">>}
           Less(pair, trail, taken) ==
              Cardinality({i \in DOMAIN taken : taken[i].trigger = pair[1]})
                 <= Cardinality({i \in DOMAIN trail : trail[i].to = pair[2]})
<1>2. ASSUME NEW trail, NEW taken
      PROVE  (\A pair \in pairs : Less(pair, trail, taken))
                <=> Less(<<"APPROVE", "APPROVED">>, trail, taken) /\ Less(<<"PUBLISH", "PUBLISHED">>, trail, taken)
  OBVIOUS
<1>3. SnapshotsExplained <=>
         /\ \A i \in DOMAIN snapshots : snapshots[i].status = Documents(snapshots[i].trigger)
         /\ \A pair \in pairs : Less(pair, history, snapshots)
  BY <1>1 DEF SnapshotsExplained
<1>4. SnapshotsExplained' <=>
         /\ \A i \in DOMAIN snapshots' : snapshots'[i].status = Documents(snapshots'[i].trigger)
         /\ \A pair \in pairs : Less(pair, history', snapshots')
  BY <1>1 DEF SnapshotsExplained
<1> QED
  BY <1>2, <1>3, <1>4 DEF Explained

LEMMA DocumentedInit == Init => SnapshotsExplained
<1> SUFFICES ASSUME Init PROVE SnapshotsExplained
  OBVIOUS
<1>1. \A trigger : SnapshotsOf(trigger) = {}
  BY DEF Init, SnapshotsOf
<1>2. \A trigger : Cardinality(SnapshotsOf(trigger)) = 0
  BY <1>1, FS_EmptySet
<1>3. \A s : Cardinality(MovesTo(s)) \in Nat
  <2> TAKE s
  <2>1. history \in Seq(HistoryRows)
    BY InitTyped DEF TypeOK
  <2>2. MovesTo(s) \in SUBSET (1..Len(history)) /\ Len(history) \in Nat
    BY <2>1 DEF MovesTo
  <2>3. IsFiniteSet(1..Len(history))
    BY <2>2, FS_Interval
  <2> QED
    BY <2>2, <2>3, FS_Subset, FS_CardinalityType
<1>4. \A i \in DOMAIN snapshots : snapshots[i].status = Documents(snapshots[i].trigger)
  BY DEF Init
<1>5. \A trigger, s : Cardinality(SnapshotsOf(trigger)) <= Cardinality(MovesTo(s))
  BY <1>2, <1>3
<1>6. /\ Cardinality(SnapshotsOf("APPROVE")) <= Cardinality(MovesTo("APPROVED"))
      /\ Cardinality(SnapshotsOf("PUBLISH")) <= Cardinality(MovesTo("PUBLISHED"))
  BY <1>5
<1> QED
  BY <1>4, <1>6, ExplainedParts DEF Explained, SnapshotsOf, MovesTo

LEMMA DocumentedStep ==
    ASSUME TypeOK, CallsVetted, LockProtocol, VersionsInv, InFlight, SnapshotsExplained, [Next]_vars
    PROVE  SnapshotsExplained'
<1>1. CASE UNCHANGED <<history, snapshots>>
  BY <1>1 DEF SnapshotsExplained
<1>2. ASSUME NEW u \in Users, Commit(u) PROVE SnapshotsExplained'
  <2> DEFINE e == NewEntry(u)
  <2>1. /\ history' = Append(history, e) /\ e \in HistoryRows /\ history \in Seq(HistoryRows)
        /\ snapshots \in Seq(SnapshotRows)
    BY <1>2, CommitAppends DEF TypeOK
  <2> HIDE DEF e
  <2>2. /\ DOMAIN history' = 1..Len(history) + 1 /\ DOMAIN history = 1..Len(history)
        /\ history'[Len(history) + 1] = e
        /\ \A i \in DOMAIN history : i \in DOMAIN history' /\ history'[i] = history[i]
        /\ \A i \in DOMAIN history' : \/ i = Len(history) + 1 /\ history'[i] = e
                                      \/ i \in DOMAIN history /\ history'[i] = history[i]
    BY <2>1, AppendRows
  <2>3. ASSUME NEW s
        PROVE  /\ Cardinality(MovesTo(s)) \in Nat /\ Cardinality(MovesTo(s)') \in Nat
               /\ Cardinality(MovesTo(s)) <= Cardinality(MovesTo(s)')
               /\ e.to = s => Cardinality(MovesTo(s)') = Cardinality(MovesTo(s)) + 1
    <3>1. Len(history) + 1 \in DOMAIN history'
      BY <2>1, <2>2
    <3>2. /\ MovesTo(s) \in SUBSET DOMAIN history /\ MovesTo(s) \subseteq MovesTo(s)'
          /\ MovesTo(s)' \subseteq MovesTo(s) \cup {Len(history) + 1}
          /\ e.to = s => MovesTo(s)' = MovesTo(s) \cup {Len(history) + 1}
      BY <2>2, <3>1 DEF MovesTo
    <3> QED
      BY <2>1, <3>2, CountsGrow
  <2>4. CASE pending = <<>>
    <3>1. snapshots' = snapshots
      BY <1>2, <2>4, CommitDocuments
    <3>2. \A trigger : SnapshotsOf(trigger)' = SnapshotsOf(trigger)
      BY <3>1 DEF SnapshotsOf
    <3>3. ASSUME NEW trigger PROVE Cardinality(SnapshotsOf(trigger)) \in Nat
      <4>1. SnapshotsOf(trigger) \in SUBSET (1..Len(snapshots)) /\ Len(snapshots) \in Nat
        BY <2>1 DEF SnapshotsOf
      <4>2. IsFiniteSet(1..Len(snapshots))
        BY <4>1, FS_Interval
      <4> QED
        BY <4>1, <4>2, FS_Subset, FS_CardinalityType
    <3>4. /\ Cardinality(SnapshotsOf("APPROVE")') <= Cardinality(MovesTo("APPROVED")')
          /\ Cardinality(SnapshotsOf("PUBLISH")') <= Cardinality(MovesTo("PUBLISHED")')
      <4>1. /\ Cardinality(SnapshotsOf("APPROVE")) <= Cardinality(MovesTo("APPROVED"))
            /\ Cardinality(SnapshotsOf("PUBLISH")) <= Cardinality(MovesTo("PUBLISHED"))
        BY ExplainedParts DEF Explained, SnapshotsOf, MovesTo
      <4>2. \A a, b, c \in Nat : a <= b /\ b <= c => a <= c
        OBVIOUS
      <4> QED
        BY <2>3, <3>2, <3>3, <4>1, <4>2
    <3> QED
      BY <3>1, <3>4, ExplainedParts DEF Explained, SnapshotsOf, MovesTo
  <2>5. CASE pending # <<>>
    <3> DEFINE p == pending[1]
    <3>1. /\ p \in SnapshotRows /\ snapshots' = Append(snapshots, p)
          /\ p.status = e.to /\ e.to = Documents(p.trigger)
      BY <1>2, <2>5, CommitDocuments DEF e
    <3> HIDE DEF p
    <3>2. /\ DOMAIN snapshots' = 1..Len(snapshots) + 1 /\ DOMAIN snapshots = 1..Len(snapshots)
          /\ snapshots'[Len(snapshots) + 1] = p
          /\ \A i \in DOMAIN snapshots : i \in DOMAIN snapshots' /\ snapshots'[i] = snapshots[i]
          /\ \A i \in DOMAIN snapshots' : \/ i = Len(snapshots) + 1 /\ snapshots'[i] = p
                                          \/ i \in DOMAIN snapshots /\ snapshots'[i] = snapshots[i]
      BY <2>1, <3>1, AppendRows
    <3>3. ASSUME NEW trigger
          PROVE  /\ Cardinality(SnapshotsOf(trigger)) \in Nat /\ Cardinality(SnapshotsOf(trigger)') \in Nat
                 /\ Cardinality(SnapshotsOf(trigger)') <= Cardinality(SnapshotsOf(trigger)) + 1
                 /\ p.trigger # trigger => SnapshotsOf(trigger)' = SnapshotsOf(trigger)
      <4>1. /\ SnapshotsOf(trigger) \in SUBSET DOMAIN snapshots
            /\ SnapshotsOf(trigger)' \subseteq SnapshotsOf(trigger) \cup {Len(snapshots) + 1}
            /\ p.trigger # trigger => SnapshotsOf(trigger)' = SnapshotsOf(trigger)
        BY <3>2 DEF SnapshotsOf
      <4> QED
        BY <2>1, <3>1, <4>1, CountsGrow
    <3>4. ASSUME NEW trigger \in Triggers,
                 Cardinality(SnapshotsOf(trigger)) <= Cardinality(MovesTo(Documents(trigger)))
          PROVE  Cardinality(SnapshotsOf(trigger)') <= Cardinality(MovesTo(Documents(trigger))')
      <4> DEFINE a == Cardinality(SnapshotsOf(trigger))
                 b == Cardinality(MovesTo(Documents(trigger)))
                 c == Cardinality(SnapshotsOf(trigger)')
                 d == Cardinality(MovesTo(Documents(trigger))')
      <4>1. a \in Nat /\ b \in Nat /\ c \in Nat /\ d \in Nat /\ a <= b
        BY <2>3, <3>3, <3>4
      <4>2. CASE p.trigger = trigger
        <5>1. c <= a + 1 /\ d = b + 1
          BY <2>3, <3>1, <3>3, <4>2
        <5> HIDE DEF a, b, c, d
        <5>2. c <= d
          BY <4>1, <5>1
        <5> QED
          BY <5>2 DEF c, d
      <4>3. CASE p.trigger # trigger
        <5>1. c = a /\ b <= d
          BY <2>3, <3>3, <4>3
        <5> HIDE DEF a, b, c, d
        <5>2. c <= d
          BY <4>1, <5>1
        <5> QED
          BY <5>2 DEF c, d
      <4> QED
        BY <4>2, <4>3
    <3>5. Documents("APPROVE") = "APPROVED" /\ Documents("PUBLISH") = "PUBLISHED" /\ Triggers = {"APPROVE", "PUBLISH"}
      BY DEF Documents, Triggers
    <3>6. /\ Cardinality(SnapshotsOf("APPROVE")') <= Cardinality(MovesTo("APPROVED")')
          /\ Cardinality(SnapshotsOf("PUBLISH")') <= Cardinality(MovesTo("PUBLISHED")')
      BY <3>4, <3>5, ExplainedParts DEF Explained, SnapshotsOf, MovesTo
    <3>7. \A i \in DOMAIN snapshots' : snapshots'[i].status = Documents(snapshots'[i].trigger)
      BY <3>1, <3>2, ExplainedParts DEF Explained, SnapshotsOf, MovesTo
    <3> QED
      BY <3>6, <3>7, ExplainedParts DEF Explained, SnapshotsOf, MovesTo
  <2> QED
    BY <2>4, <2>5
<1> QED
  BY <1>1, <1>2, OnlyCommitWrites

\* No snapshot exists without the transition it documents, and each shows the
\* meeting in the status of that transition, whatever requests fail between.
THEOREM SnapshotsDocument == Spec => []SnapshotsExplained
<1>1. TypeOK /\ CallsVetted /\ LockProtocol /\ VersionsInv /\ InFlight /\ SnapshotsExplained /\ [Next]_vars
         => SnapshotsExplained'
  BY DocumentedStep
<1> QED
  BY <1>1, DocumentedInit, TypeCorrect, VettedAlways, LockSafe, VersionsAlways, InFlightAlways, PTL DEF Spec

-----------------------------------------------------------------------------
(* Approvals and publications on record.                                    *)

\* The endpoints that take the meeting to a status without the snapshot of it,
\* and the forms that write back the whole row.
Bypasses == FormOps \cup {"transition", "reopen"}

\* There is a version left.
Room == Len(snapshots) < VersionLimit

LEMMA ApprovalsInit == Init => ApprovalsOnRecord
<1> SUFFICES ASSUME Init PROVE ApprovalsOnRecord
  OBVIOUS
<1>1. meeting.status \in Drafting
  BY RowsTyped DEF Init, NewRow
<1> QED
  BY <1>1 DEF ApprovalsOnRecord, Drafting

LEMMA ApprovalsStep ==
    ASSUME Ops \cap Bypasses = {}, TypeOK, CallsVetted, LockProtocol, VersionsInv, InFlight,
           Room => ApprovalsOnRecord, [Next]_vars
    PROVE  Room' => ApprovalsOnRecord'
<1>1. CASE UNCHANGED <<meeting, history, snapshots>>
  BY <1>1 DEF Room, ApprovalsOnRecord
<1>2. ASSUME NEW u \in Users, Commit(u), Room' PROVE ApprovalsOnRecord'
  <2>1. meeting'.status = call[u].target /\ snapshots \in Seq(SnapshotRows)
    BY <1>2, CommitAppends DEF NewEntry, TypeOK
  <2>2. /\ call[u].op \in ServiceOps \ {"transition", "reopen"}
        /\ call[u].target \in Targets[call[u].op]
    <3>1. Entitled(u) /\ Validated(u)
      BY <1>2 DEF Commit, CallsVetted
    <3> QED
      BY <3>1 DEF Entitled, Validated, Bypasses
  <2>3. /\ call[u].target = "APPROVED" => call[u].op = "approve"
        /\ call[u].target = "PUBLISHED" => call[u].op = "publish"
    BY <2>2 DEF ServiceOps, Targets
  <2>4. /\ pending = <<>> => snapshots' = snapshots
        /\ pending # <<>> =>
              /\ pending[1] \in SnapshotRows /\ snapshots' = Append(snapshots, pending[1])
              /\ pending[1].trigger = IF call[u].op = "approve" THEN "APPROVE" ELSE "PUBLISH"
    BY <1>2, CommitDocuments
  <2>5. CASE pending # <<>>
    <3>1. PICK p \in SnapshotRows : /\ snapshots' = Append(snapshots, p)
                                    /\ p.trigger = IF call[u].op = "approve" THEN "APPROVE" ELSE "PUBLISH"
      BY <2>4, <2>5
    <3>2. snapshots' # <<>> /\ snapshots'[Len(snapshots')] = p
      BY <2>1, <3>1
    <3> QED
      BY <2>1, <2>3, <3>1, <3>2 DEF ApprovalsOnRecord
  <2>6. CASE pending = <<>>
    <3>1. snapshots' = snapshots /\ Room
      BY <1>2, <2>4, <2>6 DEF Room
    <3>2. pc[u] # "snapped"
      BY <1>2, <2>6, CommitAppends DEF LockProtocol
    <3>3. ~SnapshotRefused(u)
      <4>1. NextVersion = Len(snapshots) + 1
        BY <2>1 DEF NextVersion, VersionsInv, SnapshotVersions
      <4>2. Len(snapshots) \in Nat /\ Len(snapshots) < VersionLimit
        BY <2>1, <3>1 DEF Room
      <4> QED
        BY <4>1, <4>2, LimitAssumption DEF SnapshotRefused
    <3>4. ~WantsSnapshot(u)
      BY <1>2, <3>2, <3>3 DEF Commit
    <3>5. call[u].op # "approve" /\ (call[u].op = "publish" => NewestIsPublish)
      BY <3>4 DEF WantsSnapshot
    <3> QED
      BY <2>1, <2>3, <3>1, <3>5 DEF ApprovalsOnRecord, NewestIsPublish
  <2> QED
    BY <2>5, <2>6
<1>3. Ops \cap FormOps = {}
  BY DEF Bypasses
<1> QED
  BY <1>1, <1>2, <1>3, OnlyCommitMoves

\* If the meeting is approved and published through the review buttons only,
\* its newest snapshot is the one of the approval or publication it is in, as
\* long as the version column has room.
THEOREM ApprovalsRecorded ==
    ASSUME Ops \cap Bypasses = {}
    PROVE  Spec => [](Room => ApprovalsOnRecord)
<1>1. TypeOK /\ CallsVetted /\ LockProtocol /\ VersionsInv /\ InFlight /\ (Room => ApprovalsOnRecord)
         /\ [Next]_vars => (Room => ApprovalsOnRecord)'
  BY ApprovalsStep
<1>2. Init => (Room => ApprovalsOnRecord)
  BY ApprovalsInit
<1> QED
  BY <1>1, <1>2, TypeCorrect, VettedAlways, LockSafe, VersionsAlways, InFlightAlways, PTL DEF Spec

-----------------------------------------------------------------------------
(* What an approval freezes.                                                *)

\* Whoever may still write a frozen meeting was under way when it was frozen.
WritersKnown == Frozen => Writing \subseteq meanwhile

\* The agenda is the one the snapshot in flight has read, unless someone who
\* may write was under way since.
SnapshotFresh ==
    pending # <<>> => Writing \subseteq racing /\ (racing = {} => agenda = pending[1].agenda)

\* A frozen meeting that nobody raced is the one of its newest snapshot.
FrozenWell ==
    Frozen /\ meanwhile = {} =>
        /\ ~refiled
        /\ meeting.status # "ARCHIVED" =>
              snapshots # <<>> /\ agenda = snapshots[Len(snapshots)].agenda

FreezeInv == WritersKnown /\ SnapshotFresh /\ (Room => FrozenWell)

\* Users without the superuser flag, on whom the status of the meeting bears.
Ordinary == \A u \in Users : "SUPERUSER" \notin RolesOf[u]

LEMMA FreezeStart == FreezeInit => FreezeInv
<1> SUFFICES ASSUME FreezeInit PROVE FreezeInv
  OBVIOUS
<1>1. meeting.status \in Drafting /\ pending = <<>>
  BY RowsTyped DEF FreezeInit, Init, NewRow
<1> QED
  BY <1>1 DEF FreezeInv, WritersKnown, SnapshotFresh, FrozenWell, Frozen, Drafting, NonEditable

\* No request that may write the agenda or a submission starts on a frozen
\* meeting.
LEMMA FrozenAdmitsNone ==
    ASSUME Ordinary, NEW u \in Users, NEW op \in DirectOps, NEW target, NEW reason,
           Admitted(op, RolesOf[u], meeting, target, reason)
    PROVE  ~Frozen
<1>1. "SUPERUSER" \notin RolesOf[u]
  BY DEF Ordinary
<1>2. CASE op = "agenda"
  BY <1>1, <1>2 DEF Admitted, CanEdit, Frozen
<1>3. CASE op = "upsert"
  BY <1>1, <1>3 DEF Admitted, CanSubmit, Frozen
<1> QED
  BY <1>2, <1>3 DEF DirectOps

\* How a step changes who may write, and who has written.
LEMMA WritersStep ==
    ASSUME Ordinary, Ops \cap Bypasses = {}, TypeOK, CallsVetted, LockProtocol, [Next]_vars
    PROVE  /\ Frozen => Writing' \subseteq Writing
           /\ agenda' # agenda => Writing # {} /\ UNCHANGED <<meeting, snapshots, pending>>
           /\ subs' # subs => Writing # {} \/ \E u \in Users : Commit(u)
           /\ meeting' # meeting => \E u \in Users : Commit(u)
<1>1. ASSUME NEW u \in Users, Load(u)
      PROVE  Frozen => Writing' \subseteq Writing
  <2> SUFFICES ASSUME Frozen, NEW v \in Writing' PROVE v \in Writing
    OBVIOUS
  <2>1. PICK op \in Ops, target \in Statuses, reason \in BOOLEAN :
           /\ Admitted(op, RolesOf[u], meeting, target, reason)
           /\ call' = [call EXCEPT ![u] = [op |-> op, target |-> target, reason |-> reason]]
    BY <1>1 DEF Load
  <2>2. op \notin DirectOps
    BY <2>1, FrozenAdmitsNone
  <2>3. v \in Users /\ pc'[v] = "loaded" /\ call'[v].op \in DirectOps
    BY DEF Writing
  <2>4. v # u
    BY <2>1, <2>2, <2>3 DEF TypeOK
  <2>5. pc[v] = "loaded" /\ call'[v] = call[v]
    BY <1>1, <2>1, <2>3, <2>4 DEF Load, TypeOK
  <2> QED
    BY <2>3, <2>5 DEF Writing
<1>2. ASSUME NEW u \in Users, pc' \in [Users -> Phases], pc'[u] # "loaded",
             \A v \in Users \ {u} : pc'[v] = pc[v] /\ call'[v] = call[v]
      PROVE  Writing' \subseteq Writing
  BY <1>2 DEF Writing
<1>3. ASSUME NEW u \in Users, Validate(u) \/ Acquire(u) \/ TakeSnapshot(u) \/ Reload(u)
      PROVE  Writing' \subseteq Writing
  <2>1. /\ pc' \in [Users -> Phases] /\ pc'[u] # "loaded"
        /\ \A v \in Users \ {u} : pc'[v] = pc[v] /\ call'[v] = call[v]
    BY <1>3 DEF Validate, Acquire, TakeSnapshot, Reload, TypeOK, Phases
  <2> QED
    BY <1>2, <2>1
<1>4. ASSUME NEW u \in Users, End(u) PROVE Writing' \subseteq Writing
  BY <1>2, <1>4, EndLocals
<1>5. \A u \in Users : ~Save(u)
  BY DEF Save, CallsVetted, Entitled, Bypasses
<1>6. ASSUME NEW u \in Users, Work(u) \/ Rollback(u)
      PROVE  Writing' \subseteq Writing
  BY <1>3, <1>4, <1>5, <1>6 DEF Work, Rollback, Refuse, Conflict, Commit, RefuseEdit, SaveAgenda, Upsert
<1>7. Frozen => Writing' \subseteq Writing
  BY <1>1, <1>6 DEF Next, vars, Writing
<1>8. ASSUME NEW u \in Users, SaveAgenda(u) \/ Upsert(u)
      PROVE  Writing # {} /\ UNCHANGED <<meeting, snapshots, pending>>
  <2>1. u \in Writing
    BY <1>8 DEF SaveAgenda, Upsert, Writing, DirectOps
  <2> QED
    BY <1>8, <2>1 DEF SaveAgenda, Upsert
<1>9. ASSUME NEW u \in Users, Load(u) \/ Rollback(u) \/ Validate(u) \/ Refuse(u) \/ Acquire(u) \/ Conflict(u)
                                \/ TakeSnapshot(u) \/ Reload(u) \/ RefuseEdit(u)
      PROVE  UNCHANGED <<agenda, subs, meeting>>
  BY <1>9 DEF Load, Rollback, Validate, Refuse, Acquire, Conflict, TakeSnapshot, Reload, RefuseEdit, db
<1>10. agenda' # agenda => \E u \in Users : SaveAgenda(u) \/ Upsert(u)
  BY <1>5, <1>9 DEF Next, Work, vars, Commit
<1>11. subs' # subs => \E u \in Users : SaveAgenda(u) \/ Upsert(u) \/ Commit(u)
  BY <1>5, <1>9 DEF Next, Work, vars
<1>12. meeting' # meeting => \E u \in Users : Commit(u)
  BY <1>5, <1>9 DEF Next, Work, vars, SaveAgenda, Upsert
<1> QED
  BY <1>7, <1>8, <1>10, <1>11, <1>12

\* Where the snapshot in flight comes from, and where it goes.
LEMMA FlightStep ==
    ASSUME Ops \cap Bypasses = {}, TypeOK, CallsVetted, LockProtocol, [Next]_vars, pending' # <<>>
    PROVE  \/ pending # <<>> /\ pending' = pending
           \/ pending = <<>> /\ pending'[1].agenda = agenda /\ agenda' = agenda
<1>1. ASSUME NEW u \in Users, TakeSnapshot(u)
      PROVE  pending = <<>> /\ pending'[1].agenda = agenda /\ agenda' = agenda
  <2>1. lock = u /\ pc[u] = "locked"
    BY <1>1 DEF TakeSnapshot, LockProtocol
  <2>2. pending = <<>>
    BY <2>1 DEF LockProtocol
  <2> QED
    BY <1>1, <2>2 DEF TakeSnapshot, db
<1>2. (\A u \in Users : ~TakeSnapshot(u)) => pending' = pending
  <2>1. \A u \in Users : Commit(u) => pending' = <<>>
    BY DEF Commit
  <2>2. \A u \in Users : Rollback(u) => pending' \in {pending, <<>>}
    BY DEF Rollback
  <2>3. ASSUME NEW u \in Users, Load(u) \/ Validate(u) \/ Refuse(u) \/ Acquire(u) \/ Conflict(u)
                                  \/ Reload(u) \/ RefuseEdit(u) \/ Save(u) \/ SaveAgenda(u) \/ Upsert(u)
        PROVE  pending' = pending
    BY <2>3 DEF Load, Validate, Refuse, Acquire, Conflict, Reload, RefuseEdit, Save, SaveAgenda, Upsert
  <2> QED
    BY <2>1, <2>2, <2>3 DEF Next, Work, vars
<1> QED
  BY <1>1, <1>2

\* A commit that inserts no snapshot freezes nothing but what was frozen, unless
\* it archives the meeting.
LEMMA CommitWithout ==
    ASSUME Ops \cap Bypasses = {}, TypeOK, CallsVetted, LockProtocol, VersionsInv, Room,
           NEW u \in Users, Commit(u), pending = <<>>, Frozen'
    PROVE  meeting'.status = "ARCHIVED" \/ (Frozen /\ meeting.status # "ARCHIVED")
<1>1. /\ lock = u /\ meeting'.status = call[u].target
      /\ call[u].target \in Moves(meeting.status) /\ meeting.status \in Statuses
      /\ snapshots \in Seq(SnapshotRows)
  BY CommitAppends DEF NewEntry, TypeOK, Rows
<1>2. /\ call[u].op \in ServiceOps \ {"transition", "reopen"}
      /\ call[u].target \in Targets[call[u].op]
  <2>1. Entitled(u) /\ Validated(u)
    BY DEF Commit, CallsVetted
  <2> QED
    BY <2>1 DEF Entitled, Validated, Bypasses
<1>3. call[u].target = "APPROVED" => call[u].op = "approve"
  BY <1>2 DEF ServiceOps, Targets
<1>4. call[u].op # "approve"
  <2>1. NextVersion = Len(snapshots) + 1
    BY <1>1 DEF NextVersion, VersionsInv, SnapshotVersions
  <2>2. Len(snapshots) \in Nat /\ Len(snapshots) < VersionLimit
    BY <1>1 DEF Room
  <2>3. ~SnapshotRefused(u)
    BY <2>1, <2>2, LimitAssumption DEF SnapshotRefused
  <2>4. pc[u] # "snapped"
    BY <1>1 DEF LockProtocol
  <2> QED
    BY <2>3, <2>4 DEF Commit, WantsSnapshot
<1>5. call[u].target \in {"PUBLISHED", "CLOSED", "ARCHIVED"}
  BY <1>1, <1>3, <1>4 DEF Frozen, NonEditable
<1>6. /\ "PUBLISHED" \in Moves(meeting.status) => meeting.status \in {"APPROVED", "CLOSED"}
      /\ "CLOSED" \in Moves(meeting.status) => meeting.status \in {"APPROVED", "PUBLISHED"}
  BY <1>1 DEF Moves, ValidTransitions, Statuses
<1> QED
  BY <1>1, <1>5, <1>6 DEF Frozen, NonEditable

LEMMA FreezeStep ==
    ASSUME Ordinary, Ops \cap Bypasses = {}, TypeOK, CallsVetted, LockProtocol, VersionsInv, InFlight,
           FreezeInv, [FreezeNext]_allvars
    PROVE  FreezeInv'
<1>1. CASE UNCHANGED allvars
  <2>1. UNCHANGED <<vars, racing, meanwhile, refiled>>
    BY <1>1 DEF allvars
  <2> QED
    BY <2>1 DEF vars, FreezeInv, WritersKnown, SnapshotFresh, FrozenWell, Frozen, Writing, Room
<1>2. CASE FreezeNext
  <2>1. /\ [Next]_vars
        /\ racing' = IF pending # <<>> THEN racing \cup Writing'
                     ELSE IF pending' # <<>> THEN Writing' ELSE racing
        /\ meanwhile' = IF snapshots' # snapshots THEN racing \cup Writing'
                        ELSE IF Frozen' /\ ~Frozen THEN Writing' ELSE meanwhile
        /\ refiled' = (meeting'.status = meeting.status /\ (refiled \/ subs' # subs))
    BY <1>2 DEF FreezeNext, Remember
  <2>2. /\ Frozen => Writing' \subseteq Writing
        /\ agenda' # agenda => Writing # {} /\ UNCHANGED <<meeting, snapshots, pending>>
        /\ subs' # subs => Writing # {} \/ \E u \in Users : Commit(u)
        /\ meeting' # meeting => \E u \in Users : Commit(u)
    BY <2>1, WritersStep
  <2>3. WritersKnown'
    BY <2>1, <2>2 DEF FreezeInv, WritersKnown
  <2>4. SnapshotFresh'
    <3> SUFFICES ASSUME pending' # <<>>
                 PROVE  Writing' \subseteq racing' /\ (racing' = {} => agenda' = pending'[1].agenda)
      BY DEF SnapshotFresh
    <3>1. \/ pending # <<>> /\ pending' = pending
          \/ pending = <<>> /\ pending'[1].agenda = agenda /\ agenda' = agenda
      BY <2>1, FlightStep
    <3>2. CASE pending # <<>> /\ pending' = pending
      <4>1. Writing \subseteq racing /\ (racing = {} => agenda = pending[1].agenda)
        BY <3>2 DEF FreezeInv, SnapshotFresh
      <4>2. racing' = racing \cup Writing'
        BY <2>1, <3>2
      <4> QED
        BY <2>2, <3>2, <4>1, <4>2
    <3>3. CASE pending = <<>> /\ pending'[1].agenda = agenda /\ agenda' = agenda
      BY <2>1, <3>3
    <3> QED
      BY <3>1, <3>2, <3>3
  <2>5. ASSUME Room', Frozen', meanwhile' = {}
        PROVE  /\ ~refiled'
               /\ meeting'.status # "ARCHIVED" =>
                     snapshots' # <<>> /\ agenda' = snapshots'[Len(snapshots')].agenda
    <3>1. ASSUME NEW u \in Users, Commit(u)
          PROVE  /\ ~refiled'
                 /\ meeting'.status # "ARCHIVED" =>
                       snapshots' # <<>> /\ agenda' = snapshots'[Len(snapshots')].agenda
      <4>1. meeting'.status # meeting.status /\ agenda' = agenda /\ snapshots \in Seq(SnapshotRows)
        BY <3>1, CommitAppends DEF Moves, Commit, TypeOK
      <4>2. ~refiled'
        BY <2>1, <4>1
      <4>3. CASE pending # <<>>
        <5>1. PICK p \in SnapshotRows : p = pending[1] /\ snapshots' = Append(snapshots, p)
          BY <3>1, <4>3, CommitDocuments
        <5>2. snapshots' # snapshots /\ snapshots' # <<>> /\ snapshots'[Len(snapshots')] = p
          BY <4>1, <5>1
        <5>3. racing = {}
          BY <2>1, <2>5, <5>2
        <5> QED
          BY <4>1, <4>2, <4>3, <5>1, <5>2, <5>3 DEF FreezeInv, SnapshotFresh
      <4>4. CASE pending = <<>>
        <5>1. snapshots' = snapshots
          BY <3>1, <4>4, CommitDocuments
        <5>2. Room
          BY <2>5, <5>1 DEF Room
        <5>3. meeting'.status = "ARCHIVED" \/ (Frozen /\ meeting.status # "ARCHIVED")
          BY <2>5, <3>1, <4>4, <5>2, CommitWithout
        <5>4. CASE Frozen /\ meeting.status # "ARCHIVED"
          <6>1. meanwhile = {}
            BY <2>1, <2>5, <5>1, <5>4
          <6> QED
            BY <4>1, <4>2, <5>1, <5>2, <5>4, <6>1 DEF FreezeInv, FrozenWell
        <5> QED
          BY <4>2, <5>3, <5>4
      <4> QED
        BY <4>3, <4>4
    <3>2. CASE \A u \in Users : ~Commit(u)
      <4>1. meeting' = meeting /\ snapshots' = snapshots
        BY <2>1, <2>2, <3>2, OnlyCommitWrites
      <4>2. Frozen /\ Room
        BY <2>5, <4>1 DEF Frozen, Room
      <4>3. meanwhile = {}
        BY <2>1, <2>5, <4>1, <4>2
      <4>4. Writing = {}
        BY <4>2, <4>3 DEF FreezeInv, WritersKnown
      <4>5. agenda' = agenda /\ subs' = subs
        BY <2>2, <3>2, <4>4
      <4> QED
        BY <2>1, <4>1, <4>2, <4>3, <4>5 DEF FreezeInv, FrozenWell
    <3> QED
      BY <3>1, <3>2
  <2>6. (Room => FrozenWell)'
    BY <2>5 DEF FrozenWell
  <2> QED
    BY <2>3, <2>4, <2>6 DEF FreezeInv
<1> QED
  BY <1>1, <1>2

\* Requests that start after an approval or a publication do not get past it:
\* as long as the version column has room, an approved or published meeting
\* that no request raced has the agenda of its newest snapshot, and the
\* submissions of a frozen one stay as they are.  For users who are not
\* superusers, and if statuses move by the review buttons only.
THEOREM ApprovalsFreeze ==
    ASSUME Ordinary, Ops \cap Bypasses = {}
    PROVE  FreezeSpec => [](Room => FrozenWhenApproved)
<1>1. TypeOK /\ CallsVetted /\ LockProtocol /\ VersionsInv /\ InFlight /\ FreezeInv
         /\ [FreezeNext]_allvars => FreezeInv'
  BY FreezeStep
<1>2. FreezeInit => Init
  BY DEF FreezeInit
<1>3. [FreezeNext]_allvars => [Next]_vars
  BY DEF FreezeNext, allvars
<1>4. FreezeInv => (Room => FrozenWhenApproved)
  BY DEF FreezeInv, FrozenWell, FrozenWhenApproved
<1>5. FreezeSpec => Spec
  BY <1>2, <1>3, PTL DEF FreezeSpec, Spec
<1> QED
  BY <1>1, <1>4, <1>5, FreezeStart, TypeCorrect, VettedAlways, LockSafe, VersionsAlways, InFlightAlways,
     PTL DEF FreezeSpec
=============================================================================
