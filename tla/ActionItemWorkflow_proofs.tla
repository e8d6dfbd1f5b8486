--------------------- MODULE ActionItemWorkflow_proofs ----------------------
(***************************************************************************)
(* Proofs about ActionItemWorkflow for any users, roles, endpoints,        *)
(* percentages and bounds.                                                 *)
(***************************************************************************)
EXTENDS ActionItemWorkflow, TableFacts, FiniteSetTheorems, TLAPS

LEMMA BlanksTyped == BlankRow \in Rows /\ NoCall \in Calls
  BY DEF BlankRow, Rows, NoCall, Calls, AllOps, Statuses, Active

\* A form changes three columns and keeps the others.
LEMMA PostedRows ==
    ASSUME NEW row \in Rows, NEW s \in FormStatuses, NEW n \in Percents, NEW b \in BOOLEAN
    PROVE  /\ Posted(row, s, n, b) \in Rows
           /\ Posted(row, s, n, b).status = s
           /\ Posted(row, s, n, b).done = row.done
           /\ Posted(row, s, n, b).reopened = row.reopened
<1>1. s \in Statuses /\ n \in 0..100
  BY PercentsAssumption DEF FormStatuses, Statuses, Active
<1> QED
  BY <1>1 DEF Posted, Rows

\* What a transition makes of the row.
LEMMA MovedRows ==
    \A judged, locked \in Rows, t \in Statuses :
       /\ Moved(judged, locked, t) \in Rows
       /\ Moved(judged, locked, t).status = t
       /\ t = "COMPLETED" => Moved(judged, locked, t).progress = 100
       /\ Moved(judged, locked, t).reopened
            = IF t = "REOPENED" THEN locked.reopened + 1 ELSE locked.reopened
<1> SUFFICES ASSUME NEW judged \in Rows, NEW locked \in Rows, NEW t \in Statuses
             PROVE  /\ Moved(judged, locked, t) \in Rows
                    /\ Moved(judged, locked, t).status = t
                    /\ t = "COMPLETED" => Moved(judged, locked, t).progress = 100
                    /\ Moved(judged, locked, t).reopened
                         = IF t = "REOPENED" THEN locked.reopened + 1 ELSE locked.reopened
  OBVIOUS
<1>1. /\ ProgressAfter(judged.progress, t) \in 0..100
      /\ t = "COMPLETED" => ProgressAfter(judged.progress, t) = 100
  BY DEF ProgressAfter, Rows
<1>2. /\ (t = "COMPLETED" \/ (locked.done /\ locked.status # "COMPLETED")) \in BOOLEAN
      /\ (IF t = "REOPENED" THEN locked.reopened + 1 ELSE locked.reopened) \in Nat
  BY DEF Rows
<1>3. Moved(judged, locked, t) \in Rows
  BY <1>1, <1>2 DEF Moved, Rows
<1>4. /\ Moved(judged, locked, t).status = t
      /\ t = "COMPLETED" => Moved(judged, locked, t).progress = 100
  BY <1>1 DEF Moved, Rows
<1>5. Moved(judged, locked, t).reopened
        = IF t = "REOPENED" THEN locked.reopened + 1 ELSE locked.reopened
  BY DEF Moved, Rows
<1> QED
  BY <1>3, <1>4, <1>5

\* The completion stamp of the moved row.
LEMMA MovedStamp ==
    \A judged, locked \in Rows, t \in Statuses :
       Moved(judged, locked, t).done
         = (t = "COMPLETED" \/ (locked.done /\ locked.status # "COMPLETED"))
  BY DEF Moved, Rows

LEMMA InitTyped == Init => TypeOK
<1> SUFFICES ASSUME Init PROVE TypeOK
  OBVIOUS
<1>1. item \in Rows
  BY BlanksTyped, PostedRows DEF Init
<1>2. history \in Seq(HistoryRows)
  BY DEF Init
<1> QED
  BY <1>1, <1>2, BlanksTyped DEF Init, TypeOK, Phases

\* A request that ends leaves its locals blank and those of the others alone.
LEMMA EndLocals ==
    ASSUME TypeOK, NEW u \in Users, End(u)
    PROVE  /\ pc' \in [Users -> Phases] /\ call' \in [Users -> Calls]
           /\ checked' \in [Users -> Rows] /\ held' \in [Users -> Rows]
           /\ copy' \in [Users -> Rows]
           /\ pc'[u] = "idle"
           /\ \A v \in Users \ {u} : /\ pc'[v] = pc[v] /\ call'[v] = call[v]
                                     /\ checked'[v] = checked[v] /\ held'[v] = held[v]
                                     /\ copy'[v] = copy[v]
  BY BlanksTyped DEF End, TypeOK, Phases

\* What Commit writes.
LEMMA CommitTyped ==
    ASSUME TypeOK, NEW u \in Users, Commit(u)
    PROVE  /\ item' \in Rows
           /\ NewEntry(u) \in HistoryRows
           /\ history' = Append(history, NewEntry(u)) /\ history' \in Seq(HistoryRows)
           /\ item'.status = call[u].target
           /\ call[u].target = "COMPLETED" => item'.progress = 100
           /\ item'.done = (\/ call[u].target = "COMPLETED"
                            \/ held[u].done /\ held[u].status # "COMPLETED")
           /\ item'.reopened = IF call[u].target = "REOPENED"
                               THEN held[u].reopened + 1 ELSE held[u].reopened
<1>1. /\ checked[u] \in Rows /\ held[u] \in Rows /\ call[u].target \in Statuses
      /\ call[u].reason \in BOOLEAN
  BY DEF TypeOK, Calls
<1>2. NewEntry(u) \in HistoryRows
  BY <1>1 DEF NewEntry, HistoryRows, Rows
<1>3. history' = Append(history, NewEntry(u)) /\ history' \in Seq(HistoryRows)
  BY <1>2 DEF Commit, TypeOK
<1>4. item' = Moved(checked[u], held[u], call[u].target)
  BY DEF Commit
<1>5. item' \in Rows
  BY <1>1, <1>4, MovedRows
<1>6. item'.status = call[u].target
  BY <1>1, <1>4, MovedRows
<1>7. call[u].target = "COMPLETED" => item'.progress = 100
  BY <1>1, <1>4, MovedRows
<1>8. item'.reopened = IF call[u].target = "REOPENED"
                       THEN held[u].reopened + 1 ELSE held[u].reopened
  BY <1>1, <1>4, MovedRows
<1>9. item'.done = (call[u].target = "COMPLETED" \/ (held[u].done /\ held[u].status # "COMPLETED"))
  BY <1>1, <1>4, MovedStamp
<1> QED
  BY <1>2, <1>3, <1>5, <1>6, <1>7, <1>8, <1>9

\* Every action leaves every variable in its type.
LEMMA StepTyped == TypeOK /\ [Next]_vars => TypeOK'
<1> SUFFICES ASSUME TypeOK, [Next]_vars PROVE TypeOK'
  OBVIOUS
<1> USE DEF TypeOK
<1>1. ASSUME NEW u \in Users, Load(u) PROVE TypeOK'
  <2>1. PICK op \in Ops, target \in Statuses, reason \in BOOLEAN :
           call' = [call EXCEPT ![u] = [op |-> op, target |-> target, reason |-> reason]]
    BY <1>1 DEF Load
  <2>2. [op |-> op, target |-> target, reason |-> reason] \in Calls
    BY OpsAssumption DEF Calls
  <2>3. call' \in [Users -> Calls]
    BY <2>1, <2>2
  <2> QED
    BY <1>1, <2>3 DEF Load, db, Phases
<1>2. ASSUME NEW u \in Users, Validate(u) PROVE TypeOK'
  BY <1>2 DEF Validate, db, Phases
<1>3. ASSUME NEW u \in Users, Refuse(u) \/ Vanished(u) \/ RefuseForm(u) PROVE TypeOK'
  BY <1>3, EndLocals DEF Refuse, Vanished, RefuseForm, db
<1>4. ASSUME NEW u \in Users, Acquire(u) PROVE TypeOK'
  BY <1>4 DEF Acquire, db, Phases
<1>5. ASSUME NEW u \in Users, Commit(u) PROVE TypeOK'
  BY <1>5, CommitTyped, EndLocals DEF Commit
<1>6. ASSUME NEW u \in Users, Rollback(u) PROVE TypeOK'
  BY <1>6, EndLocals DEF Rollback, db
<1>7. ASSUME NEW u \in Users, Reload(u) PROVE TypeOK'
  BY <1>7 DEF Reload, db, Phases
<1>8. ASSUME NEW u \in Users, Save(u) PROVE TypeOK'
  BY <1>8, EndLocals, PostedRows DEF Save
<1>9. ASSUME NEW u \in Users, Delete(u) PROVE TypeOK'
  <2>1. history' \in Seq(HistoryRows)
    BY <1>9 DEF Delete
  <2> QED
    BY <1>9, <2>1, EndLocals DEF Delete
<1>10. CASE UNCHANGED vars
  BY <1>10 DEF vars
<1> QED
  BY <1>1, <1>2, <1>3, <1>4, <1>5, <1>6, <1>7, <1>8, <1>9, <1>10 DEF Next

\* Type correctness of the workflow: progress stays within 0..100 although
\* save() never validates it.
THEOREM TypeCorrect == Spec => []TypeOK
  BY InitTyped, StepTyped, PTL DEF Spec

-----------------------------------------------------------------------------
(* The row lock.                                                           *)

\* The row belongs to the requests past Acquire and nobody else, and it is
\* still as they read it.
RowHeld ==
    \A u \in Users :
        /\ pc[u] = "locked" <=> lock = u
        /\ pc[u] = "locked" => present /\ held[u] = item

LEMMA RowHeldStep == TypeOK /\ RowHeld /\ [Next]_vars => RowHeld'
<1> SUFFICES ASSUME TypeOK, RowHeld, [Next]_vars PROVE RowHeld'
  OBVIOUS
<1> USE DEF RowHeld
<1>1. ASSUME NEW u \in Users, pc[u] # "locked", pc'[u] # "locked", UNCHANGED <<db, lock>>,
             \A v \in Users \ {u} : pc'[v] = pc[v] /\ held'[v] = held[v]
      PROVE  RowHeld'
  BY <1>1 DEF db
<1>2. ASSUME NEW u \in Users, Load(u) \/ Validate(u) \/ Reload(u) PROVE RowHeld'
  <2>1. /\ pc[u] # "locked" /\ pc'[u] # "locked" /\ UNCHANGED <<db, lock, held>>
        /\ \A v \in Users \ {u} : pc'[v] = pc[v]
    BY <1>2 DEF Load, Validate, Reload, TypeOK
  <2> QED
    BY <1>1, <2>1
<1>3. ASSUME NEW u \in Users, Refuse(u) \/ Vanished(u) \/ RefuseForm(u) PROVE RowHeld'
  <2>1. End(u) /\ pc[u] # "locked" /\ UNCHANGED <<db, lock>>
    BY <1>3 DEF Refuse, Vanished, RefuseForm
  <2> QED
    BY <1>1, <2>1, EndLocals
<1>4. ASSUME NEW u \in Users, Acquire(u) PROVE RowHeld'
  <2>1. /\ lock = NoUser /\ present /\ lock' = u /\ UNCHANGED db
        /\ pc'[u] = "locked" /\ held'[u] = item
        /\ \A v \in Users \ {u} : pc'[v] = pc[v] /\ held'[v] = held[v]
    BY <1>4 DEF Acquire, TypeOK
  <2>2. \A v \in Users : pc[v] # "locked"
    BY <2>1, UsersAssumption
  <2> QED
    BY <2>1, <2>2 DEF db
<1>5. ASSUME NEW u \in Users, Commit(u) \/ Rollback(u) PROVE RowHeld'
  <2>1. /\ End(u) /\ lock' = IF lock = u THEN NoUser ELSE lock
        /\ lock = u \/ UNCHANGED db
    BY <1>5 DEF Commit, Rollback
  <2> QED
    BY <2>1, EndLocals, UsersAssumption DEF db
<1>6. ASSUME NEW u \in Users, Save(u) \/ Delete(u) PROVE RowHeld'
  <2>1. End(u) /\ lock = NoUser /\ lock' = lock
    BY <1>6 DEF Save, Delete
  <2>2. \A v \in Users : pc[v] # "locked"
    BY <2>1, UsersAssumption
  <2> QED
    BY <2>1, <2>2, EndLocals, UsersAssumption
<1>7. CASE UNCHANGED vars
  BY <1>7 DEF vars
<1> QED
  BY <1>2, <1>3, <1>4, <1>5, <1>6, <1>7 DEF Next

LEMMA RowHeldAlways == Spec => []RowHeld
<1>1. Init => RowHeld
  BY UsersAssumption DEF Init, RowHeld
<1> QED
  BY <1>1, RowHeldStep, TypeCorrect, PTL DEF Spec

-----------------------------------------------------------------------------
(* What the phase of a request says about what it asks for.                *)

CallsVetted ==
    \A u \in Users :
        /\ pc[u] # "idle" => call[u].op \in Ops
        /\ pc[u] = "editing" => call[u].op = "edit"
        /\ pc[u] \in {"checked", "locked"} =>
              /\ call[u].op \in ServiceOps
              /\ call[u].target = "REOPENED" => call[u].reason /\ IsAdmin(RolesOf[u])

\* Items are only reopened from statuses where a reason is required.
LEMMA ReopeningsVetted ==
    \A R, reason : \A s \in Statuses :
        EdgeAllowed(R, s, "REOPENED", reason) => reason /\ IsAdmin(R)
  BY DEF EdgeAllowed, Statuses, Active, Terminal, ValidTransitions, ReasonEdges

LEMMA CallsVettedStep == TypeOK /\ CallsVetted /\ [Next]_vars => CallsVetted'
<1> SUFFICES ASSUME TypeOK, CallsVetted, [Next]_vars PROVE CallsVetted'
  OBVIOUS
<1> USE DEF CallsVetted
<1>1. ASSUME NEW u \in Users, End(u) PROVE CallsVetted'
  BY <1>1, EndLocals
<1>2. ASSUME NEW u \in Users, Load(u) PROVE CallsVetted'
  <2>1. PICK op \in Ops, target \in Statuses, reason \in BOOLEAN :
           call' = [call EXCEPT ![u] = [op |-> op, target |-> target, reason |-> reason]]
    BY <1>2 DEF Load
  <2>2. call'[u].op \in Ops /\ pc'[u] = "loaded"
    BY <1>2, <2>1 DEF Load, TypeOK
  <2>3. \A v \in Users \ {u} : pc'[v] = pc[v] /\ call'[v] = call[v]
    BY <1>2, <2>1 DEF Load, TypeOK
  <2> QED
    BY <2>2, <2>3
<1>3. ASSUME NEW u \in Users, Validate(u) PROVE CallsVetted'
  <2>1. /\ pc[u] = "loaded" /\ call[u].op \in ServiceOps /\ call' = call
        /\ EdgeAllowed(RolesOf[u], item.status, call[u].target, call[u].reason)
    BY <1>3 DEF Validate, TransitionAllowed
  <2>2. item.status \in Statuses
    BY DEF TypeOK, Rows
  <2>3. call[u].target = "REOPENED" => call[u].reason /\ IsAdmin(RolesOf[u])
    BY <2>1, <2>2, ReopeningsVetted
  <2>4. pc'[u] = "checked" /\ \A v \in Users \ {u} : pc'[v] = pc[v]
    BY <1>3 DEF Validate, TypeOK
  <2> QED
    BY <2>1, <2>3, <2>4
<1>4. ASSUME NEW u \in Users, Acquire(u) \/ Reload(u) PROVE CallsVetted'
  <2>1. /\ call' = call /\ \A v \in Users \ {u} : pc'[v] = pc[v]
        /\ \/ pc[u] = "checked" /\ pc'[u] = "locked"
           \/ pc[u] = "loaded" /\ pc'[u] = "editing" /\ call[u].op = "edit"
    BY <1>4 DEF Acquire, Reload, TypeOK
  <2> QED
    BY <2>1
<1>5. CASE UNCHANGED vars
  BY <1>5 DEF vars
<1> QED
  BY <1>1, <1>2, <1>3, <1>4, <1>5 DEF Next, Refuse, Vanished, RefuseForm, Commit, Rollback,
                                      Save, Delete

LEMMA VettedAlways == Spec => []CallsVetted
<1>1. Init => CallsVetted
  BY DEF Init, CallsVetted
<1> QED
  BY <1>1, CallsVettedStep, TypeCorrect, PTL DEF Spec

-----------------------------------------------------------------------------
(* Reopenings.                                                             *)

\* The history only grows by a commit and only shrinks with the whole item.
LEMMA HistoryWrites ==
    [Next]_vars => \/ UNCHANGED history
                   \/ history' = <<>>
                   \/ \E u \in Users : Commit(u)
  BY DEF Next, vars, db, Load, Validate, Refuse, Acquire, Vanished, Rollback, Reload, RefuseForm,
         Save, Delete

LEMMA ReopenedStep ==
    TypeOK /\ CallsVetted /\ ReopenedByAdmin /\ [Next]_vars => ReopenedByAdmin'
<1> SUFFICES ASSUME TypeOK, CallsVetted, ReopenedByAdmin, [Next]_vars PROVE ReopenedByAdmin'
  OBVIOUS
<1> USE DEF ReopenedByAdmin
<1>1. ASSUME NEW u \in Users, Commit(u) PROVE ReopenedByAdmin'
  <2>1. /\ history \in Seq(HistoryRows) /\ NewEntry(u) \in HistoryRows
        /\ history' = Append(history, NewEntry(u))
    BY <1>1, CommitTyped DEF TypeOK
  <2>2. /\ NewEntry(u).by = u
        /\ NewEntry(u).to = "REOPENED" => NewEntry(u).reason /\ IsAdmin(RolesOf[u])
    BY <1>1 DEF Commit, CallsVetted, NewEntry
  <2> PICK e : e = NewEntry(u)
    OBVIOUS
  <2>3. \A i \in DOMAIN history' : \/ history'[i] = e
                                   \/ i \in DOMAIN history /\ history'[i] = history[i]
    BY <2>1, AppendRows
  <2> QED
    BY <2>2, <2>3
<1>2. CASE UNCHANGED history
  BY <1>2
<1>3. CASE history' = <<>>
  BY <1>3
<1> QED
  BY <1>1, <1>2, <1>3, HistoryWrites

\* Whatever the item was when a request was judged and whatever it is when the
\* row is written, only administrators reopen, and with a reason.
THEOREM ReopeningIsAdmins == Spec => []ReopenedByAdmin
<1>1. Init => ReopenedByAdmin
  BY DEF Init, ReopenedByAdmin
<1> QED
  BY <1>1, ReopenedStep, TypeCorrect, VettedAlways, PTL DEF Spec

-----------------------------------------------------------------------------
(* The completion stamp.                                                   *)

RowAgrees(row) ==
    /\ row.done <=> row.status = "COMPLETED"
    /\ row.status = "COMPLETED" => row.progress = 100

\* Edit forms hold copies of items that were not terminal.
RowsAgree ==
    /\ present => RowAgrees(item)
    /\ \A u \in Users : pc[u] = "editing" => RowAgrees(copy[u]) /\ copy[u].status \notin Terminal

LEMMA RowsAgreeStep ==
    TypeOK /\ RowHeld /\ RowsAgree /\ [Next]_vars => RowsAgree'
<1> SUFFICES ASSUME TypeOK, RowHeld, RowsAgree, [Next]_vars PROVE RowsAgree'
  OBVIOUS
<1>1. ASSUME NEW u \in Users, End(u)
      PROVE  \A v \in Users : pc'[v] = "editing" => pc[v] = "editing" /\ copy'[v] = copy[v]
  BY <1>1, EndLocals
<1>2. ASSUME UNCHANGED <<item, present>>,
             \A v \in Users : pc'[v] = "editing" => pc[v] = "editing" /\ copy'[v] = copy[v]
      PROVE  RowsAgree'
  BY <1>2 DEF RowsAgree, RowAgrees
<1>3. ASSUME NEW u \in Users, Load(u) \/ Validate(u) \/ Acquire(u) PROVE RowsAgree'
  <2>1. /\ UNCHANGED <<item, present, copy>> /\ pc'[u] \in {"loaded", "checked", "locked"}
        /\ \A v \in Users \ {u} : pc'[v] = pc[v]
    BY <1>3 DEF Load, Validate, Acquire, TypeOK, db
  <2> QED
    BY <1>2, <2>1
<1>4. ASSUME NEW u \in Users, Refuse(u) \/ Vanished(u) \/ RefuseForm(u) \/ Rollback(u)
      PROVE  RowsAgree'
  <2>1. End(u) /\ UNCHANGED <<item, present>>
    BY <1>4 DEF Refuse, Vanished, RefuseForm, Rollback, db
  <2> QED
    BY <1>1, <1>2, <2>1
<1>5. ASSUME NEW u \in Users, Commit(u) PROVE RowsAgree'
  <2>1. present /\ held[u] = item
    BY <1>5 DEF Commit, RowHeld
  <2>2. /\ item'.status = call[u].target
        /\ call[u].target = "COMPLETED" => item'.progress = 100
        /\ item'.done = (\/ call[u].target = "COMPLETED"
                         \/ held[u].done /\ held[u].status # "COMPLETED")
    BY <1>5, CommitTyped
  <2>3. item.done <=> item.status = "COMPLETED"
    BY <2>1 DEF RowsAgree, RowAgrees
  <2>4. RowAgrees(item')
    BY <2>1, <2>2, <2>3 DEF RowAgrees
  <2>5. \A v \in Users : pc'[v] = "editing" => pc[v] = "editing" /\ copy'[v] = copy[v]
    BY <1>1, <1>5 DEF Commit
  <2> QED
    BY <2>4, <2>5 DEF RowsAgree, RowAgrees
<1>6. ASSUME NEW u \in Users, Reload(u) PROVE RowsAgree'
  <2>1. /\ UNCHANGED <<item, present>> /\ copy'[u] = item
        /\ RowAgrees(item) /\ item.status \notin Terminal
        /\ \A v \in Users \ {u} : pc'[v] = pc[v] /\ copy'[v] = copy[v]
    BY <1>6 DEF Reload, db, TypeOK, RowsAgree
  <2> QED
    BY <2>1 DEF RowsAgree, RowAgrees
<1>7. ASSUME NEW u \in Users, Save(u) PROVE RowsAgree'
  <2>1. PICK s \in FormStatuses, n \in Percents, b \in BOOLEAN : item' = Posted(copy[u], s, n, b)
    BY <1>7 DEF Save
  <2>2. copy[u] \in Rows /\ ~copy[u].done
    BY <1>7 DEF Save, RowsAgree, RowAgrees, Terminal, TypeOK
  <2>3. item'.status \in FormStatuses /\ ~item'.done
    BY <2>1, <2>2, PostedRows
  <2>4. RowAgrees(item')
    BY <2>3 DEF RowAgrees, FormStatuses
  <2>5. \A v \in Users : pc'[v] = "editing" => pc[v] = "editing" /\ copy'[v] = copy[v]
    BY <1>1, <1>7 DEF Save
  <2> QED
    BY <2>4, <2>5 DEF RowsAgree, RowAgrees
<1>8. ASSUME NEW u \in Users, Delete(u) PROVE RowsAgree'
  <2>1. ~present' /\ \A v \in Users : pc'[v] = "editing" => pc[v] = "editing" /\ copy'[v] = copy[v]
    BY <1>1, <1>8 DEF Delete
  <2> QED
    BY <2>1 DEF RowsAgree, RowAgrees
<1>9. CASE UNCHANGED vars
  BY <1>9, <1>2 DEF vars
<1> QED
  BY <1>3, <1>4, <1>5, <1>6, <1>7, <1>8, <1>9 DEF Next

LEMMA RowsAgreeInit == Init => RowsAgree
<1> SUFFICES ASSUME Init PROVE RowsAgree
  OBVIOUS
<1>1. PICK s \in FormStatuses, n \in Percents, b \in BOOLEAN : item = Posted(BlankRow, s, n, b)
  BY DEF Init
<1>2. item.status \in FormStatuses /\ item.done = BlankRow.done
  BY <1>1, BlanksTyped, PostedRows
<1>3. ~item.done
  BY <1>2 DEF BlankRow
<1> QED
  BY <1>2, <1>3 DEF Init, RowsAgree, RowAgrees, FormStatuses

\* However stale the row a request judged or a form copied, and although save()
\* never calls clean(), the completion stamp and the progress of every row that
\* is or may be written agree with its status.
THEOREM CompletionStamped == Spec => []CompletionAgrees
<1>1. RowsAgree => CompletionAgrees
  BY DEF RowsAgree, RowAgrees, CompletionAgrees, LiveRows
<1> QED
  BY <1>1, RowsAgreeInit, RowsAgreeStep, TypeCorrect, RowHeldAlways, PTL DEF Spec

-----------------------------------------------------------------------------
(* The history, when only the status endpoints are served.                 *)

\* Then only a commit writes the item or its history.
LEMMA OnlyCommitMoves ==
    ASSUME Ops \subseteq ServiceOps, CallsVetted, [Next]_vars
    PROVE  UNCHANGED <<item, history>> \/ \E u \in Users : Commit(u)
<1>1. \A u \in Users : ~Save(u) /\ ~Delete(u)
  BY DEF Save, Delete, CallsVetted, ServiceOps
<1> QED
  BY <1>1 DEF Next, vars, db, Load, Validate, Refuse, Acquire, Vanished, Rollback, Reload,
              RefuseForm

\* What a commit then does to the item and to its history.
LEMMA CommitAppends ==
    ASSUME TypeOK, RowHeld, NEW u \in Users, Commit(u)
    PROVE  \E e \in HistoryRows :
              /\ history' = Append(history, e)
              /\ e.from = item.status /\ e.to = item'.status /\ e.to = call[u].target
              /\ item'.reopened = IF e.to = "REOPENED" THEN item.reopened + 1 ELSE item.reopened
<1>1. held[u] = item
  BY DEF Commit, RowHeld
<1>2. NewEntry(u).from = item.status /\ NewEntry(u).to = call[u].target
  BY <1>1 DEF NewEntry
<1> QED
  BY <1>1, <1>2, CommitTyped

LEMMA ChainStep ==
    ASSUME Ops \subseteq ServiceOps, TypeOK, CallsVetted, RowHeld, HistoryChain, [Next]_vars
    PROVE  HistoryChain'
<1>1. CASE UNCHANGED <<item, history>>
  BY <1>1 DEF HistoryChain
<1>2. ASSUME NEW u \in Users, Commit(u) PROVE HistoryChain'
  <2>1. PICK e \in HistoryRows : /\ history' = Append(history, e)
                                 /\ e.from = item.status /\ e.to = item'.status
    BY <1>2, CommitAppends
  <2>2. history \in Seq(HistoryRows)
    BY DEF TypeOK
  <2>3. /\ Len(history') = Len(history) + 1 /\ Len(history) \in Nat
        /\ history'[Len(history) + 1] = e
        /\ \A i \in 1..Len(history) : history'[i] = history[i]
    BY <2>1, <2>2, AppendRows
  <2>4. history' # <<>> /\ item'.status = history'[Len(history')].to
    BY <2>1, <2>2, <2>3
  <2>5. CASE history = <<>>
    <3>1. Len(history') = 1 /\ history'[1] = e
      BY <2>3, <2>5
    <3>2. \A i \in 2..Len(history') : history'[i].from = history'[i - 1].to
      BY <3>1
    <3>3. history'[1].from \in FormStatuses
      BY <2>1, <2>5, <3>1 DEF HistoryChain
    <3> QED
      BY <2>4, <3>2, <3>3 DEF HistoryChain
  <2>6. CASE history # <<>>
    <3>1. Len(history) # 0
      BY <2>2, <2>6, EmptySeq
    <3>2. /\ history[1].from \in FormStatuses /\ item.status = history[Len(history)].to
          /\ \A i \in 2..Len(history) : history[i].from = history[i - 1].to
      BY <2>6 DEF HistoryChain
    <3>3. history'[1].from \in FormStatuses
      BY <2>3, <3>1, <3>2
    <3>4. ASSUME NEW i \in 2..Len(history') PROVE history'[i].from = history'[i - 1].to
      <4>1. i - 1 \in 1..Len(history)
        BY <2>3, <3>4
      <4>2. CASE i = Len(history) + 1
        BY <2>1, <2>3, <3>1, <3>2, <4>1, <4>2
      <4>3. CASE i \in 2..Len(history)
        BY <2>3, <3>2, <4>1, <4>3
      <4>4. i = Len(history) + 1 \/ i \in 2..Len(history)
        BY <2>3, <3>4
      <4> QED
        BY <4>2, <4>3, <4>4
    <3> QED
      BY <2>4, <3>3, <3>4 DEF HistoryChain
  <2> QED
    BY <2>5, <2>6
<1> QED
  BY <1>1, <1>2, OnlyCommitMoves

LEMMA ChainInit == Init => HistoryChain
<1> SUFFICES ASSUME Init PROVE HistoryChain
  OBVIOUS
<1>1. PICK s \in FormStatuses, n \in Percents, b \in BOOLEAN : item = Posted(BlankRow, s, n, b)
  BY DEF Init
<1>2. item.status \in FormStatuses
  BY <1>1, BlanksTyped, PostedRows
<1> QED
  BY <1>2 DEF Init, HistoryChain

\* If neither the edit form nor deletion is served, the history is one chain
\* from a creation status to the current one: the row lock alone is enough for
\* that, without comparing what was judged with what is locked.
THEOREM ChainUnbroken ==
    ASSUME Ops \subseteq ServiceOps
    PROVE  Spec => []HistoryChain
<1>1. TypeOK /\ CallsVetted /\ RowHeld /\ HistoryChain /\ [Next]_vars => HistoryChain'
  BY ChainStep
<1> QED
  BY <1>1, ChainInit, TypeCorrect, VettedAlways, RowHeldAlways, PTL DEF Spec

-----------------------------------------------------------------------------
(* The counter of reopenings.                                              *)

Reopenings(h) == {i \in DOMAIN h : h[i].to = "REOPENED"}

LEMMA ReopeningsGrow ==
    ASSUME NEW h \in Seq(HistoryRows), NEW e \in HistoryRows
    PROVE  /\ Cardinality(Reopenings(h)) \in Nat
           /\ Cardinality(Reopenings(Append(h, e)))
                = IF e.to = "REOPENED" THEN Cardinality(Reopenings(h)) + 1
                  ELSE Cardinality(Reopenings(h))
<1> DEFINE n == Len(h)
<1>1. n \in Nat /\ DOMAIN h = 1..n
  OBVIOUS
<1>2. IsFiniteSet(Reopenings(h))
  <2>1. Reopenings(h) \in SUBSET (1..n) /\ IsFiniteSet(1..n)
    BY <1>1, FS_Interval DEF Reopenings
  <2> QED
    BY <2>1, FS_Subset
<1>3. n + 1 \notin Reopenings(h)
  BY <1>1 DEF Reopenings
<1> PICK t : t = Append(h, e)
  OBVIOUS
<1>4. /\ DOMAIN t = 1..n + 1 /\ t[n + 1] = e
      /\ \A i \in 1..n : t[i] = h[i]
  BY AppendRows
<1>5. Reopenings(t) = IF e.to = "REOPENED" THEN Reopenings(h) \cup {n + 1} ELSE Reopenings(h)
  BY <1>1, <1>4 DEF Reopenings
<1>6. Cardinality(Reopenings(h)) \in Nat
  BY <1>2, FS_CardinalityType
<1>7. Cardinality(Reopenings(h) \cup {n + 1}) = Cardinality(Reopenings(h)) + 1
  BY <1>2, <1>3, FS_AddElement
<1> QED
  BY <1>5, <1>6, <1>7

LEMMA CountStep ==
    ASSUME Ops \subseteq ServiceOps, TypeOK, CallsVetted, RowHeld, ReopeningsCounted, [Next]_vars
    PROVE  ReopeningsCounted'
<1>1. CASE UNCHANGED <<item, history>>
  BY <1>1 DEF ReopeningsCounted
<1>2. ASSUME NEW u \in Users, Commit(u) PROVE ReopeningsCounted'
  <2>1. PICK e \in HistoryRows :
           /\ history' = Append(history, e)
           /\ item'.reopened = IF e.to = "REOPENED" THEN item.reopened + 1 ELSE item.reopened
    BY <1>2, CommitAppends
  <2>2. history \in Seq(HistoryRows) /\ item.reopened = Cardinality(Reopenings(history))
    BY DEF TypeOK, ReopeningsCounted, Reopenings
  <2>3. Cardinality(Reopenings(history'))
          = IF e.to = "REOPENED" THEN Cardinality(Reopenings(history)) + 1
            ELSE Cardinality(Reopenings(history))
    BY <2>1, <2>2, ReopeningsGrow
  <2> QED
    BY <2>1, <2>2, <2>3 DEF ReopeningsCounted, Reopenings
<1> QED
  BY <1>1, <1>2, OnlyCommitMoves

LEMMA CountInit == Init => ReopeningsCounted
<1> SUFFICES ASSUME Init PROVE ReopeningsCounted
  OBVIOUS
<1>1. PICK s \in FormStatuses, n \in Percents, b \in BOOLEAN : item = Posted(BlankRow, s, n, b)
  BY DEF Init
<1>2. item.reopened = 0
  BY <1>1, BlanksTyped, PostedRows DEF BlankRow
<1>3. {i \in DOMAIN history : history[i].to = "REOPENED"} = {}
  BY DEF Init
<1> QED
  BY <1>2, <1>3, FS_EmptySet DEF ReopeningsCounted

\* Likewise reopened_count counts the recorded reopenings, however many
\* administrators reopen at once.
THEOREM NoReopeningLost ==
    ASSUME Ops \subseteq ServiceOps
    PROVE  Spec => []ReopeningsCounted
<1>1. TypeOK /\ CallsVetted /\ RowHeld /\ ReopeningsCounted /\ [Next]_vars => ReopeningsCounted'
  BY CountStep
<1> QED
  BY <1>1, CountInit, TypeCorrect, VettedAlways, RowHeldAlways, PTL DEF Spec

-----------------------------------------------------------------------------
(* Blockers.                                                               *)

LEMMA BlockedAfter ==
    \A judged, locked \in Rows, t \in Statuses : Moved(judged, locked, t).blocked = locked.blocked
  BY DEF Moved, Rows

LEMMA PostedBlockers ==
    ASSUME NEW row \in Rows, NEW s \in FormStatuses, NEW n \in Percents, NEW b \in BOOLEAN
    PROVE  Posted(row, s, n, b).status \in FormStatuses
  BY PostedRows

\* A completion waits with a judged row that had no blockers.
BlockersJudged ==
    \A u \in Users : pc[u] \in {"checked", "locked"} /\ call[u].target = "COMPLETED"
                       => ~checked[u].blocked

LEMMA BlockersJudgedStep == TypeOK /\ BlockersJudged /\ [Next]_vars => BlockersJudged'
<1> SUFFICES ASSUME TypeOK, BlockersJudged, [Next]_vars PROVE BlockersJudged'
  OBVIOUS
<1> USE DEF BlockersJudged
<1>1. ASSUME NEW u \in Users, End(u) PROVE BlockersJudged'
  BY <1>1, EndLocals
<1>2. ASSUME NEW u \in Users, Load(u) \/ Reload(u) PROVE BlockersJudged'
  <2>1. /\ pc'[u] \in {"loaded", "editing"} /\ checked' = checked
        /\ \A v \in Users \ {u} : pc'[v] = pc[v] /\ call'[v] = call[v]
    BY <1>2 DEF Load, Reload, TypeOK
  <2> QED
    BY <2>1
<1>3. ASSUME NEW u \in Users, Validate(u) PROVE BlockersJudged'
  <2>1. /\ call' = call /\ checked'[u] = item
        /\ call[u].target = "COMPLETED" => ~item.blocked
    BY <1>3 DEF Validate, TransitionAllowed, TypeOK
  <2>2. \A v \in Users \ {u} : pc'[v] = pc[v] /\ checked'[v] = checked[v]
    BY <1>3 DEF Validate, TypeOK
  <2> QED
    BY <2>1, <2>2
<1>4. ASSUME NEW u \in Users, Acquire(u) PROVE BlockersJudged'
  <2>1. /\ pc[u] = "checked" /\ UNCHANGED <<call, checked>>
        /\ \A v \in Users \ {u} : pc'[v] = pc[v]
    BY <1>4 DEF Acquire, TypeOK
  <2> QED
    BY <2>1
<1>5. CASE UNCHANGED vars
  BY <1>5 DEF vars
<1> QED
  BY <1>1, <1>2, <1>3, <1>4, <1>5 DEF Next, Refuse, Vanished, RefuseForm, Commit, Rollback,
                                      Save, Delete

LEMMA BlockersJudgedAlways == Spec => []BlockersJudged
<1>1. Init => BlockersJudged
  BY DEF Init, BlockersJudged
<1> QED
  BY <1>1, BlockersJudgedStep, TypeCorrect, PTL DEF Spec

\* Which steps touch the item, and what they make of its status and blockers.
LEMMA ItemWrites ==
    ASSUME TypeOK, [Next]_vars
    PROVE  \/ item' = item /\ (present' => present)
           \/ \E u \in Users : Save(u) /\ item'.status \in FormStatuses
           \/ \E u \in Users : /\ Commit(u)
                               /\ item'.status = call[u].target /\ item'.blocked = held[u].blocked
<1>1. ASSUME NEW u \in Users, Save(u) PROVE item'.status \in FormStatuses
  <2>1. PICK s \in FormStatuses, n \in Percents, b \in BOOLEAN : item' = Posted(copy[u], s, n, b)
    BY <1>1 DEF Save
  <2>2. copy[u] \in Rows
    BY DEF TypeOK
  <2> QED
    BY <2>1, <2>2, PostedBlockers
<1>2. ASSUME NEW u \in Users, Commit(u)
      PROVE  item'.status = call[u].target /\ item'.blocked = held[u].blocked
  <2>1. item' = Moved(checked[u], held[u], call[u].target)
    BY <1>2 DEF Commit
  <2>2. checked[u] \in Rows /\ held[u] \in Rows /\ call[u].target \in Statuses
    BY DEF TypeOK, Calls
  <2> QED
    BY <1>2, <2>1, <2>2, BlockedAfter, CommitTyped
<1> QED
  BY <1>1, <1>2 DEF Next, vars, db, Load, Validate, Refuse, Acquire, Vanished, Rollback, Reload,
                    RefuseForm, Delete

CompletedBetween ==
    present' /\ item'.status = "COMPLETED" /\ item'.blocked
      => \/ present /\ item.status = "COMPLETED" /\ item.blocked
         \/ \E u \in Users : /\ pc[u] = "locked" /\ pc'[u] = "idle"
                            /\ call[u].target = "COMPLETED"
                            /\ ~checked[u].blocked /\ held[u].blocked

LEMMA CompletedBetweenStep ==
    TypeOK /\ BlockersJudged /\ [Next]_vars => [CompletedBetween]_vars
<1> SUFFICES ASSUME TypeOK, BlockersJudged, [Next]_vars,
                    present', item'.status = "COMPLETED", item'.blocked
             PROVE  \/ present /\ item.status = "COMPLETED" /\ item.blocked
                    \/ \E u \in Users : /\ pc[u] = "locked" /\ pc'[u] = "idle"
                                        /\ call[u].target = "COMPLETED"
                                        /\ ~checked[u].blocked /\ held[u].blocked
  BY DEF CompletedBetween
<1>1. ~(item'.status \in FormStatuses)
  BY DEF FormStatuses
<1>2. ASSUME NEW u \in Users, Commit(u),
             item'.status = call[u].target, item'.blocked = held[u].blocked
      PROVE  /\ pc[u] = "locked" /\ pc'[u] = "idle" /\ call[u].target = "COMPLETED"
             /\ ~checked[u].blocked /\ held[u].blocked
  BY <1>2, EndLocals DEF Commit, BlockersJudged
<1> QED
  BY <1>1, <1>2, ItemWrites

\* An item gets completed with blockers only when a completion was judged
\* without and the blockers came before its lock.
THEOREM BlockersOnlyBetween == Spec => BlockersCameBetween
<1>1. BlockersCameBetween <=> [][CompletedBetween]_vars
  BY DEF BlockersCameBetween, CompletedBetween
<1> QED
  BY <1>1, CompletedBetweenStep, BlockersJudgedAlways, TypeCorrect, PTL DEF Spec

\* What was judged and what the item has now agree on blockers, as long as no
\* edit form is served or requests do not overlap.
BlockersStand ==
    \A u \in Users : pc[u] \in {"checked", "locked"} => checked[u].blocked = item.blocked

Undisturbed == (\E a : Users = {a}) \/ "edit" \notin Ops

LEMMA BlockersStandStep ==
    ASSUME Undisturbed, TypeOK, CallsVetted, RowHeld, BlockersStand, [Next]_vars
    PROVE  BlockersStand'
<1> USE DEF BlockersStand
<1>1. ASSUME NEW u \in Users, End(u), item'.blocked = item.blocked PROVE BlockersStand'
  BY <1>1, EndLocals
<1>2. ASSUME NEW u \in Users, Load(u) \/ Reload(u) PROVE BlockersStand'
  <2>1. /\ pc'[u] \in {"loaded", "editing"} /\ UNCHANGED <<checked, item>>
        /\ \A v \in Users \ {u} : pc'[v] = pc[v]
    BY <1>2 DEF Load, Reload, TypeOK, db
  <2> QED
    BY <2>1
<1>3. ASSUME NEW u \in Users, Validate(u) PROVE BlockersStand'
  <2>1. /\ checked'[u] = item /\ item' = item
        /\ \A v \in Users \ {u} : pc'[v] = pc[v] /\ checked'[v] = checked[v]
    BY <1>3 DEF Validate, TypeOK, db
  <2> QED
    BY <2>1
<1>4. ASSUME NEW u \in Users, Acquire(u) PROVE BlockersStand'
  <2>1. /\ pc[u] = "checked" /\ UNCHANGED <<checked, item>>
        /\ \A v \in Users \ {u} : pc'[v] = pc[v]
    BY <1>4 DEF Acquire, TypeOK, db
  <2> QED
    BY <2>1
<1>5. ASSUME NEW u \in Users, Commit(u) PROVE BlockersStand'
  <2>1. held[u] = item /\ item' = Moved(checked[u], held[u], call[u].target)
    BY <1>5 DEF Commit, RowHeld
  <2>2. checked[u] \in Rows /\ held[u] \in Rows /\ call[u].target \in Statuses
    BY DEF TypeOK, Calls
  <2> QED
    BY <1>1, <1>5, <2>1, <2>2, BlockedAfter DEF Commit
<1>6. ASSUME NEW u \in Users, Save(u) PROVE BlockersStand'
  <2>1. "edit" \in Ops
    BY <1>6 DEF Save, CallsVetted
  <2>2. \A v \in Users : v = u
    BY <2>1 DEF Undisturbed
  <2> QED
    BY <1>6, <2>2, EndLocals DEF Save
<1>7. ASSUME NEW u \in Users, Refuse(u) \/ Vanished(u) \/ RefuseForm(u) \/ Rollback(u) \/ Delete(u)
      PROVE  BlockersStand'
  BY <1>1, <1>7 DEF Refuse, Vanished, RefuseForm, Rollback, Delete, db
<1>8. CASE UNCHANGED vars
  BY <1>8 DEF vars
<1> QED
  BY <1>2, <1>3, <1>4, <1>5, <1>6, <1>7, <1>8 DEF Next

LEMMA UnblockedStep ==
    ASSUME TypeOK, RowHeld, BlockersJudged, BlockersStand, CompletedUnblocked, [Next]_vars
    PROVE  CompletedUnblocked'
<1>1. CASE item' = item /\ (present' => present)
  BY <1>1 DEF CompletedUnblocked
<1>2. CASE item'.status \in FormStatuses
  BY <1>2 DEF CompletedUnblocked, FormStatuses
<1>3. ASSUME NEW u \in Users, Commit(u),
             item'.status = call[u].target, item'.blocked = held[u].blocked
      PROVE  CompletedUnblocked'
  <2>1. pc[u] = "locked" /\ held[u] = item
    BY <1>3 DEF Commit, RowHeld
  <2> QED
    BY <1>3, <2>1 DEF BlockersStand, BlockersJudged, CompletedUnblocked
<1> QED
  BY <1>1, <1>2, <1>3, ItemWrites

\* While requests do not overlap, and among any number of them when no edit form
\* is served, completed items have no blockers although save() never validates.
THEOREM CompletedAreUnblocked ==
    ASSUME (\E a : Users = {a}) \/ "edit" \notin Ops
    PROVE  Spec => []CompletedUnblocked
<1>1. Undisturbed
  BY DEF Undisturbed
<1>2. Init => BlockersStand
  BY DEF Init, BlockersStand
<1>3. Init => CompletedUnblocked
  <2> SUFFICES ASSUME Init PROVE CompletedUnblocked
    OBVIOUS
  <2>1. PICK s \in FormStatuses, n \in Percents, b \in BOOLEAN : item = Posted(BlankRow, s, n, b)
    BY DEF Init
  <2>2. item.status \in FormStatuses
    BY <2>1, BlanksTyped, PostedRows
  <2> QED
    BY <2>2 DEF CompletedUnblocked, FormStatuses
<1>4. TypeOK /\ CallsVetted /\ RowHeld /\ BlockersStand /\ [Next]_vars => BlockersStand'
  BY <1>1, BlockersStandStep
<1>5. TypeOK /\ RowHeld /\ BlockersJudged /\ BlockersStand /\ CompletedUnblocked /\ [Next]_vars
        => CompletedUnblocked'
  BY UnblockedStep
<1> QED
  BY <1>2, <1>3, <1>4, <1>5, BlockersJudgedAlways, TypeCorrect, VettedAlways, RowHeldAlways,
     PTL DEF Spec

-----------------------------------------------------------------------------
(* Requests one at a time.                                                 *)

\* When requests do not overlap and nothing is deleted, what a request has
\* judged or copied is still the item.
Serial ==
    /\ present
    /\ \A u \in Users :
          /\ pc[u] \in {"checked", "locked"} =>
                checked[u] = item /\ call[u].target \in ValidTransitions[item.status]
          /\ pc[u] = "editing" => copy[u] = item /\ item.status \notin Terminal

LEMMA SerialStep ==
    ASSUME NEW a, Users = {a}, "delete" \notin Ops, TypeOK, CallsVetted, Serial, [Next]_vars
    PROVE  Serial'
<1> USE DEF Serial
<1>1. CASE UNCHANGED vars
  BY <1>1 DEF vars
<1>2. a \in Users /\ \A u \in Users : u = a
  OBVIOUS
<1>3. ASSUME pc'[a] \in {"idle", "loaded"}, present' PROVE Serial'
  BY <1>2, <1>3
<1>4. ASSUME End(a), present' PROVE Serial'
  BY <1>2, <1>3, <1>4, EndLocals
<1>5. CASE Load(a)
  BY <1>2, <1>3, <1>5 DEF Load, db, TypeOK
<1>6. CASE Validate(a)
  <2>1. /\ checked'[a] = item /\ pc'[a] = "checked" /\ UNCHANGED <<item, present, call>>
        /\ call[a].target \in ValidTransitions[item.status]
    BY <1>2, <1>6 DEF Validate, TransitionAllowed, EdgeAllowed, db, TypeOK
  <2> QED
    BY <1>2, <2>1
<1>7. CASE Acquire(a)
  <2>1. pc[a] = "checked" /\ pc'[a] = "locked" /\ UNCHANGED <<item, present, call, checked>>
    BY <1>2, <1>7 DEF Acquire, db, TypeOK
  <2> QED
    BY <1>2, <2>1
<1>8. CASE Reload(a)
  <2>1. /\ pc'[a] = "editing" /\ copy'[a] = item /\ item.status \notin Terminal
        /\ UNCHANGED <<item, present>>
    BY <1>2, <1>8 DEF Reload, db, TypeOK
  <2> QED
    BY <1>2, <2>1
<1>9. CASE Refuse(a) \/ Vanished(a) \/ RefuseForm(a) \/ Commit(a) \/ Rollback(a) \/ Save(a)
  BY <1>4, <1>9 DEF Refuse, Vanished, RefuseForm, Commit, Rollback, Save, db
<1>10. ~Delete(a)
  BY <1>2 DEF Delete, CallsVetted
<1> QED
  BY <1>1, <1>2, <1>5, <1>6, <1>7, <1>8, <1>9, <1>10 DEF Next

\* The instance's graph is the graph.
LEMMA LifecycleGraph ==
    /\ Lifecycle!ValidTransitions = ValidTransitions /\ Lifecycle!Statuses = Statuses
    /\ Lifecycle!Terminal = Terminal /\ Lifecycle!FormStatuses = FormStatuses
  BY DEF Lifecycle!ValidTransitions, ValidTransitions, Lifecycle!Statuses, Statuses,
         Lifecycle!Active, Active, Lifecycle!Terminal, Terminal, Lifecycle!FormStatuses,
         FormStatuses

LEMMA LifecycleInit == Init => Lifecycle!Init
<1> SUFFICES ASSUME Init PROVE Lifecycle!Init
  OBVIOUS
<1>1. PICK s \in FormStatuses, n \in Percents, b \in BOOLEAN : item = Posted(BlankRow, s, n, b)
  BY DEF Init
<1>2. item.status \in FormStatuses /\ item.done = BlankRow.done /\ item.reopened = 0
  BY <1>1, BlanksTyped, PostedRows DEF BlankRow
<1>3. item.done = FALSE
  BY <1>2 DEF BlankRow
<1>4. Len(history) = 0
  BY DEF Init
<1> QED
  BY <1>2, <1>3, <1>4, LifecycleGraph DEF Lifecycle!Init

LEMMA LifecycleStep ==
    ASSUME NEW a, Users = {a}, "delete" \notin Ops,
           TypeOK, CallsVetted, RowHeld, RowsAgree, Serial, [Next]_vars
    PROVE  [Lifecycle!Next]_(<<item.status, item.done, item.reopened, Len(history)>>)
<1>1. a \in Users
  OBVIOUS
<1>2. CASE Commit(a)
  <2>1. PICK e \in HistoryRows :
           /\ history' = Append(history, e)
           /\ e.to = item'.status /\ e.to = call[a].target
           /\ item'.reopened = IF e.to = "REOPENED" THEN item.reopened + 1 ELSE item.reopened
    BY <1>1, <1>2, CommitAppends
  <2>2. Len(history') = Len(history) + 1
    BY <2>1 DEF TypeOK
  <2>3. e.to \in ValidTransitions[item.status] /\ e.to \in Statuses
    BY <1>1, <1>2, <2>1 DEF Commit, Serial, HistoryRows
  <2>4. held[a] = item /\ (item.done <=> item.status = "COMPLETED") /\ item \in Rows
    BY <1>1, <1>2 DEF Commit, RowHeld, RowsAgree, RowAgrees, TypeOK
  <2>5. item'.done = (e.to = "COMPLETED" \/ (item.done /\ item.status # "COMPLETED"))
    BY <1>1, <1>2, <2>1, <2>4, CommitTyped
  <2>6. item'.done = (e.to = "COMPLETED")
    BY <2>4, <2>5
  <2>7. Lifecycle!Move(e.to)
    BY <2>1, <2>2, <2>3, <2>6, LifecycleGraph DEF Lifecycle!Move
  <2> QED
    BY <2>3, <2>7, LifecycleGraph DEF Lifecycle!Next
<1>3. CASE Save(a)
  <2>1. PICK s \in FormStatuses, n \in Percents, b \in BOOLEAN : item' = Posted(copy[a], s, n, b)
    BY <1>3 DEF Save
  <2>2. copy[a] = item /\ item.status \notin Terminal /\ item \in Rows
    BY <1>1, <1>3 DEF Save, Serial, TypeOK
  <2>3. /\ item'.status \in FormStatuses /\ item'.done = item.done
        /\ item'.reopened = item.reopened
    BY <2>1, <2>2, PostedRows
  <2>4. history' = history
    BY <1>3 DEF Save
  <2> QED
    BY <2>2, <2>3, <2>4, LifecycleGraph DEF Lifecycle!Edit, Lifecycle!Next
<1>4. CASE UNCHANGED <<item, history>>
  BY <1>4
<1>5. ~Delete(a)
  BY <1>1 DEF Delete, CallsVetted
<1> QED
  BY <1>1, <1>2, <1>3, <1>4, <1>5 DEF Next, vars, db, Load, Validate, Refuse, Acquire, Vanished,
                                      Rollback, Reload, RefuseForm

\* One user at a time, with the edit form and the status endpoints and without
\* deletion, implements the life cycle.
THEOREM SerialImplementsLifecycle ==
    ASSUME NEW a, Users = {a}, "delete" \notin Ops
    PROVE  Spec => ImplementsLifecycle
<1>1. Init => Serial
  BY DEF Init, Serial
<1>2. TypeOK /\ CallsVetted /\ Serial /\ [Next]_vars => Serial'
  BY SerialStep
<1>3. TypeOK /\ CallsVetted /\ RowHeld /\ RowsAgree /\ Serial /\ [Next]_vars
         => [Lifecycle!Next]_(<<item.status, item.done, item.reopened, Len(history)>>)
  BY LifecycleStep
<1> QED
  BY <1>1, <1>2, <1>3, LifecycleInit, RowsAgreeInit, RowsAgreeStep, TypeCorrect, VettedAlways,
     RowHeldAlways, PTL DEF Spec, ImplementsLifecycle, Lifecycle!Spec
=============================================================================
