------------------------- MODULE ActionItemWorkflow -------------------------
(***************************************************************************)
(* One action item served by concurrent requests (action_items/services.py *)
(* and views.py), under the same transactions as MeetingWorkflow.          *)
(*                                                                         *)
(* transition_actionitem reads the row and judges it, then locks it and    *)
(* writes: unlike transition_meeting it does not compare what it locks     *)
(* with what it judged.  The progress it writes comes from the row it      *)
(* judged, everything else from the row it locked.                         *)
(***************************************************************************)
EXTENDS ActionItemRules, Sequences, FiniteSets

CONSTANTS
    Users,          \* users sending requests, one request at a time each
    NoUser,         \* nobody: a free lock
    RolesOf,        \* what each user is to the item
    Ops,            \* the endpoints that receive requests
    Percents,       \* the progress a form may post
    MaxHistory,     \* bound: no request starts once the history is this long
    MaxReopened     \* bound: nor once the item was reopened this often

ASSUME UsersAssumption == NoUser \notin Users /\ RolesOf \in [Users -> SUBSET Roles]
ASSUME OpsAssumption == Ops \subseteq AllOps
ASSUME PercentsAssumption == Percents \subseteq 0..100
ASSUME BoundsAssumption == MaxHistory \in Nat /\ MaxReopened \in Nat

VARIABLES
    item,       \* the row of the item; of no interest while it is not present
    present,    \* whether the row exists
    history,    \* ActionItemStatusHistory rows, oldest first
    lock,       \* who holds the lock on the row
    pc,         \* per user: phase of the request in progress
    call,       \* per user: what that request asks for
    checked,    \* per user: the row transition_actionitem has judged
    held,       \* per user: the row transition_actionitem has locked
    copy        \* per user: the row the edit form has in memory

db   == <<item, present, history>>
vars == <<item, present, history, lock, pc, call, checked, held, copy>>

Rows == [status : Statuses, progress : 0..100, blocked : BOOLEAN, done : BOOLEAN,
         reopened : Nat]

HistoryRows == [from : Statuses, to : Statuses, by : Users, reason : BOOLEAN]

Calls == [op : AllOps, target : Statuses, reason : BOOLEAN]

Phases == {"idle", "loaded", "checked", "locked", "editing"}

NoCall == [op |-> "edit", target |-> "OPEN", reason |-> FALSE]

BlankRow == [status |-> "OPEN", progress |-> 0, blocked |-> FALSE, done |-> FALSE,
             reopened |-> 0]

\* What the create and edit forms make of a row: they post the status as well.
Posted(row, s, n, b) == [row EXCEPT !.status = s, !.progress = n, !.blocked = b]

-----------------------------------------------------------------------------
Init ==
    /\ \E s \in FormStatuses, n \in Percents, b \in BOOLEAN : item = Posted(BlankRow, s, n, b)
    /\ present = TRUE
    /\ history = <<>>
    /\ lock = NoUser
    /\ pc = [u \in Users |-> "idle"]
    /\ call = [u \in Users |-> NoCall]
    /\ checked = [u \in Users |-> BlankRow]
    /\ held = [u \in Users |-> BlankRow]
    /\ copy = [u \in Users |-> BlankRow]

\* The request of u has been answered; its locals are gone.
End(u) ==
    /\ pc' = [pc EXCEPT ![u] = "idle"]
    /\ call' = [call EXCEPT ![u] = NoCall]
    /\ checked' = [checked EXCEPT ![u] = BlankRow]
    /\ held' = [held EXCEPT ![u] = BlankRow]
    /\ copy' = [copy EXCEPT ![u] = BlankRow]

\* The view reads the item and admits the request.
Load(u) ==
    /\ pc[u] = "idle" /\ present
    /\ Len(history) < MaxHistory /\ item.reopened < MaxReopened
    /\ \E op \in Ops, target \in Statuses, reason \in BOOLEAN :
          /\ IF op \in ServiceOps THEN target \in Targets[op] ELSE target = "OPEN" /\ ~reason
          /\ Admitted(op, RolesOf[u], item, target, reason)
          /\ call' = [call EXCEPT ![u] = [op |-> op, target |-> target, reason |-> reason]]
    /\ pc' = [pc EXCEPT ![u] = "loaded"]
    /\ UNCHANGED <<db, lock, checked, held, copy>>

\* transition_actionitem reads the row again and judges it, without a lock.
Validate(u) ==
    /\ pc[u] = "loaded" /\ call[u].op \in ServiceOps
    /\ present /\ TransitionAllowed(RolesOf[u], item, call[u].target, call[u].reason)
    /\ pc' = [pc EXCEPT ![u] = "checked"]
    /\ checked' = [checked EXCEPT ![u] = item]
    /\ UNCHANGED <<db, lock, call, held, copy>>

Refuse(u) ==
    /\ pc[u] = "loaded" /\ call[u].op \in ServiceOps
    /\ ~(present /\ TransitionAllowed(RolesOf[u], item, call[u].target, call[u].reason))
    /\ End(u)
    /\ UNCHANGED <<db, lock>>

\* Mutant of Acquire: the row is read without FOR UPDATE.
AcquireShared(u) ==
    /\ pc[u] = "checked" /\ present
    /\ lock' = u
    /\ pc' = [pc EXCEPT ![u] = "locked"]
    /\ held' = [held EXCEPT ![u] = item]
    /\ UNCHANGED <<db, call, checked, copy>>

Acquire(u) ==
    /\ pc[u] = "checked" /\ present /\ lock = NoUser
    /\ lock' = u
    /\ pc' = [pc EXCEPT ![u] = "locked"]
    /\ held' = [held EXCEPT ![u] = item]
    /\ UNCHANGED <<db, call, checked, copy>>

\* The row was deleted in between: DoesNotExist, which nobody catches.
Vanished(u) ==
    /\ pc[u] = "checked" /\ ~present /\ lock = NoUser
    /\ End(u)
    /\ UNCHANGED <<db, lock>>

-----------------------------------------------------------------------------
ProgressAfter(progress, target) ==
    IF target = "COMPLETED" THEN 100
    ELSE IF target = "IN_PROGRESS" /\ progress = 0 THEN 10 ELSE progress

\* Mutant of Moved: the completion stamp goes by the row that was judged.
MovedByJudged(judged, locked, target) ==
    [locked EXCEPT !.status = target,
                   !.progress = ProgressAfter(judged.progress, target),
                   !.done = target = "COMPLETED" \/ (@ /\ judged.status # "COMPLETED"),
                   !.reopened = IF target = "REOPENED" THEN @ + 1 ELSE @]

\* What the locked row becomes.
Moved(judged, locked, target) ==
    [locked EXCEPT !.status = target,
                   !.progress = ProgressAfter(judged.progress, target),
                   !.done = target = "COMPLETED" \/ (@ /\ locked.status # "COMPLETED"),
                   !.reopened = IF target = "REOPENED" THEN @ + 1 ELSE @]

\* Mutant of NewEntry: the row tells where the judged row was.
NewEntryJudged(u) ==
    [from |-> checked[u].status, to |-> call[u].target, by |-> u, reason |-> call[u].reason]

\* The history row of the transition tells where the locked row was.
NewEntry(u) ==
    [from |-> held[u].status, to |-> call[u].target, by |-> u, reason |-> call[u].reason]

Commit(u) ==
    /\ pc[u] = "locked"
    /\ item' = Moved(checked[u], held[u], call[u].target)
    /\ history' = Append(history, NewEntry(u))
    /\ lock' = NoUser
    /\ End(u)
    /\ UNCHANGED present

\* An uncaught exception, a lost connection or a dead worker.
Rollback(u) ==
    /\ pc[u] # "idle"
    /\ End(u)
    /\ lock' = IF lock = u THEN NoUser ELSE lock
    /\ UNCHANGED db

-----------------------------------------------------------------------------
\* UpdateView.post fetches the object a second time.  On a terminal item every
\* field is disabled, and its status is not among the choices of the form:
\* the form is not valid.
Reload(u) ==
    /\ pc[u] = "loaded" /\ call[u].op = "edit"
    /\ present /\ item.status \notin Terminal
    /\ copy' = [copy EXCEPT ![u] = item]
    /\ pc' = [pc EXCEPT ![u] = "editing"]
    /\ UNCHANGED <<db, lock, call, checked, held>>

RefuseForm(u) ==
    /\ pc[u] = "loaded" /\ call[u].op \in {"edit", "delete"}
    /\ ~present \/ (call[u].op = "edit" /\ item.status \in Terminal)
    /\ End(u)
    /\ UNCHANGED <<db, lock>>

\* form.save() writes every column from the copy.  Where no row is left to
\* update, Django inserts one.
Save(u) ==
    /\ pc[u] = "editing" /\ lock = NoUser
    /\ \E s \in FormStatuses, n \in Percents, b \in BOOLEAN : item' = Posted(copy[u], s, n, b)
    /\ present' = TRUE
    /\ End(u)
    /\ UNCHANGED <<history, lock>>

\* The item is deleted with its history.
Delete(u) ==
    /\ pc[u] = "loaded" /\ call[u].op = "delete"
    /\ present /\ lock = NoUser
    /\ present' = FALSE
    /\ history' = <<>>
    /\ End(u)
    /\ UNCHANGED <<item, lock>>

-----------------------------------------------------------------------------
Next == \E u \in Users :
    \/ Load(u) \/ Validate(u) \/ Refuse(u) \/ Acquire(u) \/ Vanished(u) \/ Commit(u)
    \/ Reload(u) \/ RefuseForm(u) \/ Save(u) \/ Delete(u)
    \/ Rollback(u)

Spec == Init /\ [][Next]_vars

-----------------------------------------------------------------------------
(* Properties.                                                             *)

\* Every variable has its type.
TypeOK ==
    /\ item \in Rows /\ present \in BOOLEAN
    /\ history \in Seq(HistoryRows)
    /\ lock \in Users \cup {NoUser}
    /\ pc \in [Users -> Phases] /\ call \in [Users -> Calls]
    /\ checked \in [Users -> Rows] /\ held \in [Users -> Rows] /\ copy \in [Users -> Rows]

\* The rows somebody may still write: the item, and the copies of edit forms.
LiveRows == {r \in {item} : present} \cup {copy[u] : u \in {v \in Users : pc[v] = "editing"}}

\* ActionItem.clean over all interleavings, stale writes and re-insertions:
\* the completion stamp is set exactly on completed items, and those are at
\* 100 percent.
CompletionAgrees ==
    \A row \in LiveRows : /\ row.done <=> row.status = "COMPLETED"
                          /\ row.status = "COMPLETED" => row.progress = 100

\* Nobody but an administrator reopens an item, and never without a reason,
\* even when the item is no longer what he judged when the row is written.
ReopenedByAdmin ==
    \A i \in DOMAIN history :
        history[i].to = "REOPENED" => history[i].reason /\ IsAdmin(RolesOf[history[i].by])

\* With no edit form, the history is one chain from a status an item can be
\* created in to the current one, although requests do not compare what they
\* lock with what they judged.
HistoryChain ==
    /\ \A i \in 2..Len(history) : history[i].from = history[i - 1].to
    /\ IF history = <<>> THEN item.status \in FormStatuses
       ELSE history[1].from \in FormStatuses /\ item.status = history[Len(history)].to

\* With no edit form, reopened_count is the number of recorded reopenings:
\* no increment is lost.
ReopeningsCounted ==
    item.reopened = Cardinality({i \in DOMAIN history : history[i].to = "REOPENED"})

\* ActionItem.clean's "Completed items must not have unresolved blockers.", which
\* save() never calls: it holds while requests do not overlap.
CompletedUnblocked == present /\ item.status = "COMPLETED" => ~item.blocked

\* An item that was not completed with blockers becomes so in one way only: a
\* completion judged a row without blockers, and an edit form wrote some before
\* the row was locked.
BlockersCameBetween ==
    [][present' /\ item'.status = "COMPLETED" /\ item'.blocked
         => \/ present /\ item.status = "COMPLETED" /\ item.blocked
            \/ \E u \in Users : /\ pc[u] = "locked" /\ pc'[u] = "idle"
                               /\ call[u].target = "COMPLETED"
                               /\ ~checked[u].blocked /\ held[u].blocked]_vars

\* What a single user at a time is promised, see ActionItemLifecycle.
Lifecycle == INSTANCE ActionItemLifecycle WITH
    status <- item.status, done <- item.done, reopened <- item.reopened,
    moves <- Len(history)

\* Requests that do not overlap implement the life cycle.
ImplementsLifecycle == Lifecycle!Spec
=============================================================================
